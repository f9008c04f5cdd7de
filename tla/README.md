# Grafana Image Renderer: TLA+ models, checks and proofs

The image renderer is an HTTP service. A request names a page of a Grafana; the
service starts a browser for it, opens the page, waits until the page is ready,
captures it (PNG, PDF, or a CSV file that the page downloads) and answers with
the bytes. This directory models the parts of it whose correctness depends on
the order of things: who reads a counter while who else updates it, what the
page does between two polls, what several requests do to one limiter or to the
configuration they share, what a signal finds when it comes.

Paths below are relative to the repository; `browser.go` is
`pkg/service/browser.go`, `ratelimiter.go` is
`pkg/api/middleware/ratelimiter.go`, `process.go` is `pkg/service/process.go`,
`config.go` is `pkg/config/config.go`, `render.go` is `pkg/api/render.go`,
`server.go` is `pkg/api/server.go`, `sandbox.go` is `pkg/sandbox/sandbox.go`.

## 1. Inventory

| Component | State | Operations | Interacts with |
|---|---|---|---|
| Readiness network observer (`browser.go:1261-1318`) | map of request identifiers under a mutex; an atomic counter | `onRequestWillBeSent`, `onRequestCompleted`, `inflight` | fed by the browser's event stream through a chromedp listener; read without the lock by the waiter |
| Readiness waiter, `waitForReady` (`browser.go:1029-1216`) | seen-a-query flag, cycle count, first-DOM-pass flag, DOM hash, two timers, the `renderDone` channel | set-up (registers two listeners), probe, binding mode, polling mode (network, queries, DOM) | evaluates scripts in the page; obeys the request's context |
| Process statistics (`process.go`) | `PeakMemory` and `MaxMemory` under a mutex; one goroutine per browser with a local peak | `TrackProcess`, sampling, fold | started by the render session, ended by the browser's context or its exit; read by the limiter without the lock |
| Rate limiter (`ratelimiter.go`) | atomic count of admitted requests, shared by `/render` and `/render/csv` | `canFitRequest`, `Limit` | reads statistics and the machine's memory; wraps the handlers, below the recovery middleware |
| Render session (`browser.go:252-332`) | temporary directory, allocator and browser contexts, a one-place channel for the bytes | the list of 16 actions, the printer's `prepare` and `action` | all of the above |
| Full-height resize (`browser.go:820-877`) | none | resizes, then waits with a second waiter | a waiter registered while the page is loading |
| CSV download (`browser.go:339-442`) | download directory | polls for a `.csv` entry | request's context |
| Browser network events (`browser.go:504-600`) | maps of spans and MIME types | continues every paused request in a goroutine of its own | event stream |
| HTTP server (`pkg/api/server.go`, `cmd/server`) | listener, two goroutines in a group | serve, shut down | the contexts of all requests |
| Middleware chain (`pkg/api/mux.go`, `pkg/api/middleware`) | metrics | tracing, recovery, logging, metrics, authentication, URL check, limiter | handlers |
| Handlers and request parsing (`pkg/api/*.go`) | none | query parameters to options, errors to status codes | render session |
| Configuration (`pkg/config`) | settings, overrides per URL | flags, validators, `DeepClone`, `LookupRequestConfig` | everything |
| Sandbox (`pkg/sandbox`, `cmd/sandbox`) | mounts | mount, `pivot_root`, undo, `chroot` | the browser process |
| Command line, health check, traces, metrics | none of interest | start-up | - |

What is hard here:

- *Concurrency without locks.* The waiter reads the counter between the two
  updates of a callback; the limiter checks and adds in separate steps; trackers
  fold in any order.
- *A page that does anything at any time.* Requests redirect, complete twice,
  start between two polls; queries come and go; a script never returns; the
  page signals before anybody listens.
- *Time.* Five timeouts and an iteration timer, several of them due at once.
- *Failure.* Panics, scripts that fail, clients that go away, processes that die,
  any call to the system on the way into a new root.
- *Sharing.* Every request starts from one configuration that holds pointers; an
  override is a second parse of a reconstructed command line.
- *The end.* A signal, a failing `Serve`, five seconds of grace and a killed
  probe may fall together in any way.

What makes each part correct is listed with the modules below, and every hazard
at its line in `PROJECT.json`.

## 2. Modules

```
InflightCounter   <-implements-  NetworkObserver  <-EXTENDS-  Readiness
                                 NetworkObserver  <-EXTENDS-  NetworkEvents
Waiter            <-implements-  Readiness
Waiter            <-EXTENDS-     BrowserSession
ProcessStats      <-EXTENDS-     RateLimiter
Configuration     <-EXTENDS-     RenderRequests
SandboxFS         <-EXTENDS-     Server
```

`MCNetworkObserver` instantiates `NetworkEvents`; `MCReadiness`,
`MCBrowserSession`, `MCRateLimiter`, `MCRenderRequests` and `MCServer` the module
of their name. The theorems are in `Proofs` modules: `ReadinessProofs` and
`NetworkEventsProofs` extend `NetworkObserverProofs`, `RenderRequestsProofs` extends
`ConfigurationProofs`, and the theorems of `ProcessStats` and `SandboxFS` stand before
those of the modules that extend them (`RateLimiterProofs`, `ServerProofs`). A session takes minutes and a wait
polls many times, so the session is not composed with `Readiness` itself:
`Waiter` stands between them, and is all the session relies on. For the same
reason what a request is configured with (`RenderRequests`), what its session
does (`BrowserSession`), whether it is admitted (`RateLimiter`) and what the
process around it does (`Server`) are four modules that meet at the handler: each
takes what the others decide as a choice.

A definition whose name ends in `Fault` is the one below it with a plausible
mistake in it. No specification uses it; it is there to show that each property
can tell the code from the mistake (`mutants` in `PROJECT.json`).

### NetworkObserver, and InflightCounter

The observer's two structures are `requestIDs` and `inflightRequests`;
`callback` is the callback under way, between its update of the map and its
update of the counter. One callback runs at a time, because chromedp runs a
target's listeners in one goroutine, one event at a time; the reader may read at
any moment. `OnRequestWillBeSent` and `Increment` are `browser.go:1273-1289`,
`OnRequestCompleted` and `Decrement` are `1291-1301`, `Tracked` stands for
`shouldTrackReadinessNetworkRequest`. The page and the stream are the
environment: a request is sent, redirected under its own identifier, finishes or
fails; a completion may be reported again; `early` are the requests open before
the listener was registered, as happens to the second waiter of a full-height
render.

`InflightCounter` is what the reader is promised: a number that always equals
the requests that have begun and not ended. The refinement mapping takes as
outstanding the requests the counter accounts for (`Counted`), so a map update
is a stutter and a counter update is the step. The count of the rate limiter
(outstanding: the requests being served) and the gauge of requests in flight
(those being handled) implement the same module; that is proved, not run.

### NetworkEvents

`handleNetworkEvents` (`browser.go:504-600`) is a second listener on the same
stream, so the module extends the observer: for each event the handler's update
of its maps is joined to the observer's first step. `Render` enables the fetch
domain, and Chrome then announces a request, holds it until it is told to
continue, and only then answers or redirects it, which announces and holds it
again (`fetched`). `continuing` are the goroutines of line 519; `requests` and
`requestMimes` are the two maps. An error of `ContinueRequest` is only logged, so
`ContinueRequest` may leave a request held for ever (`refused`). There is no case
for a failed load: `OnLoadingFailed` changes nothing.

### Readiness

One action per stretch of the goroutine between two points where it can be
overtaken: a select, the read of the counter, the return of a script.

| Action | Code | |
|---|---|---|
| `Start`, `Probe` | 1084-1108 | timer made; binding supported? An error counts as no |
| `Interrupted`, `RenderSignalled` | 1110-1123, 1138-1143 | the selects |
| `Iterate`, `CheckNetwork` | 1145-1156 | timer of the iteration; the counter |
| `QueriesRunning`, `QueriesQuiet` | 1158-1179 | |
| `ReadDOM` | 1181-1209 | |
| `ScriptFails` | 1160-1164, 1184-1188, 1195-1199 | with an error of its own, or that of a context that has ended |
| `NetworkEvent`, `OnBindingCalled` | 1061-1082 | the listeners |

The environment queries, changes its content, hangs (no script returns any
more), calls the binding; the context ends. `BodyString` is what
`document.body.toString()` yields, the name of the body's class: the model hashes
what the code hashes. `Readiness` extends `NetworkObserver`: the observer's steps
are steps of the composition that leave the waiter's variables alone, and the
waiter only reads the counter.

Time is discrete. `now` is `time.Since(start)` and stops at `Horizon`, an instant
later than every configured duration, beyond which no comparison of the code can
tell instants apart; the timer of an iteration counts down. The clock does not
move past a select that has a channel ready, but any of the ready channels may
be taken, and a script may take any time.

History variables (`quietPolls`, `consecutivePolls`, `stillReads`, `lastRead`)
record what the page has shown; no guard reads them.

### BrowserSession, and Waiter

`BrowserSession` is `Render` (252-332) and `RenderCSV` (339-442) from the
handler's call to its answer. `pc` is the place in the function, `action` the
place in its list of actions (`RenderActions` and `CSVActions`, in the code's
order and with the code's names), `deferred` the calls deferred so far,
`outcome` the result on its way through them.

| Action | Code |
|---|---|
| `ApplyOptions`, `MakeDir`, `MakeDownloadDir`, `Allocate` | 258-276, 349-362, 278-318 |
| `Launch` | the start of the browser inside `chromedp.Run`, 319 |
| `Command` | the actions that send a command and wait for its answer, `setHeaders` and `setCookies` (928-966) among them |
| `Navigate`, `PriorWait` | 308, 1218-1234 |
| `MeasureScrolls`, `ScrollWait`, `ScrollBy` | 968-1027 |
| `BeginWait`, `WaitMode`, `EndWait` | `Waiter`'s view of 1084-1216 |
| `Prepare`, `Resize` | 820-877 |
| `Capture`, `Send`, `Collect` | 724-770 and 879-903; 324-331 |
| `Poll`, `Sleep`, `ReadFile` | 404-441 |
| `LeaveInstance`, `CancelContext`, `RemoveDir` | the deferred calls of 276-318; the error of the removal is discarded (276, 353) |
| `BrowserExits`, `BrowserDies` | chromedp's process ends; with a sandbox between, `cmd/sandbox/cmd.go:74-112`, what is below it dies after it |
| `Respond` | `api/render.go:237-254`, `api/rendercsv.go:78-90` |

`Waiter` promises one verdict and the reason for it: a page watched through the
binding is ready only after the call was heard, the end of the context is
reported only of a context that has ended, and only polling can fail. Its
listeners are registered when the list of actions is made, long before the wait
begins, so `PageCallsBinding` may come at any time; the second waiter of a
resize starts with nothing heard.

Browser and chromedp are external: a command is answered by a browser that runs
and is not stuck, fails at will, or ends with the context; the loss of the
browser ends the session's context, and the end of that context kills the
browser; the cancellation functions return only when the process chromedp has
started is gone. That chromedp could not dial the browser in time is a deadline
(`"deadline"`), which the handler answers like one of its own. A download is written under another name and renamed when it is whole, as Chrome
does. What commands set in the page is left out: of a page it matters whether it
is loaded, and whether it was found ready since it was last loaded or laid out.
`crashed` is history.

A browser is `namespaced` or not. If it is, the process chromedp has started is
the bootstrap of the sandbox, which makes a root of its own (`root`) and removes it
when the browser ends. Killed, as at the end of every such session, it does not:
the root is `"kept"`, and the browser is `"dying"`, killed by the kernel because its
parent is gone, while the session goes on to remove its directory without waiting
for that. A directory that could not be removed is `"kept"` too. `EveryWayOutCleansUp`
says that the session lets go of everything on every way out, and leaves no directory
that nobody was to remove; it does not say that every removal succeeds, nor could it:
the root of a killed bootstrap always stays (section 5).

### ProcessStats

Per tracker: where its goroutine is, its local peak, whether its process runs
and whether its context is cancelled. A fold is one step because the mutex is
held throughout (`process.go:100-115`). `Sample` takes any reading of a set, 0
among them: `recursiveMemory` returns 0 for what it cannot read.

### RateLimiter

A request is `idle`, has `loaded` the count, is `admitted` and has not added
yet, is `serving`, `rejected` or `panicked`. `Decide` is the whole of
`canFitRequest` after its load; free memory is any value of a set at any time,
total memory is fixed, and 0 means unknown. `running` has the width of a uint32
(`Uint32` values), and the number of slots is truncated to it like at
`ratelimiter.go:114`. `LaunchBrowser` is the session's `trackProcess`;
`HandlerReturns` and `HandlerPanics` run the deferred cancellation of the
browser and the deferred decrement; `Respond` is the 429, or the 500 of the
recovery middleware. `mostDeciding` is history.

### Configuration

The table of flags of a `RequestConfig` with defaults and validators
(`BrowserFlags`, `config.go:583-751`), a command as its arguments and its sources
(environment, then three files), and what they come to (`Value`,
`RequestConfigFromCommand`). An override is a text: `FlagWords` cuts it as
`strings.Cut` and `strings.Split` do, `ParseOverrideFlags` and
`ReconstructFlags` are the functions of `flags.go`, and
`BuildConfigWithOverrides` parses the result with the same table. A text that
does not parse is the value `Garbage`; a word that is no flag is `Stray`. The
command line library is external. No actions: all of this happens at start-up,
in `Start` of `RenderRequests`.

### RenderRequests

`Start` builds the service's configuration or refuses the command line. A
request then goes `Arrive` (the query parsed into options in the order of
`render.go:60-232`, or refused), `TakeConfig` (`DeepClone` for a render, the
service's own for a CSV), `ApplyOption` for each option (`With...`,
`browser.go:129-250`), `Launch`, `Capture` and `Respond`. Two requests interleave
at every option.

What matters here is what is shared, so the structures that the code reaches
through pointers live at addresses: `headerMaps[a]` and `overrideArrays[a]`,
where `a` is `Service` or the request that made it. A copy of a configuration
copies the pointer; `ApplyAll` writes through it. The default configuration is
part of the structure and is copied with it.

`AskedConfig`, `AskedPrinter`, `AskedHeaders` and the like say what a query asks for
without the options and their order. `RenderedAsAsked` compares them with what the
browser and the printer get; of the headers of a CSV download it only says that
the language is sent, because the others are not (`HeadersOnEveryRequest`, section 5).

Timeouts are integers of width `2 * (MaxDuration + 1)` (`Wrapped`), and
`NanosPerSecond` is 3 in the run, so that seconds in the range of the queries do
overflow. The width of the browser's settings is not an issue: they are bounded
by the limits.

### SandboxFS

`cmd/sandbox` and `pkg/sandbox`: a bootstrap process that makes the directory,
starts the inner process in new namespaces, waits for it and removes the
directory; and the inner process, one action per call to the system
(`MountProc` ... `RemoveOldRoot`, `sandbox.go:47-297`), each of which may fail, in
the order of the code with its two ways to a root: `pivot_root`, or `chroot` after
the undo. The directory has two layers: `mounted`, and `copy`, what the bind of
the directory onto itself shows. `Killed` is the `SIGKILL` of the parent.

### Server

The process from its flags to its exit code, extending `SandboxFS` for the
sandboxes it starts.

| Action | Code |
|---|---|
| `StartProbe`, `ProbeTimesOut`, `ProbeEnds` | the validator of `browser.namespaced`, `config.go:538-549`, with `Supported`, `sandbox.go:22-34` |
| `FlagsParsed`, `Configure` | `cmd/server/cmd.go:67-98` |
| `Listen`, `Serve`, `ServeFails` | `server.go:22-70`; `Serve` is `"never"` if the shutdown came before it |
| `Shutdown`, `Drained`, `DrainTimesOut` | `server.go:71-75` |
| `Exit` | `grp.Wait`, `server.go:78`, and `main.go:25-31` |
| `Signal` | `main.go:22` |
| `Accept`, `Route`, `Limit`, `LaunchBrowser`, `Finish`, `Panic` | the chain of `mux.go:32-59` |

`Passes` is what gets through `RequireAuthToken` and `TrustedURL`; everything
else is answered without a change of state. A request may also come when `Serve` has
ended, on a connection that is open, until a shutdown has closed them all
(`Connected`). A failure before the service serves is no error to `main` if the
context is cancelled by then (`FailureCodes`). The gauge of requests in flight is
below the recovery, so `Panic` goes through its deferred decrement. The process
has one sandbox at a time in the model: sandboxes share nothing, and a second one
would repeat the first. `provenRoot` is history.

## 3. Runs

| Run | Bounds (distinct states) | Shows |
|---|---|---|
| `network_observer` | two tracked requests and an untracked one, queue of 2 (422,240) | counter and map never drift apart (`CountMatches`), no identifier is stranded, none missed, the counter drains when the page is quiet, and it implements `InflightCounter`; held requests are let go (`HeldRequestsMoveOn`), and what stays in the handler's maps belongs to requests that stopped half-way (`LeftoversAreHalfway`) |
| `readiness_safety` | one request, queue of 2, five configurations, one content change, durations up to 4 ticks | what polling has seen before it says ready (`ReadyAfterQuietPolls`, `ReadyAfterStillReads`), the network check is never fooled by the lock-free read (`NetworkGate`), no iteration starts past the deadline, and the whole implements `Waiter` |
| `readiness_liveness` | queue of 1, two configurations, durations up to 2 | the wait ends by timeout, context, signal, or rest |
| `rate_limiter` | two requests, one tracker, five configurations, total memory known or not, 5 values of a uint32 (204,404) | slots are neither leaked nor doubled, overshoot is bounded, a fold moves the average towards its peak; trackers end with their requests, and a minimum limit prevents a lock-out |
| `browser_session` | every kind of job, namespaced or not, pages of up to three viewports (85,598) | wherever the session fails: the directory outlives the browser that runs, every way out cleans up (`EveryWayOutCleansUp`), the bytes are of a page found ready or of a whole file, the status tells the cause; the end of the request ends every session, the loss of the browser every render |
| `render_requests` | two requests, 13 command lines (10 of them refused), 15 queries (5,099) | nothing of a request leaks through the shared configuration (`ServiceConfigUntouched`), each gets what it asked for (`RenderedAsAsked`) within its limits (`WithinLimits`), every configuration is usable, and an override is what a restart with its flags would give (`OverrideAsRestart`) |
| `server` | two requests of three kinds, one override, two bind lists (329,412) | a command runs only inside its new root (`Confined`); exit code 0 abandons nobody (`CleanExit`); a signal always ends the process (`SignalEnds`), and a serving process ends no other way (`ReturnsAfterShutdown`); namespaced means probed; the gauge survives panics |
| `readiness_dom`, `readiness_cycles`, `rate_limiter_max_limit`, `rate_limiter_zero_minimum`, `render_requests_headers` | as above, `rate_limiter_max_limit` with three requests | five disagreements of the code with its documentation, see section 5 |

Why the bounds are enough to be of use. Two requests with a queue of two
events bring every overlap of one request's redirect or repeated completion with
another's callback. Two cycles and a horizon one past the longest duration let
each give-up pass before, during and after the others. One content change is all
`StableMeansUnchanged` can see. Two requests that decide at the same time
bring an overshoot of one, the theorems have any number of them, and
the smallest integers are chosen so that the count of slots does wrap; one
tracker, used again by the next request, folds into what the last one left. Three
viewports bring a first, a middle and a last scroll, and any more repeat the
middle one. The command lines of `render_requests` set a flag twice, in two
sources, in an override and in none; its queries exceed each limit in each
direction; two requests are all it takes for one to see the other's changes. Two
requests in `server` let one hold the sandbox while the other panics, and one
override makes the probe run twice. What is proved (section 4) does not depend on
the bounds.

Deadlock is checked in every passing run but two: in `render_requests` a command line
that is refused leaves a program that never serves, and in `server` the process
exits. `Finished` of `Readiness` and of `BrowserSession` says that a waiter or a
session that has returned does nothing more.

Fairness. The Go scheduler runs every goroutine that can run: the listeners, each
goroutine that continues a held request, the action, the trackers (weak fairness
each). Timers fire, so time passes (`Tick`), the probe and the drain time out
(`ProbeTimesOut`, `DrainTimesOut`). Of the page nothing is assumed, nor that a
script returns once it hangs: that is why `WaitEnds` exempts a page that hangs,
and `CancelEnds` does not. In `BrowserSession` the session takes its own steps,
and a browser whose context is over is killed; that a page gets ready, that a
stuck browser recovers or that anything fails is assumed of nobody.
`LostBrowserEnds` leaves out the wait for a download, which does not look at the
browser: there only the request's context ends the session. In `RateLimiter` a
request that was begun is handled to its end, as a render ends by its timeouts or
its context; new requests need not come. A select with two ready channels picks
either at random, so a tracker whose context is done does not sample for ever. In
`Server` nothing is assumed of the handlers, the sandbox or the signals: a handler
that never returns is what the grace period is for.

## 4. Proofs

For any sets of requests, trackers, samples, any configurations that satisfy the
assumptions, and any bounds:

- `NetworkObserverProofs`: `CountAlwaysMatches`, `NetTypeCorrect` and
  `ObserverImplementsCounter`. The invariant `NetInv` adds to the type that the
  request of a pending increment is in the map and that of a pending decrement
  is not; without it, the step that updates the counter could not be told from
  one that counts twice. The bound on the counter follows from the set it
  equals.
- `NetworkObserverProofs`, for the stream: `NoneEverMissed` and `NoneEverStranded`.
  Both rest on the order of the stream (`StreamOrder`): a completion is only of a
  request the page has closed, and a closed request is never announced again, so
  behind every announcement of a request that is closed by now there is a completion
  to come. Without it an identifier could be put into the map after its completion
  has gone by. `RestMeansZero` follows: with nothing open and nothing left to deliver
  the count is zero. It needs `KnownSent` besides, that stream and map speak only of
  requests the page has sent.
- `NetworkEventsProofs`: `EventsAreObserved`, by which the composition with the
  session's own handler has every theorem of the observer (`CountMatchesBeside`,
  `CounterBeside`); `LeftoversAlwaysHalfway` and `HeldNeverForgotten`, from
  `EventsInvariant`. What a map holds depends on what is still to be delivered: an
  entry made late, from an event the browser has overtaken, is sound because the
  event that removes it is further back. `AnswerOrder` and `ResponseOrder` say so of
  every event in the stream, for entries that are not made yet.
- `ReadinessProofs`: `WaiterTypeCorrect`, `AlwaysReadyAfterQuietPolls`,
  `AlwaysReadyAfterStillReads`, `NetworkGateHolds`, `NeverPollsPastDeadline`,
  `WaiterImplemented`. The invariant `LoopInv` says what the loop's variables
  stand for: the count of cycles never runs ahead of the quiet polls,
  the first-pass flag is raised exactly when no read of the DOM counts, and what
  let the loop reach the DOM check still holds there, since a wait that is over
  stays over. `ComposedObserver` carries the observer's theorems over; with
  them a count of zero means that no request is counted, and a request that is
  open and not counted has its announcement under way, which is `NetworkGate`.
  `TimersInv` says that the timer of an iteration has not run out later than the
  timeout: the clock does not pass a select that has the timeout due, and every
  iteration's interval is positive. `ModeInv` says that how the page is watched is
  settled once, by the probe; with it every return of the action is a verdict
  `Waiter` allows, and every other step but two a stutter of it.
  `CyclesWhereConsecutive` says where `config.go:457` is right although the run
  `readiness_cycles` refutes it in general: with one cycle, the default, or without
  the wait for the network. `RunInv` carries it: whoever looks at the DOM has counted
  at least one poll since any check found the page busy.
  `OverdueWindsDown` is a variant, `StepsLeft`: of a wait whose context has ended
  or whose timeout is over every step of its own lowers it and no step of anything else raises it, because the
  clock does not pass a select that has either due.
- `BrowserSessionProofs`: `SessionTypeCorrect`, `DirAlwaysOutlivesBrowser`,
  `CleansUpEveryWayOut`, `AlwaysSettledPages`, `AlwaysWholeFiles`,
  `AnswerAlwaysTellsCause`, all from `SessionInvariant`. Its part `StackInv` says
  that the deferred calls are always the first few of one list, and that there is
  a directory with the first of them, an instance with the fourth, no browser
  that runs with fewer than three, and a root that is used only below such a browser;
  `BytesInv` follows the page through capture and channel,
  `AnswerInv` the cause through the deferred calls, which may end the context
  themselves: after them, a context that has ended says nothing any more.
- `ConfigurationProofs` has the lemmas on command lines that the next module needs:
  `CommandUsable`, `OverrideUsable`, and `RestartedOverride`. An override is parsed
  behind one argument for each flag that was set anywhere, not behind the arguments
  that were given; that both come to the same rests on `LastWins` (of several
  arguments for a flag the last one counts) and `Reconstructed` (the arguments made
  from the flags stand for their values).
- `RenderRequestsProofs`: `ServiceConfigAlwaysUntouched`, `ConfigsAlwaysUsable`,
  `AlwaysWithinLimits` and `OverridesAreRestarts`, all from `RenderInvariant`: for any
  command lines, queries and patterns. Its part `ServiceOK` says that what the
  service serves with is what its command line comes to, and usable; `Own` that the
  pointers of a clone under way lead to the request's own map and array, that the
  array mirrors the service's pattern by pattern, and that each configuration in it
  is within the limits of the one it was copied from. With it a write through a
  pointer cannot reach the service, and a lookup in the clone takes the same override
  as a lookup in the original.
- `AlwaysRenderedAsAsked`, in the same module, needs more: `AskedInv` says how far a
  request has come. The options of a query come in eight sections of one option or
  none; before the k-th is applied, the request's default, each of its overrides, its
  headers, cookies and time zone are the service's with the settings of the first
  k - 1 sections (`ConfigBy`, `HeadersBy`, ...), and what is left to apply is the rest
  of the sections (`Rest`). An option that is applied has the same effect on every
  configuration (`AppliedToAll`), whatever was changed before it (`EffectOnChanged`);
  sections that are empty are passed over (`Settles`); and when the last is applied
  the settings are those asked for (`AllApplied`), also after the lookup of the url
  (`LookupChanged`).
- `ServerProofs`: `AlwaysConfined`, `AlwaysCleanExit`, `GaugeAlwaysMatches`,
  `NamespacedAlwaysSupported`, `AlwaysReturnsAfterShutdown`, from `ServerInvariant`,
  and `GaugeImplementsCounter`. `ConfinedAnywhere` is about `SandboxSpec`, any program
  that starts, kills and forgets sandboxes; `ServerRunsSandbox` says that the server
  is one, and `AlwaysConfined` follows. `SandboxInv` says at each place of the inner process what is
  mounted, which layer shows it and whose root it is, and that the last bind still
  to be made is the one of `tmp`; the server's part ties the stage of the process
  to its two goroutines, its probes and its requests, and the sandbox to whoever
  runs it: a clean exit needs that a sandbox only runs for a request that is still
  handled.
- `RateLimiterProofs`, for the statistics: `PeakAlwaysWithinMax`, `FoldAlwaysFits`,
  `FoldAlwaysMovesTowardsPeak`. The invariant ties the maximum to the samples;
  the weighted mean lies between its two arguments.
- `RateLimiterProofs`, for the limiter: `LimiterTypeCorrect`, `RunningAlwaysMatches`,
  `OvershootAlwaysBounded`, `LimiterImplementsCounter`, `ComposedStats`. Overshoot
  rests on `PassingBounded`: the running requests, and those that are admitted or have
  loaded a count below the ceiling, are together no more than the ceiling plus
  those that were deciding at the same time, less one. An add leaves the sum as
  it is, and only a load that finds fewer than the ceiling running can raise it.
  `AloneNeverAboveMaxLimit` says how far a disagreement of section 5 goes: the maximum
  holds as long as requests are decided one at a time. Two more are what safety owes to liveness: `NoTrackerLeftBehind`, by the
  invariant `Owned`, a tracker that runs is that of a request being served or its
  context was cancelled; `TurnedAwayOnlyAboveMinimum`, a limiter that serves fewer
  than the minimum turns nobody away.

Assumptions: `RequestsAssumption` (finitely many identifiers, the untracked among
them), `ConfigsAssumption` (positive interval and at least one cycle, which the
validators of `config.go` ensure, and a horizon beyond every duration),
`StatsAssumption` (decay at least 1, validated; a sample times the decay fits an
int64, which nothing validates), `LimiterAssumption` (fewer requests at a time
than a uint32 holds), `NoneIsNoTracker` (the value for no browser is no tracker), `SessionAssumption` (which jobs there are),
`RequestAssumption`, `InputAssumption` and `MapAssumption` (the addresses are distinct;
a command line has arguments and overrides that are finite lists of words; queries
have the parameters the code reads, as numbers where it parses numbers; and the value
that stands for Go's nil map is no map of headers), `KindsAssumption` (which events the
handler is told of), `SandboxAssumption` (the last bind mount of a
command is `tmp`, which `cmd/sandbox/cmd.go:127` appends to what is asked for),
`ServerAssumption` (finitely many requests at a time).

Only model-checked: liveness, eleven properties (`DrainsWhenQuiet`,
`HeldRequestsMoveOn`, `WaitEnds`, `CancelEnds`, `BindingNotLost`, `RestIsNoticed`,
`SomeoneGetsThrough`, `TrackersFollowRequests`, `SessionEnds`, `LostBrowserEnds`,
`SignalEnds`). They need fairness, and with it ENABLED, which is out of the prover's
reach. What safety contributes to six of them is proved: `RestMeansZero` and
`NoneEverStranded` to `DrainsWhenQuiet`, `HeldNeverForgotten` to `HeldRequestsMoveOn`,
`OverdueWindsDown` to `CancelEnds` and `WaitEnds`, `NoTrackerLeftBehind` to
`TrackersFollowRequests`, `TurnedAwayOnlyAboveMinimum` to `SomeoneGetsThrough`. The disagreements of section 5 are counterexamples; what bounds them is proved
where it can be said. Every safety property and every action property that a
passing run checks is a theorem.

## 5. Where code and documentation disagree

- `docs/sources/troubleshooting.md:205`: the browser waits for the layout to
  stabilise, "meaning no more data changes". The code hashes
  `document.body.toString()`, a constant (`browser.go:1052`); the branch for a
  hash that changed is never taken. (`StableMeansUnchanged`)
- `config.go:457`: readiness checks "must pass consecutively". A check that finds
  the network busy leaves the count as it is (`browser.go:1149-1156`).
  (`CyclesAreConsecutive`)
- `config.go:960`: "we won't exceed" the maximum limit. Two requests may load
  the count before either adds (`ratelimiter.go:91`, `:66`).
  (`NeverAboveMaxLimit`)
- `config.go:970`: "Set to 0 to disable the minimum" of memory per browser. The
  limiter then divides by zero (`ratelimiter.go:110`); the recovery middleware
  answers 500. (`DecidingNeverPanics`)
- `config.go:410`: "Headers are set on every request the browser makes" (also
  `config.go:572`, `docs/sources/flags.md:62`, `docs/sources/troubleshooting.md:171`).
  `RenderCSV` sends the language of the query alone (`browser.go:374-388`).
  (`HeadersOnEveryRequest`)

Seen while modelling, and stated by no run:

- `adrs/0005-sandbox.md:24`: "processes are killed after use, and the data is
  gone". The bootstrap of a sandbox removes its root in a deferred call
  (`cmd/sandbox/cmd.go:79`), and is killed with `SIGKILL` when the render is over
  (`browser.go:281-285`), so the root stays; it is writable, and what the browser
  has written into it outside its bind mounts stays with it. Errors of the removal
  of the session's own directory are discarded (`browser.go:276`, `:353`). The model
  has both (`"kept"`), and `EveryWayOutCleansUp` allows for them.
- A signal cancels the context of every request at once, because the server's
  base context is the process's (`server.go:58`): the five seconds of the
  shutdown are for handlers to notice, not to finish.
- A `Serve` that fails on its own leaves the process waiting for a signal, because
  the shutdown waits for the parent's context and not the group's
  (`server.go:72`). The doc comment of `ListenAndServe` says as much, which is what
  `ReturnsAfterShutdown` states.
- The probe of `browser.namespaced` runs once more for every override, since the
  reconstructed command line has the flag (`config.go:538`, `:901`); a probe that
  is killed leaves its root behind, as a render does.
- Recovery is above the log and the metrics (`mux.go:55-58`): a panic is answered
  with 500, and neither sees it.
- An override whose pattern contains an equals sign is cut at that sign, and loses
  its first flag (`config.go:865`). `FlagWords` models it.
- `config.go:432` says of a minimum width above the maximum that "MaxWidth is used
  instead"; the program refuses to start (`config.go:765`).
- An override is parsed with the command's own flag objects
  (`config.go:901`; read on at `829-836`): a flag outside the table that is named in an override
  would change what the service reads of it afterwards. The model's overrides set
  flags of the table only.
- A redirect's announcement overwrites the span of the hop before it, which is
  never ended (`browser.go:546-558`).

## 6. Not modelled, and the plan

Left out of the modelled parts: the attributes of spans, logs, histograms and
the gauges of the limiter; `lastRequest` of the waiter, which is written and
never read; the hash function, taken injective; the no-op limiter; what the
browser's commands set in the page; `printBackground`, `pageRanges` and the inches
of a paper; timeouts written as durations and a scale that is not a number, which
`ParseFloat` lets through; in the sandbox the read-only flag, capabilities and
symbolic links, whose branch cannot be reached because the link is resolved with
`os.Stat` first (`sandbox.go:165-231`).

The health check and `print-config` run once and keep no state. The browser's
command line is a function of its configuration, without a choice in it. The
metrics registry and the exporter's delivery have no property of the service.

What is left for the proofs:

1. The safety half of the other liveness properties: for a session, for a lost browser
   and for a signal, a measure of the steps left, as `StepsLeft` is for the wait. What
   fairness makes of it stays with TLC.
2. That the session of `BrowserSession`, with its waits, uses `Waiter` only as
   `Waiter` allows.
