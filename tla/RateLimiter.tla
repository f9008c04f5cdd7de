----------------------------- MODULE RateLimiter -----------------------------
(***************************************************************************)
(* processBasedLimiter of pkg/api/middleware/ratelimiter.go, composed with *)
(* the process statistics it reads and with the requests it lets through:  *)
(* each of them starts a browser that is tracked until the request ends.   *)
(*                                                                         *)
(* Requests are handled by goroutines of their own.  The limiter loads the *)
(* count, decides, and adds to the count in three separate steps, without  *)
(* a lock.  What the operating system says of memory is external: the      *)
(* total is fixed, the free memory may be anything at any time, and either *)
(* may be unknown, which is read as 0.                                     *)
(***************************************************************************)
EXTENDS ProcessStats

CONSTANTS Requests,      \* requests that may be handled at the same time
          TotalMemories, \* what TotalMemory may return, 0 if it is unknown
          FreeMemories,  \* what FreeMemory may return, 0 if it is unknown
          Uint32         \* the number of values of a uint32

ASSUME LimiterAssumption ==
  /\ IsFiniteSet(Requests)
  /\ Uint32 \in Nat /\ Cardinality(Requests) < Uint32
  /\ TotalMemories \subseteq Nat /\ FreeMemories \subseteq Nat
  /\ \A c \in LimiterConfigs : c.minLimit < Uint32 /\ c.maxLimit < Uint32

VARIABLES totalMemory,   \* the machine's total memory
          running,       \* the atomic count of admitted requests
          pc,            \* where each request's handler is
          seen,          \* the count its limiter loaded
          browser,       \* the tracker of its browser, if it has one
          mostDeciding   \* history: the most requests ever between load and add

limiterVars == <<totalMemory, running, pc, seen, browser, mostDeciding>>
vars == <<statsVars, limiterVars>>

None == "none"

ASSUME NoneIsNoTracker == None \notin Trackers

TypeOK ==
  /\ StatsTypeOK
  /\ totalMemory \in TotalMemories
  /\ running \in 0..Cardinality(Requests)
  /\ pc \in [Requests -> {"idle", "loaded", "admitted", "serving", "rejected", "panicked"}]
  /\ seen \in [Requests -> 0..Cardinality(Requests)]
  /\ browser \in [Requests -> Trackers \union {None}]
  /\ mostDeciding \in 0..Cardinality(Requests)

Init ==
  /\ StatsInit
  /\ totalMemory \in TotalMemories
  /\ running = 0
  /\ pc = [r \in Requests |-> "idle"]
  /\ seen = [r \in Requests |-> 0]
  /\ browser = [r \in Requests |-> None]
  /\ mostDeciding = 0

-----------------------------------------------------------------------------
Deciding == {r \in Requests : pc[r] \in {"loaded", "admitted"}}

Becomes(r, state) == pc' = [pc EXCEPT ![r] = state]

\* canFitRequest, up to the load of the count.
LoadRunning(r) ==
  /\ pc[r] = "idle"
  /\ Becomes(r, "loaded")
  /\ seen' = [seen EXCEPT ![r] = running]
  /\ mostDeciding' = Larger(mostDeciding, Cardinality(Deciding) + 1)
  /\ UNCHANGED <<statsVars, totalMemory, running, browser>>

CappedTotal == IF cfg.maxAvailable > 0 /\ totalMemory > cfg.maxAvailable
               THEN cfg.maxAvailable ELSE totalMemory

\* A definition whose name ends in Fault is the one that follows it with a
\* mistake in it; nothing uses it.
BelowMinimumFault(n) == FALSE                            \* no minimum
BelowMinimum(n) == n < cfg.minLimit
HitMaximumFault(n) == cfg.maxLimit > 0 /\ n > cfg.maxLimit   \* off by one
HitMaximum(n) == cfg.maxLimit > 0 /\ n >= cfg.maxLimit
Divides == CappedTotal # 0        \* the slots of the total memory are computed
TotalSlots == (CappedTotal \div cfg.minMemory) % Uint32
NoSlot(n) == Divides /\ n >= TotalSlots

\* PeakMemory is read without the tracker's lock: one of the values it holds.
MinRequired == Larger(cfg.minMemory, PeakMemory)
FreeSuffices(free) == free = 0 \/ (free >= cfg.headroom /\ free - cfg.headroom >= MinRequired)

\* A division by a minimum of zero panics, before the count is touched.
DivisionPanics(n) ==
  ~BelowMinimum(n) /\ ~HitMaximum(n) /\ Divides /\ cfg.minMemory = 0

Fits(n, free) ==
  \/ BelowMinimum(n)
  \/ ~HitMaximum(n) /\ ~NoSlot(n) /\ FreeSuffices(free)

Decide(r) ==
  /\ pc[r] = "loaded"
  /\ IF DivisionPanics(seen[r])
     THEN Becomes(r, "panicked")
     ELSE \E free \in FreeMemories :
            Becomes(r, IF Fits(seen[r], free) THEN "admitted" ELSE "rejected")
  /\ UNCHANGED <<statsVars, totalMemory, running, seen, browser, mostDeciding>>

Admit(r) ==
  /\ pc[r] = "admitted"
  /\ Becomes(r, "serving")
  /\ running' = (running + 1) % Uint32
  /\ UNCHANGED <<statsVars, totalMemory, seen, browser, mostDeciding>>

\* The handler starts its browser, unless it fails before; see
\* trackProcess.  A goroutine that still belongs to a request is not reused.
LaunchBrowser(r, t) ==
  /\ pc[r] = "serving"
  /\ browser[r] = None
  /\ \A s \in Requests : browser[s] # t
  /\ TrackProcess(t)
  /\ browser' = [browser EXCEPT ![r] = t]
  /\ UNCHANGED <<totalMemory, running, pc, seen, mostDeciding>>

\* Render's deferred cancel, then the limiter's deferred decrement: both run
\* whether the handler returns or panics.
CancelOwnBrowserFault(r) == UNCHANGED statsVars              \* no deferred cancel
CancelOwnBrowser(r) ==
  IF browser[r] = None
  THEN UNCHANGED statsVars
  ELSE CancelBrowser(browser[r])

Decremented == (running + (Uint32 - 1)) % Uint32

Leave(r, state) ==
  /\ pc[r] = "serving"
  /\ CancelOwnBrowser(r)
  /\ browser' = [browser EXCEPT ![r] = None]
  /\ running' = Decremented
  /\ Becomes(r, state)
  /\ UNCHANGED <<totalMemory, seen, mostDeciding>>

HandlerReturns(r) == Leave(r, "idle")
\* A decrement that is not deferred.
HandlerPanicsFault(r) == /\ pc[r] = "serving"
                         /\ CancelOwnBrowser(r)
                         /\ browser' = [browser EXCEPT ![r] = None]
                         /\ Becomes(r, "panicked")
                         /\ UNCHANGED <<totalMemory, running, seen, mostDeciding>>
HandlerPanics(r) == Leave(r, "panicked")

\* The 429 of a rejection; the 500 of the recovery middleware.
Respond(r) ==
  /\ pc[r] \in {"rejected", "panicked"}
  /\ Becomes(r, "idle")
  /\ UNCHANGED <<statsVars, totalMemory, running, seen, browser, mostDeciding>>

Handle(r) == Decide(r) \/ Admit(r) \/ HandlerReturns(r) \/ HandlerPanics(r) \/ Respond(r)

Next ==
  \/ \E r \in Requests : LoadRunning(r) \/ Handle(r) \/ \E t \in Trackers : LaunchBrowser(r, t)
  \/ \E t \in Trackers : (TrackerStep(t) \/ ProcessExits(t)) /\ UNCHANGED limiterVars

Spec == Init /\ [][Next]_vars

\* A request that was begun is handled to its end (a render ends, by its
\* timeouts or with its context); none need arrive.  The Go runtime runs every
\* goroutine, and a select whose two channels are ready picks either, so a
\* tracker that could stop again and again does stop.
FairSpec ==
  /\ Spec
  /\ \A r \in Requests : WF_vars(Handle(r))
  /\ \A t \in Trackers : WF_vars(Ends(t) /\ UNCHANGED limiterVars)

-----------------------------------------------------------------------------
(* Properties                                                              *)

Serving == {r \in Requests : pc[r] = "serving"}

\* The count is the number of requests being served: no panic, rejection or
\* cancellation leaks a slot or gives one back twice (ratelimiter.go:66-76).
RunningMatches == running = Cardinality(Serving)

\* The numbers at which the limiter stops admitting: the configured maximum and
\* the slots of the total memory; the minimum prevails over either.
Ceilings == {Larger(cfg.minLimit, n) :
               n \in (IF cfg.maxLimit > 0 THEN {cfg.maxLimit} ELSE {})
                     \union (IF Divides /\ cfg.minMemory > 0 THEN {TotalSlots} ELSE {})}

\* How far the check-then-add of the limiter can overshoot: by as many
\* requests as were ever between their load and their add at the same time,
\* less one (ratelimiter.go:91 loads, :66 adds).  Requests decided one at a
\* time never exceed a ceiling.
OvershootBounded ==
  \A c \in Ceilings :
    running <= IF mostDeciding = 0 THEN 0 ELSE c + mostDeciding - 1

\* The limiter never locks up: with a minimum limit, as long as requests keep
\* coming some of them are served, whatever the memory and the average.
SomeoneGetsThrough ==
  cfg.minLimit > 0 /\ []<>(\E r \in Requests : pc[r] = "loaded")
    => []<>(Serving # {})

\* No browser is tracked for ever once requests stop being served.
TrackersFollowRequests ==
  []<>(\A t \in Trackers : tracker[t] = "free") \/ []<>(Serving # {})

\* config.go:959-962: "MaxLimit is the maximum number of requests to permit.
\* Even if we have memory slots for more, we won't exceed this."
NeverAboveMaxLimit ==
  cfg.maxLimit > 0 /\ cfg.minLimit <= cfg.maxLimit => running <= cfg.maxLimit

\* config.go:968-971: MinMemoryPerBrowser, "Set to 0 to disable the minimum":
\* deciding on a request does not panic.
DecidingNeverPanics ==
  [][\A r \in Requests : pc[r] = "loaded" => pc'[r] # "panicked"]_vars
=============================================================================
