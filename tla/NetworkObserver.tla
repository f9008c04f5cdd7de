--------------------------- MODULE NetworkObserver ---------------------------
(***************************************************************************)
(* readinessNetworkObserver of pkg/service/browser.go: the count of the    *)
(* page's network requests in flight, kept from the browser's event stream *)
(* by the listener waitForReady registers, and read without the lock by    *)
(* the loop that waits for the page.                                       *)
(*                                                                         *)
(* The page and the event stream (Chrome, the DevTools protocol) are       *)
(* external.  chromedp runs a target's listeners in one goroutine, one     *)
(* event at a time, so there is one callback at a time; its steps          *)
(* interleave with the reader, which takes no lock.                        *)
(***************************************************************************)
EXTENDS Integers, Sequences, FiniteSets

CONSTANTS Requests,    \* the request identifiers of the page
          Untracked,   \* those of an EventSource, a WebSocket or a non-HTTP URL
          OtherKinds,  \* the stream's events that the observer passes over
          MaxQueue     \* bound on the undelivered events of the stream

ASSUME RequestsAssumption == /\ IsFiniteSet(Requests)
                             /\ Untracked \subseteq Requests
                             /\ OtherKinds \cap {"sent", "finished", "failed"} = {}
                             /\ MaxQueue \in Nat

VARIABLES network,           \* what the page has done with each request
          events,            \* events emitted by the browser, not yet delivered
          early,             \* requests sent before the listener was registered
          requestIDs,        \* the observer's map of identifiers
          inflightRequests,  \* the observer's atomic counter
          callback           \* the callback under way: its next step, its request

pageVars == <<network, early>>
observerVars == <<requestIDs, inflightRequests, callback>>
netVars == <<network, events, early, requestIDs, inflightRequests, callback>>

Event == [kind : {"sent", "finished", "failed"} \union OtherKinds, id : Requests]
Idle == [step |-> "idle"]
Callback == {Idle} \union [step : {"increment", "decrement"}, id : Requests]

NetTypeOK ==
  /\ network \in [Requests -> {"unsent", "open", "closed"}]
  /\ events \in Seq(Event)
  /\ early \in SUBSET Requests
  /\ requestIDs \in SUBSET Requests
  /\ inflightRequests \in 0..Cardinality(Requests)
  /\ callback \in Callback

Tracked == Requests \ Untracked   \* shouldTrackReadinessNetworkRequest

\* A waiter may be registered when the page is already loading: its observer
\* learns nothing of the requests that are open by then.
NetInit ==
  /\ early \in SUBSET Requests
  /\ network = [r \in Requests |-> IF r \in early THEN "open" ELSE "unsent"]
  /\ events = <<>>
  /\ requestIDs = {}
  /\ inflightRequests = 0
  /\ callback = Idle

-----------------------------------------------------------------------------
(* The page: a request is sent, redirected any number of times under the   *)
(* same identifier, and finishes or fails; a completion may be reported    *)
(* more than once, and other events of the request come in between.        *)

Emit(kind, r) ==
  /\ Len(events) < MaxQueue
  /\ events' = Append(events, [kind |-> kind, id |-> r])

SendRequest(r) ==
  /\ network[r] = "unsent"
  /\ network' = [network EXCEPT ![r] = "open"]
  /\ Emit("sent", r)
  /\ UNCHANGED <<early, observerVars>>

Redirect(r) ==
  /\ network[r] = "open"
  /\ Emit("sent", r)
  /\ UNCHANGED <<pageVars, observerVars>>

CompleteRequest(r) ==
  /\ network[r] = "open"
  /\ network' = [network EXCEPT ![r] = "closed"]
  /\ Emit("finished", r) \/ Emit("failed", r)
  /\ UNCHANGED <<early, observerVars>>

CompleteAgain(r) ==
  /\ network[r] = "closed"
  /\ Emit("finished", r)
  /\ UNCHANGED <<pageVars, observerVars>>

Tell(r) ==
  /\ network[r] = "open"
  /\ \E kind \in OtherKinds : Emit(kind, r)
  /\ UNCHANGED <<pageVars, observerVars>>

PageNetwork(r) ==
  SendRequest(r) \/ Redirect(r) \/ CompleteRequest(r) \/ CompleteAgain(r) \/ Tell(r)

-----------------------------------------------------------------------------
(* The listener.  Each callback touches the map under the mutex and the    *)
(* atomic counter in a step of its own.  A definition whose name ends in   *)
(* Fault is the one that follows it with a mistake in it; nothing uses it. *)

CompletesFault(kind) == kind = "finished"          \* failed loads forgotten
Completes(kind) == kind \in {"finished", "failed"}

FirstSeenRedirectFault(r) == r \in Tracked         \* a redirect counts again
FirstSeenInvertedFault(r) == r \in Untracked       \* early return inverted
FirstSeen(r) == r \in Tracked /\ r \notin requestIDs

Known(r) == r \in requestIDs

Delivers(r) ==
  /\ callback = Idle
  /\ events # <<>>
  /\ Head(events).id = r
  /\ events' = Tail(events)

OnRequestWillBeSent(r) ==
  /\ Delivers(r) /\ Head(events).kind = "sent"
  /\ IF FirstSeen(r)
     THEN /\ requestIDs' = requestIDs \union {r}
          /\ callback' = [step |-> "increment", id |-> r]
     ELSE UNCHANGED <<requestIDs, callback>>
  /\ UNCHANGED <<pageVars, inflightRequests>>

OnRequestCompleted(r) ==
  /\ Delivers(r) /\ Head(events).kind # "sent"
  /\ IF Completes(Head(events).kind) /\ Known(r)
     THEN /\ requestIDs' = requestIDs \ {r}
          /\ callback' = [step |-> "decrement", id |-> r]
     ELSE UNCHANGED <<requestIDs, callback>>
  /\ UNCHANGED <<pageVars, inflightRequests>>

Increment ==
  /\ callback.step = "increment"
  /\ inflightRequests' = inflightRequests + 1
  /\ callback' = Idle
  /\ UNCHANGED <<pageVars, events, requestIDs>>

Decrement ==
  /\ callback.step = "decrement"
  /\ inflightRequests' = inflightRequests - 1
  /\ callback' = Idle
  /\ UNCHANGED <<pageVars, events, requestIDs>>

Listener ==
  \/ \E r \in Requests : OnRequestWillBeSent(r) \/ OnRequestCompleted(r)
  \/ Increment
  \/ Decrement

NetNext == Listener \/ \E r \in Requests : PageNetwork(r)

NetSpec == NetInit /\ [][NetNext]_netVars

\* The Go runtime runs the listener goroutine whenever it can run; the page
\* owes nothing.
NetFairSpec == NetSpec /\ WF_netVars(Listener)

-----------------------------------------------------------------------------
(* Properties                                                              *)

Queued(kind, r) == \E i \in DOMAIN events : events[i] = [kind |-> kind, id |-> r]
Doing(step, r) == callback = [step |-> step, id |-> r]

\* The requests the counter accounts for: those of the map, less one whose
\* increment is still to come, plus one whose decrement is still to come.
Counted == {r \in Requests : \/ r \in requestIDs /\ ~Doing("increment", r)
                             \/ Doing("decrement", r)}

\* The counter and the map never drift apart, whatever order of redirects,
\* repeated completions and completions of unknown requests the stream
\* brings (browser.go:1273-1301, two structures updated in separate steps).
CountMatches == inflightRequests = Cardinality(Counted)

\* No identifier is stranded: a request that the page has completed and the
\* map still holds has its completion under way.  A stranded one would keep
\* the waiter polling until its timeout.
NoStrandedRequest ==
  \A r \in requestIDs : network[r] = "closed" => Queued("finished", r) \/ Queued("failed", r)

\* No request goes unseen: one the page has in flight and that began after
\* the registration is counted, or its announcement is still under way.
NoMissedRequest ==
  \A r \in Tracked \ early :
    network[r] = "open" => r \in Counted \/ Queued("sent", r) \/ Doing("increment", r)

\* If from some moment on the page has no request in flight, the counter
\* settles at zero and the waiter can go on.
DrainsWhenQuiet ==
  <>[](\A r \in Requests : network[r] # "open") => <>[](inflightRequests = 0)

\* The observer implements the counter of InflightCounter: the map update of
\* a callback is a stutter, its counter update is the Begin or the End.
Counter == INSTANCE InflightCounter
             WITH outstanding <- Counted, count <- inflightRequests
ImplementsCounter == Counter!Spec
=============================================================================
