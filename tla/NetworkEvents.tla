---------------------------- MODULE NetworkEvents ----------------------------
(***************************************************************************)
(* handleNetworkEvents of pkg/service/browser.go beside the readiness      *)
(* observer: two listeners on one event stream.  Render enables the fetch  *)
(* domain, so the browser holds every request back until it is told to     *)
(* continue, and tells it from a goroutine per held request; the listener  *)
(* also keeps a map of tracing spans and a map of MIME types.              *)
(*                                                                         *)
(* handleNetworkEvents is registered first, before the browser starts, and *)
(* chromedp calls both listeners for an event before it turns to the next: *)
(* what it does with its maps, which nobody else touches, is joined here   *)
(* to the observer's first step.  The goroutines run on their own.         *)
(***************************************************************************)
EXTENDS NetworkObserver

ASSUME KindsAssumption == OtherKinds = {"paused", "response"}

VARIABLES fetched,      \* how far the browser has let each request go
          continuing,   \* the requests a goroutine is about to continue
          requests,     \* the map of spans: started and not ended
          requestMimes  \* the map of MIME types

handlerVars == <<continuing, requests, requestMimes>>
eventsVars == <<netVars, fetched, handlerVars>>

\* The listener heard everything the browser did before the wait began.
EventsInit ==
  /\ NetInit
  /\ fetched \in [Requests -> {"new", "held", "released", "answered"}]
  /\ \A r \in Requests : fetched[r] # "new" <=> r \in early
  /\ continuing = {r \in early : fetched[r] = "held"}
  /\ requests = {r \in early : fetched[r] # "answered"}
  /\ requestMimes = early \ requests

-----------------------------------------------------------------------------
(* The browser: a request is announced, held, continued, and then answered *)
(* or redirected, which announces and holds it again.  It may fail at any  *)
(* point, but finishes only once it is answered.                           *)

Moves(r, from, to) == fetched[r] = from /\ fetched' = [fetched EXCEPT ![r] = to]

Tells(kind, r) == Tell(r) /\ Emit(kind, r)

Browser(r) ==
  /\ \/ SendRequest(r) /\ UNCHANGED fetched
     \/ Tells("paused", r) /\ Moves(r, "new", "held")
     \/ Redirect(r) /\ Moves(r, "released", "new")
     \/ Tells("response", r) /\ Moves(r, "released", "answered")
     \/ CompleteRequest(r) /\ Emit("finished", r) /\ Moves(r, "answered", "answered")
     \/ CompleteRequest(r) /\ Emit("failed", r) /\ Moves(r, fetched[r], "failed")
     \/ CompleteAgain(r) /\ UNCHANGED fetched
  /\ UNCHANGED handlerVars

-----------------------------------------------------------------------------
(* The two listeners, on one event.                                        *)

\* Every held request gets a goroutine, whatever else is known of it.  A
\* definition whose name ends in Fault is the one that follows it with a
\* mistake in it; nothing uses it.
ContinuesFault(r) == r \notin requests      \* passes over what is traced
Continues(r) == TRUE

OnPaused(r) ==
  /\ OnRequestCompleted(r) /\ Head(events).kind = "paused"
  /\ continuing' = IF Continues(r) THEN continuing \union {r} ELSE continuing
  /\ UNCHANGED <<fetched, requests, requestMimes>>

OnWillBeSent(r) ==
  /\ OnRequestWillBeSent(r)
  /\ requests' = requests \union {r}
  /\ UNCHANGED <<fetched, continuing, requestMimes>>

AfterFault(r) == requests                   \* the span is left in the map
After(r) == requests \ {r}

OnResponse(r) ==
  /\ OnRequestCompleted(r) /\ Head(events).kind = "response"
  /\ requests' = After(r)
  /\ requestMimes' = requestMimes \union {r}
  /\ UNCHANGED <<fetched, continuing>>

OnLoadingFinished(r) ==
  /\ OnRequestCompleted(r) /\ Head(events).kind = "finished"
  /\ requestMimes' = requestMimes \ {r}
  /\ UNCHANGED <<fetched, continuing, requests>>

OnLoadingFailed(r) ==
  /\ OnRequestCompleted(r) /\ Head(events).kind = "failed"
  /\ UNCHANGED <<fetched, handlerVars>>

Listeners ==
  \/ \E r \in Requests : \/ OnPaused(r) \/ OnWillBeSent(r) \/ OnResponse(r)
                         \/ OnLoadingFinished(r) \/ OnLoadingFailed(r)
  \/ (Increment \/ Decrement) /\ UNCHANGED <<fetched, handlerVars>>

\* A goroutine's ContinueRequest.  Its error is only logged: the browser goes
\* on holding the request, or has already given it up.
ContinueRequest(r) ==
  /\ r \in continuing
  /\ continuing' = continuing \ {r}
  /\ \/ Moves(r, "held", "released")
     \/ Moves(r, "held", "refused")
     \/ Moves(r, "failed", "failed")
  /\ UNCHANGED <<netVars, requests, requestMimes>>

EventsNext ==
  Listeners \/ \E r \in Requests : Browser(r) \/ ContinueRequest(r)

EventsSpec == EventsInit /\ [][EventsNext]_eventsVars

\* The runtime runs the listeners' goroutine and each of the others.
EventsFairSpec == /\ EventsSpec
                  /\ WF_eventsVars(Listeners)
                  /\ \A r \in Requests : WF_eventsVars(ContinueRequest(r))

-----------------------------------------------------------------------------
(* Properties                                                              *)

\* A request that the browser holds is let go: some goroutine tells it to
\* continue, or gets an error for it, whatever else the stream carries
\* (browser.go:519-543).  One that stayed held would keep the page from
\* loading until the wait times out.
HeldRequestsMoveOn ==
  \A r \in Requests : fetched[r] = "held" ~> fetched[r] # "held"

\* What is left in the two maps is telling: a span belongs to a request whose
\* response has not been delivered, and a MIME type to a response whose last
\* byte has not been reported (browser.go:556-599).  Only a request that fails
\* half-way leaves its entry for the rest of the session.
LeftoversAreHalfway ==
  \A r \in Requests :
    /\ r \in requests /\ fetched[r] = "answered" => Queued("response", r)
    /\ r \in requestMimes =>
         \/ fetched[r] = "failed"
         \/ fetched[r] = "answered" /\ (network[r] = "closed" => Queued("finished", r))
=============================================================================
