------------------------ MODULE NetworkEventsProofs ------------------------
(***************************************************************************)
(* For any set of requests and any length of the stream, with the network  *)
(* events' listener beside the observer: the listener and its goroutines   *)
(* do not change what the observer promises, what stays in the listener's  *)
(* maps belongs to requests that are half-way, and no held request is      *)
(* forgotten.                                                              *)
(*                                                                         *)
(* What a map holds depends on what is still to be delivered: an entry     *)
(* made late, from an event the browser has overtaken, is sound because    *)
(* the event that removes it is further back.  AnswerOrder and             *)
(* ResponseOrder say so, for an entry that is not even made yet.           *)
(***************************************************************************)
EXTENDS NetworkEvents, NetworkObserverProofs

EventsTyping ==
  /\ fetched \in [Requests -> {"new", "held", "released", "answered", "refused", "failed"}]
  /\ continuing \in SUBSET Requests
  /\ requests \in SUBSET Requests
  /\ requestMimes \in SUBSET Requests

\* Until it is announced a request has gone nowhere.
Fresh == \A r \in Requests : network[r] = "unsent" => fetched[r] = "new"

\* Behind an announcement of a request that is answered by now comes the
\* answer, and behind the answer of one that is closed by now its end.
AnswerOrder ==
  \A i \in 1..Len(events) :
    events[i].kind = "sent" /\ fetched[events[i].id] = "answered" =>
      \E j \in (i + 1)..Len(events) : events[j] = [kind |-> "response", id |-> events[i].id]

ResponseOrder ==
  \A i \in 1..Len(events) :
    events[i].kind = "response" =>
      \/ fetched[events[i].id] = "failed"
      \/ /\ fetched[events[i].id] = "answered"
         /\ network[events[i].id] = "closed" =>
              \E j \in (i + 1)..Len(events) : events[j] = [kind |-> "finished", id |-> events[i].id]

\* A request the browser holds is on its way to a goroutine, or has one.
HeldHandled ==
  \A r \in Requests : fetched[r] = "held" => r \in continuing \/ Queued("paused", r)

EventsInv ==
  EventsTyping /\ Fresh /\ AnswerOrder /\ ResponseOrder /\ HeldHandled /\ LeftoversAreHalfway

-----------------------------------------------------------------------------
(* The listener and its goroutines only add to the observer's system.      *)

LEMMA EventsNetStep == [EventsNext]_eventsVars => [NetNext]_netVars
<1> SUFFICES ASSUME [EventsNext]_eventsVars PROVE [NetNext]_netVars
  OBVIOUS
<1>1. ASSUME NEW r \in Requests, Browser(r) PROVE PageNetwork(r)
  BY <1>1 DEF Browser, Tells, PageNetwork
<1>2. ASSUME NEW r \in Requests, ContinueRequest(r) PROVE UNCHANGED netVars
  BY <1>2 DEF ContinueRequest
<1>3. Listeners => Listener
  BY DEF Listeners, Listener, OnPaused, OnWillBeSent, OnResponse, OnLoadingFinished, OnLoadingFailed
<1>4. UNCHANGED eventsVars => UNCHANGED netVars
  BY DEF eventsVars
<1> QED
  BY <1>1, <1>2, <1>3, <1>4 DEF EventsNext, NetNext

\* Beside the second listener the observer does what it does alone.
THEOREM EventsAreObserved == EventsSpec => NetSpec
<1>1. EventsInit => NetInit
  BY DEF EventsInit
<1> QED
  BY <1>1, EventsNetStep, PTL DEF EventsSpec, NetSpec

-----------------------------------------------------------------------------
(* What a step does to the stream and to the requests.                     *)

Report(r, e) ==
  \/ /\ e.kind = "sent" /\ fetched' = [fetched EXCEPT ![r] = "new"]
     /\ fetched[r] \in {"new", "released"}
     /\ network' = [network EXCEPT ![r] = "open"]
  \/ /\ e.kind = "paused" /\ fetched' = [fetched EXCEPT ![r] = "held"]
     /\ fetched[r] = "new" /\ network[r] = "open" /\ network' = network
  \/ /\ e.kind = "response" /\ fetched' = [fetched EXCEPT ![r] = "answered"]
     /\ fetched[r] = "released" /\ network[r] = "open" /\ network' = network
  \/ /\ e.kind = "finished" /\ fetched' = fetched
     /\ network' = [network EXCEPT ![r] = "closed"]
  \/ /\ e.kind = "failed" /\ fetched' = [fetched EXCEPT ![r] = "failed"]
     /\ network' = [network EXCEPT ![r] = "closed"]

\* A step of the browser appends one event, and has moved the request as far
\* as the event says.
LEMMA BrowserReports ==
  ASSUME Typing, EventsTyping, Fresh, NEW r \in Requests, Browser(r)
  PROVE  /\ UNCHANGED <<continuing, requests, requestMimes>>
         /\ \E e \in Event : e.id = r /\ events' = Append(events, e) /\ Report(r, e)
<1>0. UNCHANGED <<continuing, requests, requestMimes>>
  BY DEF Browser, handlerVars
<1>1. CASE SendRequest(r) /\ UNCHANGED fetched
  <2> DEFINE e == [kind |-> "sent", id |-> r]
  <2>1. fetched[r] = "new" /\ fetched' = [fetched EXCEPT ![r] = "new"]
    BY <1>1 DEF SendRequest, Fresh, EventsTyping
  <2>2. Report(r, e) /\ e.id = r /\ e \in Event
    BY <1>1, <2>1 DEF SendRequest, Report, Event
  <2> QED
    BY <1>0, <1>1, <2>2 DEF SendRequest, Emit
<1>2. CASE Tells("paused", r) /\ Moves(r, "new", "held")
  <2> DEFINE e == [kind |-> "paused", id |-> r]
  <2>1. Report(r, e) /\ e.id = r /\ e \in Event
    BY <1>2, KindsAssumption DEF Tells, Tell, Moves, Report, Event, pageVars
  <2> QED
    BY <1>0, <1>2, <2>1 DEF Tells, Emit
<1>3. CASE Redirect(r) /\ Moves(r, "released", "new")
  <2> DEFINE e == [kind |-> "sent", id |-> r]
  <2>1. network' = [network EXCEPT ![r] = "open"]
    BY <1>3 DEF Redirect, pageVars, Typing
  <2>2. Report(r, e) /\ e.id = r /\ e \in Event
    BY <1>3, <2>1 DEF Moves, Report, Event
  <2> QED
    BY <1>0, <1>3, <2>2 DEF Redirect, Emit
<1>4. CASE Tells("response", r) /\ Moves(r, "released", "answered")
  <2> DEFINE e == [kind |-> "response", id |-> r]
  <2>1. Report(r, e) /\ e.id = r /\ e \in Event
    BY <1>4, KindsAssumption DEF Tells, Tell, Moves, Report, Event, pageVars
  <2> QED
    BY <1>0, <1>4, <2>1 DEF Tells, Emit
<1>5. CASE CompleteRequest(r) /\ Emit("finished", r) /\ Moves(r, "answered", "answered")
  <2> DEFINE e == [kind |-> "finished", id |-> r]
  <2>1. fetched' = fetched
    BY <1>5 DEF Moves, EventsTyping
  <2>2. Report(r, e) /\ e.id = r /\ e \in Event
    BY <1>5, <2>1 DEF CompleteRequest, Report, Event
  <2> QED
    BY <1>0, <1>5, <2>2 DEF Emit
<1>6. CASE CompleteRequest(r) /\ Emit("failed", r) /\ Moves(r, fetched[r], "failed")
  <2> DEFINE e == [kind |-> "failed", id |-> r]
  <2>1. Report(r, e) /\ e.id = r /\ e \in Event
    BY <1>6 DEF CompleteRequest, Moves, Report, Event
  <2> QED
    BY <1>0, <1>6, <2>1 DEF Emit
<1>7. CASE CompleteAgain(r) /\ UNCHANGED fetched
  <2> DEFINE e == [kind |-> "finished", id |-> r]
  <2>1. network' = [network EXCEPT ![r] = "closed"]
    BY <1>7 DEF CompleteAgain, pageVars, Typing
  <2>2. Report(r, e) /\ e.id = r /\ e \in Event
    BY <1>7, <2>1 DEF Report, Event
  <2> QED
    BY <1>0, <1>7, <2>2 DEF CompleteAgain, Emit
<1> QED
  BY <1>1, <1>2, <1>3, <1>4, <1>5, <1>6, <1>7 DEF Browser

-----------------------------------------------------------------------------
(* The invariant.                                                          *)

LEMMA EventsInitInv == EventsInit => EventsInv
<1> SUFFICES ASSUME EventsInit PROVE EventsInv
  OBVIOUS
<1>1. Len(events) = 0 /\ 1..Len(events) = {} /\ early \in SUBSET Requests
  BY DEF EventsInit, NetInit
<1>2. EventsTyping /\ Fresh /\ HeldHandled
  BY <1>1 DEF EventsInit, NetInit, EventsTyping, Fresh, HeldHandled
<1>3. AnswerOrder /\ ResponseOrder
  BY <1>1 DEF AnswerOrder, ResponseOrder
<1>4. LeftoversAreHalfway
  BY <1>1 DEF EventsInit, NetInit, LeftoversAreHalfway
<1> QED
  BY <1>2, <1>3, <1>4 DEF EventsInv

LEMMA BrowserInv ==
  ASSUME Typing, EventsInv, NEW p \in Requests, Browser(p)
  PROVE  EventsInv'
<1>1. UNCHANGED <<continuing, requests, requestMimes>>
  BY BrowserReports DEF EventsInv
<1>2. PICK e \in Event : e.id = p /\ events' = Append(events, e) /\ Report(p, e)
  BY BrowserReports DEF EventsInv
<1>3. /\ Len(events) \in Nat
      /\ Len(events') = Len(events) + 1
      /\ \A i \in 1..Len(events) : events'[i] = events[i] /\ events[i] \in Event
      /\ events'[Len(events) + 1] = e
      /\ DOMAIN events = 1..Len(events) /\ DOMAIN events' = 1..Len(events')
  <2>1. events \in Seq(Event) /\ events' \in Seq(Event)
    BY <1>2 DEF Typing
  <2> QED
    BY <1>2, <2>1, Appended
<1>4. \A r \in Requests : r # p => network'[r] = network[r] /\ fetched'[r] = fetched[r]
  BY <1>2 DEF Typing, EventsInv, EventsTyping, Report
<1>5. /\ e = [kind |-> e.kind, id |-> p]
      /\ \/ e.kind = "sent" /\ fetched'[p] = "new" /\ fetched[p] \in {"new", "released"} /\ network'[p] = "open"
         \/ e.kind = "paused" /\ fetched'[p] = "held" /\ fetched[p] = "new" /\ network'[p] = "open"
         \/ e.kind = "response" /\ fetched'[p] = "answered" /\ fetched[p] = "released" /\ network'[p] = "open"
         \/ e.kind = "finished" /\ fetched'[p] = fetched[p] /\ network'[p] = "closed"
         \/ e.kind = "failed" /\ fetched'[p] = "failed" /\ network'[p] = "closed"
  BY <1>2 DEF Typing, EventsInv, EventsTyping, Report, Event
<1>6. EventsTyping'
  BY <1>1, <1>2 DEF EventsInv, EventsTyping, Report
<1>7. Fresh'
  BY <1>4, <1>5 DEF EventsInv, Fresh
<1>8. \A kind, r : Queued(kind, r) => Queued(kind, r)'
  BY <1>3 DEF Queued
<1>9. Queued(e.kind, p)'
  BY <1>3, <1>5 DEF Queued
<1>10. AnswerOrder'
  <2> SUFFICES ASSUME NEW i \in 1..Len(events'),
                      events'[i].kind = "sent", fetched'[events'[i].id] = "answered"
               PROVE  \E j \in (i + 1)..Len(events') :
                        events'[j] = [kind |-> "response", id |-> events'[i].id]
    BY DEF AnswerOrder
  <2>1. i \in 1..Len(events)
    BY <1>2, <1>3, <1>5
  <2>2. CASE fetched[events[i].id] = "answered"
    <3>1. PICK j \in (i + 1)..Len(events) : events[j] = [kind |-> "response", id |-> events[i].id]
      BY <1>3, <2>1, <2>2 DEF EventsInv, AnswerOrder
    <3> QED
      BY <1>3, <2>1, <3>1
  <2>3. CASE fetched[events[i].id] # "answered"
    <3>1. events[i].id \in Requests
      BY <1>3, <2>1 DEF Event
    <3>2. events[i].id = p /\ e.kind = "response"
      BY <1>3, <1>4, <1>5, <2>1, <2>3, <3>1
    <3> QED
      BY <1>3, <1>5, <2>1, <3>2
  <2> QED
    BY <2>2, <2>3
<1>11. ResponseOrder'
  <2> SUFFICES ASSUME NEW i \in 1..Len(events'),
                      events'[i].kind = "response", fetched'[events'[i].id] # "failed"
               PROVE  /\ fetched'[events'[i].id] = "answered"
                      /\ network'[events'[i].id] = "closed" =>
                           \E j \in (i + 1)..Len(events') :
                             events'[j] = [kind |-> "finished", id |-> events'[i].id]
    BY DEF ResponseOrder
  <2>1. CASE i = Len(events) + 1
    BY <1>2, <1>3, <1>5, <2>1
  <2>2. CASE i \in 1..Len(events)
    <3>0. events'[i] = events[i] /\ events[i].id \in Requests
      BY <1>3, <2>2 DEF Event
    <3>1. fetched[events[i].id] \in {"answered", "failed"}
      BY <2>2, <3>0 DEF EventsInv, ResponseOrder
    <3>2. CASE events[i].id # p
      <4>1. /\ fetched[events[i].id] = "answered"
            /\ network[events[i].id] = "closed" =>
                  \E j \in (i + 1)..Len(events) :
                    events[j] = [kind |-> "finished", id |-> events[i].id]
        BY <1>4, <2>2, <3>0, <3>2 DEF EventsInv, ResponseOrder
      <4> QED
        BY <1>3, <1>4, <2>2, <3>0, <3>2, <4>1
    <3>3. CASE events[i].id = p
      <4>1. e.kind = "finished" /\ fetched'[p] = "answered"
        BY <1>5, <3>0, <3>1, <3>3
      <4> QED
        BY <1>3, <1>5, <2>2, <3>0, <3>3, <4>1
    <3> QED
      BY <3>2, <3>3
  <2> QED
    BY <1>3, <2>1, <2>2
<1>12. HeldHandled'
  <2> SUFFICES ASSUME NEW r \in Requests, fetched'[r] = "held"
               PROVE  r \in continuing' \/ Queued("paused", r)'
    BY DEF HeldHandled
  <2>1. fetched[r] = "held" \/ (r = p /\ e.kind = "paused")
    BY <1>4, <1>5
  <2> QED
    BY <1>1, <1>8, <1>9, <2>1 DEF EventsInv, HeldHandled
<1>13. LeftoversAreHalfway'
  <2>1. ASSUME NEW r \in requests', fetched'[r] = "answered"
        PROVE  Queued("response", r)'
    <3>1. r \in Requests /\ r \in requests
      BY <1>1, <2>1 DEF EventsInv, EventsTyping
    <3>2. fetched[r] = "answered" \/ (r = p /\ e.kind = "response")
      BY <1>4, <1>5, <2>1, <3>1
    <3> QED
      BY <1>8, <1>9, <3>1, <3>2 DEF EventsInv, LeftoversAreHalfway
  <2>2. ASSUME NEW r \in requestMimes', fetched'[r] # "failed"
        PROVE  fetched'[r] = "answered" /\ (network'[r] = "closed" => Queued("finished", r)')
    <3>1. /\ r \in Requests
          /\ \/ fetched[r] = "failed"
             \/ fetched[r] = "answered" /\ (network[r] = "closed" => Queued("finished", r))
      BY <1>1, <2>2 DEF EventsInv, EventsTyping, LeftoversAreHalfway
    <3>2. CASE r # p
      BY <1>4, <1>8, <2>2, <3>1, <3>2
    <3>3. CASE r = p
      <4>1. e.kind = "finished" /\ fetched'[p] = "answered"
        BY <1>5, <2>2, <3>1, <3>3
      <4> QED
        BY <1>9, <3>3, <4>1
    <3> QED
      BY <3>2, <3>3
  <2> QED
    BY <2>1, <2>2 DEF LeftoversAreHalfway
<1> QED
  BY <1>6, <1>7, <1>10, <1>11, <1>12, <1>13 DEF EventsInv

\* Taking the first event off the stream keeps the order of the others, and
\* leaves behind it what the event calls for.
LEMMA EventTaken ==
  ASSUME Typing, EventsInv, NEW p \in Requests, Delivers(p), UNCHANGED <<network, fetched>>
  PROVE  /\ AnswerOrder' /\ ResponseOrder'
         /\ \A kind, r : Queued(kind, r) /\ Head(events) # [kind |-> kind, id |-> r] => Queued(kind, r)'
         /\ Head(events) = [kind |-> Head(events).kind, id |-> p]
         /\ Head(events).kind = "sent" /\ fetched[p] = "answered" => Queued("response", p)'
         /\ Head(events).kind = "response" =>
              \/ fetched[p] = "failed"
              \/ fetched[p] = "answered" /\ (network[p] = "closed" => Queued("finished", p)')
<1>1. events \in Seq(Event) /\ events # <<>> /\ events' = Tail(events) /\ Head(events).id = p
  BY DEF Typing, Delivers
<1>2. /\ Len(events) \in Nat \ {0} /\ Len(events') = Len(events) - 1
      /\ \A i \in 1..Len(events') : events'[i] = events[i + 1] /\ i + 1 \in 1..Len(events)
      /\ Head(events) = events[1] /\ Head(events) \in Event /\ 1 \in 1..Len(events)
      /\ DOMAIN events = 1..Len(events) /\ DOMAIN events' = 1..Len(events')
  BY <1>1, Delivered
<1>3. \A j \in 2..Len(events) : j - 1 \in 1..Len(events') /\ events'[j - 1] = events[j]
  BY <1>2
<1>4. ASSUME NEW i \in 1..Len(events'), NEW e,
             \E j \in (i + 2)..Len(events) : events[j] = e
      PROVE  \E j \in (i + 1)..Len(events') : events'[j] = e
  <2>1. PICK j \in (i + 2)..Len(events) : events[j] = e
    BY <1>4
  <2>2. j - 1 \in (i + 1)..Len(events') /\ events'[j - 1] = e
    BY <1>2, <1>3, <2>1
  <2> QED
    BY <2>2
<1>5. AnswerOrder'
  <2> SUFFICES ASSUME NEW i \in 1..Len(events'),
                      events'[i].kind = "sent", fetched[events'[i].id] = "answered"
               PROVE  \E j \in (i + 1)..Len(events') :
                        events'[j] = [kind |-> "response", id |-> events'[i].id]
    BY DEF AnswerOrder
  <2>1. \E j \in ((i + 1) + 1)..Len(events) : events[j] = [kind |-> "response", id |-> events[i + 1].id]
    BY <1>2 DEF EventsInv, AnswerOrder
  <2>2. (i + 1) + 1 = i + 2 /\ events'[i] = events[i + 1]
    BY <1>2
  <2> QED
    BY <1>4, <2>1, <2>2
<1>6. ResponseOrder'
  <2> SUFFICES ASSUME NEW i \in 1..Len(events'),
                      events'[i].kind = "response", fetched[events'[i].id] # "failed"
               PROVE  /\ fetched[events'[i].id] = "answered"
                      /\ network[events'[i].id] = "closed" =>
                           \E j \in (i + 1)..Len(events') :
                             events'[j] = [kind |-> "finished", id |-> events'[i].id]
    BY DEF ResponseOrder
  <2>1. /\ fetched[events[i + 1].id] = "answered"
        /\ network[events[i + 1].id] = "closed" =>
              \E j \in ((i + 1) + 1)..Len(events) : events[j] = [kind |-> "finished", id |-> events[i + 1].id]
    BY <1>2 DEF EventsInv, ResponseOrder
  <2>2. (i + 1) + 1 = i + 2 /\ events'[i] = events[i + 1]
    BY <1>2
  <2>3. ASSUME network[events'[i].id] = "closed"
        PROVE  \E j \in (i + 1)..Len(events') :
                 events'[j] = [kind |-> "finished", id |-> events'[i].id]
    <3> DEFINE e == [kind |-> "finished", id |-> events[i + 1].id]
    <3>1. \E j \in (i + 2)..Len(events) : events[j] = e
      BY <2>1, <2>2, <2>3
    <3>2. e = [kind |-> "finished", id |-> events'[i].id]
      BY <2>2
    <3> HIDE DEF e
    <3>3. \E j \in (i + 1)..Len(events') : events'[j] = e
      BY <1>4, <3>1
    <3> QED
      BY <3>2, <3>3
  <2> QED
    BY <2>1, <2>2, <2>3
<1>7. ASSUME NEW kind, NEW r, NEW j \in 2..Len(events), events[j] = [kind |-> kind, id |-> r]
      PROVE  Queued(kind, r)'
  BY <1>2, <1>3, <1>7 DEF Queued
<1>8. ASSUME NEW kind, NEW r, Queued(kind, r), Head(events) # [kind |-> kind, id |-> r]
      PROVE  Queued(kind, r)'
  <2>1. PICK i \in 1..Len(events) : events[i] = [kind |-> kind, id |-> r]
    BY <1>2, <1>8 DEF Queued
  <2>2. i \in 2..Len(events)
    BY <1>2, <1>8, <2>1
  <2> QED
    BY <1>7, <2>1, <2>2
<1>9. ASSUME Head(events).kind = "sent", fetched[p] = "answered"
      PROVE  Queued("response", p)'
  <2>1. PICK j \in 2..Len(events) : events[j] = [kind |-> "response", id |-> p]
    BY <1>1, <1>2, <1>9 DEF EventsInv, AnswerOrder
  <2> QED
    BY <1>7, <2>1
<1>10. ASSUME Head(events).kind = "response", fetched[p] # "failed"
       PROVE  fetched[p] = "answered" /\ (network[p] = "closed" => Queued("finished", p)')
  <2>1. /\ fetched[p] = "answered"
        /\ network[p] = "closed" => \E j \in 2..Len(events) : events[j] = [kind |-> "finished", id |-> p]
    BY <1>1, <1>2, <1>10 DEF EventsInv, ResponseOrder
  <2> QED
    BY <1>7, <2>1
<1>11. Head(events) = [kind |-> Head(events).kind, id |-> p]
  BY <1>1, <1>2 DEF Event
<1> QED
  BY <1>5, <1>6, <1>8, <1>9, <1>10, <1>11

LEMMA ListenersInv ==
  ASSUME Typing, EventsInv, Listeners
  PROVE  EventsInv'
<1>1. CASE (Increment \/ Decrement) /\ UNCHANGED <<fetched, handlerVars>>
  <2>1. UNCHANGED <<network, events, fetched, continuing, requests, requestMimes>>
    BY <1>1 DEF Increment, Decrement, pageVars, handlerVars
  <2> QED
    BY <2>1 DEF EventsInv, EventsTyping, Fresh, AnswerOrder, ResponseOrder, HeldHandled,
       LeftoversAreHalfway, Queued
<1>2. ASSUME NEW p \in Requests,
             OnPaused(p) \/ OnWillBeSent(p) \/ OnResponse(p) \/ OnLoadingFinished(p) \/ OnLoadingFailed(p)
      PROVE  EventsInv'
  <2>1. Delivers(p) /\ UNCHANGED <<network, fetched>>
    BY <1>2 DEF OnPaused, OnWillBeSent, OnResponse, OnLoadingFinished, OnLoadingFailed,
       OnRequestCompleted, OnRequestWillBeSent, pageVars
  <2>2. /\ AnswerOrder' /\ ResponseOrder'
        /\ \A kind, r : Queued(kind, r) /\ Head(events) # [kind |-> kind, id |-> r] => Queued(kind, r)'
        /\ Head(events) = [kind |-> Head(events).kind, id |-> p]
        /\ Head(events).kind = "sent" /\ fetched[p] = "answered" => Queued("response", p)'
        /\ Head(events).kind = "response" =>
             \/ fetched[p] = "failed"
             \/ fetched[p] = "answered" /\ (network[p] = "closed" => Queued("finished", p)')
    BY <2>1, EventTaken
  <2>3. \A kind, r : Queued(kind, r) /\ ~(r = p /\ kind = Head(events).kind) => Queued(kind, r)'
    <3>1. \A kind, r : Head(events) = [kind |-> kind, id |-> r] => r = p /\ kind = Head(events).kind
      <4> SUFFICES ASSUME NEW kind, NEW r, Head(events) = [kind |-> kind, id |-> r]
                   PROVE  r = p /\ kind = Head(events).kind
        OBVIOUS
      <4>1. Head(events).id = r /\ Head(events).id = p
        BY <2>1 DEF Delivers
      <4> QED
        BY <4>1
    <3> QED
      BY <2>2, <3>1
  <2>4. /\ Head(events).kind = "paused" => continuing' = continuing \union {p}
        /\ Head(events).kind # "paused" => continuing' = continuing
        /\ Head(events).kind = "sent" => requests' = requests \union {p}
        /\ Head(events).kind = "response" => requests' = requests \ {p}
        /\ Head(events).kind \notin {"sent", "response"} => requests' = requests
        /\ Head(events).kind = "response" => requestMimes' = requestMimes \union {p}
        /\ Head(events).kind = "finished" => requestMimes' = requestMimes \ {p}
        /\ Head(events).kind \notin {"response", "finished"} => requestMimes' = requestMimes
    <3>1. CASE OnPaused(p)
      BY <3>1 DEF OnPaused, Continues
    <3>2. CASE OnWillBeSent(p)
      BY <3>2 DEF OnWillBeSent, OnRequestWillBeSent
    <3>3. CASE OnResponse(p)
      BY <3>3 DEF OnResponse, After
    <3>4. CASE OnLoadingFinished(p)
      BY <3>4 DEF OnLoadingFinished
    <3>5. CASE OnLoadingFailed(p)
      BY <3>5 DEF OnLoadingFailed, handlerVars
    <3> QED
      BY <1>2, <3>1, <3>2, <3>3, <3>4, <3>5
  <2>5. EventsTyping'
    BY <2>1, <2>4 DEF EventsInv, EventsTyping
  <2>6. Fresh'
    BY <2>1 DEF EventsInv, Fresh
  <2>7. HeldHandled'
    <3> SUFFICES ASSUME NEW r \in Requests, fetched[r] = "held"
                 PROVE  r \in continuing' \/ Queued("paused", r)'
      BY <2>1 DEF HeldHandled
    <3>1. r \in continuing \/ Queued("paused", r)
      BY DEF EventsInv, HeldHandled
    <3> QED
      BY <2>3, <2>4, <3>1
  <2>8. LeftoversAreHalfway'
    <3>1. ASSUME NEW r \in Requests, r \in requests', fetched[r] = "answered"
          PROVE  Queued("response", r)'
      <4>1. CASE r = p /\ Head(events).kind = "sent"
        BY <2>2, <3>1, <4>1
      <4>2. CASE ~(r = p /\ Head(events).kind = "sent")
        <5>1. r \in requests /\ ~(r = p /\ Head(events).kind = "response")
          BY <2>4, <3>1, <4>2
        <5>2. Queued("response", r)
          BY <3>1, <5>1 DEF EventsInv, LeftoversAreHalfway
        <5> QED
          BY <2>3, <5>1, <5>2
      <4> QED
        BY <4>1, <4>2
    <3>2. ASSUME NEW r \in Requests, r \in requestMimes', fetched[r] # "failed"
          PROVE  fetched[r] = "answered" /\ (network[r] = "closed" => Queued("finished", r)')
      <4>1. CASE r = p /\ Head(events).kind = "response"
        BY <2>2, <3>2, <4>1
      <4>2. CASE ~(r = p /\ Head(events).kind = "response")
        <5>1. r \in requestMimes /\ ~(r = p /\ Head(events).kind = "finished")
          BY <2>4, <3>2, <4>2
        <5>2. fetched[r] = "answered" /\ (network[r] = "closed" => Queued("finished", r))
          BY <3>2, <5>1 DEF EventsInv, LeftoversAreHalfway
        <5> QED
          BY <2>3, <5>1, <5>2
      <4> QED
        BY <4>1, <4>2
    <3> QED
      BY <2>1, <3>1, <3>2 DEF LeftoversAreHalfway
  <2> QED
    BY <2>2, <2>5, <2>6, <2>7, <2>8 DEF EventsInv
<1> QED
  BY <1>1, <1>2 DEF Listeners

\* A goroutine lets a held request go, and touches no other.
LEMMA ContinueInv ==
  ASSUME Typing, EventsInv, NEW p \in Requests, ContinueRequest(p)
  PROVE  EventsInv'
<1>1. /\ UNCHANGED <<network, events, requests, requestMimes>>
      /\ continuing' = continuing \ {p}
      /\ \A r \in Requests : r # p => fetched'[r] = fetched[r]
      /\ fetched' \in [Requests -> {"new", "held", "released", "answered", "refused", "failed"}]
      /\ \/ fetched[p] = "held" /\ fetched'[p] \in {"released", "refused"}
         \/ fetched[p] = "failed" /\ fetched'[p] = "failed"
  BY DEF ContinueRequest, Moves, netVars, EventsInv, EventsTyping
<1>2. \A i \in 1..Len(events) : events[i].id \in Requests
  <2>1. \A i \in 1..Len(events) : events[i] \in Event
    BY DEF Typing
  <2> QED
    BY <2>1 DEF Event
<1>3. \A kind, r : Queued(kind, r)' = Queued(kind, r)
  BY <1>1 DEF Queued
<1>4. EventsTyping'
  BY <1>1 DEF EventsInv, EventsTyping
<1>5. Fresh'
  BY <1>1 DEF EventsInv, Fresh
<1>6. AnswerOrder'
  BY <1>1, <1>2 DEF EventsInv, AnswerOrder
<1>7. ResponseOrder'
  BY <1>1, <1>2 DEF EventsInv, ResponseOrder
<1>8. HeldHandled'
  BY <1>1, <1>3 DEF EventsInv, HeldHandled
<1>9. LeftoversAreHalfway'
  BY <1>1, <1>3 DEF EventsInv, LeftoversAreHalfway
<1> QED
  BY <1>4, <1>5, <1>6, <1>7, <1>8, <1>9 DEF EventsInv

\* The stream's order and what is left in the maps are inductive together.
THEOREM EventsInvariant == EventsSpec => []EventsInv
<1>1. Typing /\ EventsInv /\ [EventsNext]_eventsVars => EventsInv'
  <2> SUFFICES ASSUME Typing, EventsInv, [EventsNext]_eventsVars PROVE EventsInv'
    OBVIOUS
  <2>1. CASE Listeners
    BY <2>1, ListenersInv
  <2>2. ASSUME NEW r \in Requests, Browser(r) PROVE EventsInv'
    BY <2>2, BrowserInv
  <2>3. ASSUME NEW r \in Requests, ContinueRequest(r) PROVE EventsInv'
    BY <2>3, ContinueInv
  <2>4. CASE UNCHANGED eventsVars
    BY <2>4 DEF eventsVars, netVars, handlerVars, EventsInv, EventsTyping, Fresh, AnswerOrder,
       ResponseOrder, HeldHandled, LeftoversAreHalfway, Queued
  <2> QED
    BY <2>1, <2>2, <2>3, <2>4 DEF EventsNext
<1>2. NetInv => Typing
  BY DEF NetInv
<1>3. EventsSpec => []NetInv
  BY EventsAreObserved, NetInvariant, PTL
<1> QED
  BY <1>1, <1>2, <1>3, EventsInitInv, PTL DEF EventsSpec

\* What stays in the listener's two maps belongs to requests that are half-way:
\* no order of the stream leaves a span or a MIME type behind for a request
\* that has come to its end (browser.go:556-599).
THEOREM LeftoversAlwaysHalfway == EventsSpec => []LeftoversAreHalfway
<1>1. EventsInv => LeftoversAreHalfway
  BY DEF EventsInv
<1> QED
  BY <1>1, EventsInvariant, PTL

\* A request the browser holds back is never forgotten: until it is let go its
\* event is under way, or a goroutine has it (browser.go:519-543).  That each
\* of them gets its turn is the fairness the runs assume.
THEOREM HeldNeverForgotten == EventsSpec => []HeldHandled
<1>1. EventsInv => HeldHandled
  BY DEF EventsInv
<1> QED
  BY <1>1, EventsInvariant, PTL

\* The count, what is missed and what is stranded, with the network events'
\* listener on the same stream (browser.go:519-599, 1273-1301).
THEOREM CountMatchesBeside ==
  EventsSpec => [](CountMatches /\ NoMissedRequest /\ NoStrandedRequest)
BY EventsAreObserved, CountAlwaysMatches, NoneEverMissed, NoneEverStranded, PTL

\* The observer implements the counter beside the other listener, too.
THEOREM CounterBeside == EventsSpec => ImplementsCounter
BY EventsAreObserved, ObserverImplementsCounter
=============================================================================
