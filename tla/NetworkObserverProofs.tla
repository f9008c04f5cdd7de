------------------------ MODULE NetworkObserverProofs ------------------------
(***************************************************************************)
(* For any set of requests and any length of the stream: the counter and   *)
(* the map of the network observer never drift apart, its variables keep   *)
(* their types, it implements InflightCounter, and no request of the page  *)
(* goes unseen by it or is stranded in it.                                 *)
(*                                                                         *)
(* CountMatches is not inductive alone: that the increment of a callback   *)
(* raises it by one element needs the request to be in the map and not yet *)
(* counted, which CallbackOK says.                                         *)
(***************************************************************************)
EXTENDS NetworkObserver, FiniteSetTheorems, TLAPS

\* NetTypeOK with the counter an integer; the bound follows from CountMatches.
Typing ==
  /\ network \in [Requests -> {"unsent", "open", "closed"}]
  /\ events \in Seq(Event)
  /\ early \in SUBSET Requests
  /\ requestIDs \in SUBSET Requests
  /\ inflightRequests \in Int
  /\ callback \in Callback

\* Between its two steps a callback that adds has its request in the map, one
\* that removes has not.
CallbackOK == \A r \in Requests : /\ Doing("increment", r) => r \in requestIDs
                                  /\ Doing("decrement", r) => r \notin requestIDs

NetInv == Typing /\ CallbackOK /\ CountMatches

-----------------------------------------------------------------------------
(* What each step does to the requests the counter accounts for.           *)

\* The counted requests are finitely many, at most all of them.
LEMMA CountedFinite ==
  /\ IsFiniteSet(Counted)
  /\ Cardinality(Counted) \in 0..Cardinality(Requests)
<1>1. IsFiniteSet(Requests)
  BY RequestsAssumption
<1>2. Counted \in SUBSET Requests
  BY DEF Counted
<1>3. IsFiniteSet(Counted) /\ Cardinality(Counted) <= Cardinality(Requests)
  BY <1>1, <1>2, FS_Subset
<1>4. Cardinality(Counted) \in Nat /\ Cardinality(Requests) \in Nat
  BY <1>1, <1>3, FS_CardinalityType
<1> QED
  BY <1>3, <1>4

\* The map update of an announcement changes no count: the request is in the
\* map and its increment is to come.
LEMMA SentKeepsCounted ==
  ASSUME NetInv, NEW r \in Requests, OnRequestWillBeSent(r)
  PROVE  Counted' = Counted /\ inflightRequests' = inflightRequests
BY DEF NetInv, CallbackOK, OnRequestWillBeSent, Delivers, FirstSeen, Tracked, Counted, Doing, Idle

\* The map update of a completion changes no count: the request is out of the
\* map and its decrement is to come.
LEMMA CompletedKeepsCounted ==
  ASSUME NetInv, NEW r \in Requests, OnRequestCompleted(r)
  PROVE  Counted' = Counted /\ inflightRequests' = inflightRequests
BY DEF NetInv, CallbackOK, OnRequestCompleted, Delivers, Completes, Known, Counted, Doing, Idle

\* The increment counts one request more.
LEMMA IncrementCounts ==
  ASSUME NetInv, Increment
  PROVE  \E r \in Requests : /\ r \notin Counted
                             /\ Counted' = Counted \union {r}
                             /\ inflightRequests' = inflightRequests + 1
<1>1. PICK r \in Requests : callback = [step |-> "increment", id |-> r]
  BY DEF NetInv, Typing, Callback, Idle, Increment
<1>2. r \in requestIDs
  BY <1>1 DEF NetInv, CallbackOK, Doing
<1>3. r \notin Counted
  BY <1>1 DEF Counted, Doing
<1>4. Counted' = Counted \union {r}
  BY <1>1, <1>2 DEF Increment, Counted, Doing, Idle
<1> QED
  BY <1>3, <1>4 DEF Increment

\* The decrement counts one request less.
LEMMA DecrementCounts ==
  ASSUME NetInv, Decrement
  PROVE  \E r \in Requests : /\ r \in Counted
                             /\ Counted' = Counted \ {r}
                             /\ inflightRequests' = inflightRequests - 1
<1>1. PICK r \in Requests : callback = [step |-> "decrement", id |-> r]
  BY DEF NetInv, Typing, Callback, Idle, Decrement
<1>2. r \notin requestIDs
  BY <1>1 DEF NetInv, CallbackOK, Doing
<1>3. r \in Counted
  BY <1>1 DEF Counted, Doing
<1>4. Counted' = Counted \ {r}
  BY <1>1, <1>2 DEF Decrement, Counted, Doing, Idle
<1> QED
  BY <1>3, <1>4 DEF Decrement

\* The page only adds to the stream.
LEMMA PageKeepsCounted ==
  ASSUME Typing, NEW r \in Requests, PageNetwork(r)
  PROVE  /\ UNCHANGED <<early, observerVars>>
         /\ Counted' = Counted
         /\ network' \in [Requests -> {"unsent", "open", "closed"}]
         /\ events' \in Seq(Event)
<1>1. UNCHANGED <<early, observerVars>>
  BY DEF PageNetwork, SendRequest, Redirect, CompleteRequest, CompleteAgain, Tell, pageVars
<1>2. Counted' = Counted
  BY <1>1 DEF observerVars, Counted, Doing
<1>3. network' \in [Requests -> {"unsent", "open", "closed"}]
  BY DEF Typing, PageNetwork, SendRequest, Redirect, CompleteRequest, CompleteAgain, Tell, pageVars
<1>4. \E kind \in {"sent", "finished", "failed"} \union OtherKinds : Emit(kind, r)
  BY DEF PageNetwork, SendRequest, Redirect, CompleteRequest, CompleteAgain, Tell
<1>5. events' \in Seq(Event)
  BY <1>4 DEF Typing, Emit, Event
<1> QED
  BY <1>1, <1>2, <1>3, <1>5

-----------------------------------------------------------------------------
(* The inductive invariant.                                                *)

LEMMA NetInitInv == NetInit => NetInv
<1> SUFFICES ASSUME NetInit PROVE NetInv
  OBVIOUS
<1>1. Typing
  BY DEF NetInit, Typing, Callback
<1>2. CallbackOK
  BY DEF NetInit, CallbackOK, Doing, Idle
<1>3. Counted = {}
  BY DEF NetInit, Counted, Doing, Idle
<1>4. CountMatches
  BY <1>3, FS_EmptySet DEF NetInit, CountMatches
<1> QED
  BY <1>1, <1>2, <1>4 DEF NetInv

\* A callback keeps the types; it takes an event from the stream or not.
LEMMA ListenerTyping ==
  ASSUME NetInv, Listener
  PROVE  Typing'
<1>1. ASSUME NEW r \in Requests, OnRequestWillBeSent(r)
      PROVE  Typing'
  <2>1. events' \in Seq(Event)
    BY <1>1 DEF NetInv, Typing, OnRequestWillBeSent, Delivers
  <2>2. callback' \in Callback
    BY <1>1 DEF NetInv, Typing, OnRequestWillBeSent, Callback
  <2> QED
    BY <1>1, <2>1, <2>2 DEF NetInv, Typing, OnRequestWillBeSent, pageVars
<1>2. ASSUME NEW r \in Requests, OnRequestCompleted(r)
      PROVE  Typing'
  <2>1. events' \in Seq(Event)
    BY <1>2 DEF NetInv, Typing, OnRequestCompleted, Delivers
  <2>2. callback' \in Callback
    BY <1>2 DEF NetInv, Typing, OnRequestCompleted, Callback
  <2> QED
    BY <1>2, <2>1, <2>2 DEF NetInv, Typing, OnRequestCompleted, pageVars
<1>3. CASE Increment
  BY <1>3 DEF NetInv, Typing, Increment, Callback, pageVars
<1>4. CASE Decrement
  BY <1>4 DEF NetInv, Typing, Decrement, Callback, pageVars
<1> QED
  BY <1>1, <1>2, <1>3, <1>4 DEF Listener

LEMMA ListenerCallback ==
  ASSUME NetInv, Listener
  PROVE  CallbackOK'
<1>1. ASSUME NEW r \in Requests, OnRequestWillBeSent(r)
      PROVE  CallbackOK'
  BY <1>1 DEF NetInv, CallbackOK, OnRequestWillBeSent, Delivers, Doing, Idle
<1>2. ASSUME NEW r \in Requests, OnRequestCompleted(r)
      PROVE  CallbackOK'
  BY <1>2 DEF NetInv, CallbackOK, OnRequestCompleted, Delivers, Doing, Idle
<1>3. CASE Increment
  BY <1>3 DEF CallbackOK, Increment, Doing, Idle
<1>4. CASE Decrement
  BY <1>4 DEF CallbackOK, Decrement, Doing, Idle
<1> QED
  BY <1>1, <1>2, <1>3, <1>4 DEF Listener

LEMMA ListenerCount ==
  ASSUME NetInv, Listener
  PROVE  CountMatches'
<1>0. IsFiniteSet(Counted) /\ inflightRequests = Cardinality(Counted)
  BY CountedFinite DEF NetInv, CountMatches
<1>1. ASSUME NEW r \in Requests, OnRequestWillBeSent(r)
      PROVE  CountMatches'
  BY <1>0, <1>1, SentKeepsCounted DEF CountMatches
<1>2. ASSUME NEW r \in Requests, OnRequestCompleted(r)
      PROVE  CountMatches'
  BY <1>0, <1>2, CompletedKeepsCounted DEF CountMatches
<1>3. CASE Increment
  <2>1. PICK r \in Requests : /\ r \notin Counted
                              /\ Counted' = Counted \union {r}
                              /\ inflightRequests' = inflightRequests + 1
    BY <1>3, IncrementCounts
  <2>2. Cardinality(Counted \union {r}) = Cardinality(Counted) + 1
    BY <1>0, <2>1, FS_AddElement
  <2> QED
    BY <1>0, <2>1, <2>2 DEF CountMatches
<1>4. CASE Decrement
  <2>1. PICK r \in Requests : /\ r \in Counted
                              /\ Counted' = Counted \ {r}
                              /\ inflightRequests' = inflightRequests - 1
    BY <1>4, DecrementCounts
  <2>2. Cardinality(Counted \ {r}) = Cardinality(Counted) - 1
    BY <1>0, <2>1, FS_RemoveElement
  <2> QED
    BY <1>0, <2>1, <2>2 DEF CountMatches
<1> QED
  BY <1>1, <1>2, <1>3, <1>4 DEF Listener

LEMMA NetNextInv == NetInv /\ [NetNext]_netVars => NetInv'
<1> SUFFICES ASSUME NetInv, [NetNext]_netVars PROVE NetInv'
  OBVIOUS
<1>1. CASE Listener
  BY <1>1, ListenerTyping, ListenerCallback, ListenerCount DEF NetInv
<1>2. ASSUME NEW r \in Requests, PageNetwork(r)
      PROVE  NetInv'
  <2>1. /\ UNCHANGED <<early, observerVars>>
        /\ Counted' = Counted
        /\ network' \in [Requests -> {"unsent", "open", "closed"}]
        /\ events' \in Seq(Event)
    BY <1>2, PageKeepsCounted DEF NetInv
  <2>2. Typing'
    BY <2>1 DEF NetInv, Typing, observerVars
  <2>3. CallbackOK' /\ CountMatches'
    BY <2>1 DEF NetInv, CallbackOK, CountMatches, observerVars, Doing
  <2> QED
    BY <2>2, <2>3 DEF NetInv
<1>3. CASE UNCHANGED netVars
  BY <1>3 DEF netVars, NetInv, Typing, CallbackOK, CountMatches, Counted, Doing
<1> QED
  BY <1>1, <1>2, <1>3 DEF NetNext

\* The observer always satisfies its inductive invariant.
THEOREM NetInvariant == NetSpec => []NetInv
<1> QED
  BY NetInitInv, NetNextInv, PTL DEF NetSpec

\* The counter equals the number of requests the map and the callback under
\* way account for (browser.go:1273-1301).
THEOREM CountAlwaysMatches == NetSpec => []CountMatches
<1>1. NetInv => CountMatches
  BY DEF NetInv
<1> QED
  BY <1>1, NetInvariant, PTL

\* Type correctness; in particular the counter is never negative nor greater
\* than the number of requests, which the code leaves to the reader.
THEOREM NetTypeCorrect == NetSpec => []NetTypeOK
<1>1. NetInv => NetTypeOK
  BY CountedFinite DEF NetInv, Typing, CountMatches, NetTypeOK
<1> QED
  BY <1>1, NetInvariant, PTL

-----------------------------------------------------------------------------
(* Refinement: the counter's update is the abstract step.                  *)

LEMMA CounterInit == NetInit => Counter!Init
BY DEF NetInit, Counter!Init, Counted, Doing, Idle

LEMMA CounterStep == NetInv /\ [NetNext]_netVars => [Counter!Next]_Counter!vars
<1> SUFFICES ASSUME NetInv, [NetNext]_netVars PROVE [Counter!Next]_Counter!vars
  OBVIOUS
<1>1. ASSUME NEW r \in Requests, OnRequestWillBeSent(r)
      PROVE  UNCHANGED Counter!vars
  BY <1>1, SentKeepsCounted DEF Counter!vars
<1>2. ASSUME NEW r \in Requests, OnRequestCompleted(r)
      PROVE  UNCHANGED Counter!vars
  BY <1>2, CompletedKeepsCounted DEF Counter!vars
<1>3. CASE Increment
  BY <1>3, IncrementCounts DEF Counter!Next, Counter!Begin
<1>4. CASE Decrement
  BY <1>4, DecrementCounts DEF Counter!Next, Counter!End
<1>5. ASSUME NEW r \in Requests, PageNetwork(r)
      PROVE  UNCHANGED Counter!vars
  BY <1>5, PageKeepsCounted DEF NetInv, observerVars, Counter!vars
<1>6. CASE UNCHANGED netVars
  BY <1>6 DEF netVars, Counter!vars, Counted, Doing
<1> QED
  BY <1>1, <1>2, <1>3, <1>4, <1>5, <1>6 DEF NetNext, Listener

\* The observer, with its map and its counter updated in separate steps and
\* a reader that takes no lock, implements the counter of InflightCounter.
THEOREM ObserverImplementsCounter == NetSpec => ImplementsCounter
<1> QED
  BY NetInvariant, CounterInit, CounterStep, PTL DEF NetSpec, ImplementsCounter, Counter!Spec

-----------------------------------------------------------------------------
(***************************************************************************)
(* No request of the page goes unseen, and none is stranded.  Both rest on *)
(* the order of the stream, which StreamOrder records: the page reports a  *)
(* completion only of a request it has closed, and never announces a       *)
(* closed request again, so behind every announcement of a request that is *)
(* closed by now there is a completion to come.                            *)
(***************************************************************************)

Completion(e, r) == e.kind \in {"finished", "failed"} /\ e.id = r

Announced(r) == \E i \in 1..Len(events) : events[i] = [kind |-> "sent", id |-> r]

StreamOrder ==
  /\ \A i \in 1..Len(events) : events[i].kind \in {"finished", "failed"} => network[events[i].id] = "closed"
  /\ \A i \in 1..Len(events) :
       events[i].kind = "sent" /\ network[events[i].id] = "closed" =>
         \E j \in (i + 1)..Len(events) : Completion(events[j], events[i].id)
  /\ \A r \in Requests : Doing("decrement", r) => network[r] = "closed"

Seen ==
  \A r \in Tracked \ early :
    network[r] = "open" => r \in Counted \/ Announced(r) \/ Doing("increment", r)

Leaving ==
  \A r \in requestIDs :
    network[r] = "closed" => \E i \in 1..Len(events) : Completion(events[i], r)

StreamInv == StreamOrder /\ Seen /\ Leaving

-----------------------------------------------------------------------------
(* What a step does to the stream.                                         *)

\* A step of the page appends one event, of a request that the event leaves
\* open or closed as its kind says.
LEMMA PageAppends ==
  ASSUME Typing, NEW r \in Requests, PageNetwork(r)
  PROVE  \E e \in Event :
           /\ e.id = r
           /\ events' = Append(events, e)
           /\ e.kind = "sent" => network[r] # "closed" /\ network' = [network EXCEPT ![r] = "open"]
           /\ e.kind \in {"finished", "failed"} => network' = [network EXCEPT ![r] = "closed"]
           /\ e.kind \in OtherKinds => network[r] = "open" /\ network' = network
<1>1. CASE SendRequest(r)
  BY <1>1, RequestsAssumption DEF SendRequest, Emit, Event
<1>2. CASE Redirect(r)
  <2>1. network' = [network EXCEPT ![r] = "open"]
    BY <1>2 DEF Redirect, pageVars, Typing
  <2> QED
    BY <1>2, <2>1, RequestsAssumption DEF Redirect, Emit, Event
<1>3. CASE CompleteRequest(r)
  BY <1>3, RequestsAssumption DEF CompleteRequest, Emit, Event
<1>4. CASE CompleteAgain(r)
  <2>1. network' = [network EXCEPT ![r] = "closed"]
    BY <1>4 DEF CompleteAgain, pageVars, Typing
  <2> QED
    BY <1>4, <2>1, RequestsAssumption DEF CompleteAgain, Emit, Event
<1>5. CASE Tell(r)
  BY <1>5, RequestsAssumption DEF Tell, Emit, Event, pageVars
<1> QED
  BY <1>1, <1>2, <1>3, <1>4, <1>5 DEF PageNetwork

\* An appended event is the last; the others stay where they are.
LEMMA Appended ==
  ASSUME NEW s \in Seq(Event), NEW e \in Event
  PROVE  /\ Len(s) \in Nat
         /\ Len(Append(s, e)) = Len(s) + 1
         /\ \A i \in 1..Len(s) : Append(s, e)[i] = s[i]
         /\ Append(s, e)[Len(s) + 1] = e
OBVIOUS

\* A delivered event was the first; the others move up.
LEMMA Delivered ==
  ASSUME NEW s \in Seq(Event), s # <<>>
  PROVE  /\ Len(s) \in Nat \ {0}
         /\ Len(Tail(s)) = Len(s) - 1
         /\ \A i \in 1..(Len(s) - 1) : Tail(s)[i] = s[i + 1]
         /\ Head(s) = s[1] /\ Head(s) \in Event
OBVIOUS

-----------------------------------------------------------------------------
(* The invariant.                                                          *)

LEMMA StreamInitInv == NetInit => StreamInv
<1> SUFFICES ASSUME NetInit PROVE StreamInv
  OBVIOUS
<1>1. Len(events) = 0 /\ 1..Len(events) = {}
  BY DEF NetInit
<1>2. StreamOrder
  BY <1>1 DEF NetInit, StreamOrder, Doing, Idle
<1>3. Seen
  BY DEF NetInit, Seen, Tracked
<1>4. Leaving
  BY DEF NetInit, Leaving
<1> QED
  BY <1>2, <1>3, <1>4 DEF StreamInv

LEMMA PageStreamInv ==
  ASSUME NetInv, StreamInv, NEW p \in Requests, PageNetwork(p)
  PROVE  StreamInv'
<1>0. Typing
  BY DEF NetInv
<1>1. PICK e \in Event :
        /\ e.id = p
        /\ events' = Append(events, e)
        /\ e.kind = "sent" => network[p] # "closed" /\ network' = [network EXCEPT ![p] = "open"]
        /\ e.kind \in {"finished", "failed"} => network' = [network EXCEPT ![p] = "closed"]
        /\ e.kind \in OtherKinds => network[p] = "open" /\ network' = network
  BY <1>0, PageAppends
<1>2. UNCHANGED <<early, observerVars>> /\ Counted' = Counted
  BY <1>0, PageKeepsCounted
<1>3. /\ Len(events) \in Nat
      /\ Len(events') = Len(events) + 1
      /\ \A i \in 1..Len(events) : events'[i] = events[i] /\ events'[i] \in Event
      /\ events'[Len(events) + 1] = e
  BY <1>0, <1>1, Appended DEF Typing
<1>4. \A r \in Requests : r # p => network'[r] = network[r]
  BY <1>0, <1>1 DEF Typing, Event
<1>5. \A r \in Requests : network[r] = "closed" => network'[r] = "closed"
  BY <1>0, <1>1 DEF Typing, Event
<1>6. /\ e.kind = "sent" => network'[p] = "open"
      /\ e.kind \in {"finished", "failed"} => network'[p] = "closed"
      /\ e.kind \in OtherKinds => network[p] = "open" /\ network' = network
      /\ e.kind \in {"sent", "finished", "failed"} \union OtherKinds
  BY <1>0, <1>1 DEF Typing, Event
<1>7. StreamOrder'
  <2>1. ASSUME NEW i \in 1..Len(events'), events'[i].kind \in {"finished", "failed"}
        PROVE  network'[events'[i].id] = "closed"
    <3>1. CASE i \in 1..Len(events)
      BY <1>3, <1>5, <2>1, <3>1 DEF StreamInv, StreamOrder, Event
    <3>2. CASE i = Len(events) + 1
      BY <1>1, <1>3, <1>6, <2>1, <3>2
    <3> QED
      BY <1>3, <3>1, <3>2
  <2>2. ASSUME NEW i \in 1..Len(events'), events'[i].kind = "sent", network'[events'[i].id] = "closed"
        PROVE  \E j \in (i + 1)..Len(events') : Completion(events'[j], events'[i].id)
    <3>1. i \in 1..Len(events)
      BY <1>1, <1>3, <1>6, <2>2
    <3>2. CASE network[events[i].id] = "closed"
      <4>1. PICK j \in (i + 1)..Len(events) : Completion(events[j], events[i].id)
        BY <1>3, <2>2, <3>1, <3>2 DEF StreamInv, StreamOrder
      <4> QED
        BY <1>3, <3>1, <4>1 DEF Completion
    <3>3. CASE network[events[i].id] # "closed"
      <4>1. events[i].id = p /\ e.kind \in {"finished", "failed"}
        BY <1>3, <1>4, <1>6, <2>2, <3>1, <3>3 DEF Event
      <4>2. Completion(events'[Len(events) + 1], events'[i].id)
        BY <1>1, <1>3, <3>1, <4>1 DEF Completion
      <4> QED
        BY <1>3, <3>1, <4>2
    <3> QED
      BY <3>2, <3>3
  <2>3. \A r \in Requests : Doing("decrement", r)' => network'[r] = "closed"
    BY <1>2, <1>5 DEF StreamInv, StreamOrder, Doing, observerVars
  <2> QED
    BY <2>1, <2>2, <2>3 DEF StreamOrder
<1>8. Seen'
  <2> SUFFICES ASSUME NEW r \in Tracked \ early, network'[r] = "open"
               PROVE  r \in Counted' \/ Announced(r)' \/ Doing("increment", r)'
    BY <1>2 DEF Seen
  <2>1. CASE e.kind = "sent" /\ r = p
    <3>1. e = [kind |-> "sent", id |-> r]
      BY <1>1, <2>1 DEF Event
    <3> QED
      BY <1>3, <3>1 DEF Announced
  <2>2. CASE ~(e.kind = "sent" /\ r = p)
    <3>1. network[r] = "open"
      BY <1>4, <1>6, <2>2 DEF Tracked
    <3>2. r \in Counted \/ Announced(r) \/ Doing("increment", r)
      BY <3>1 DEF StreamInv, Seen
    <3>3. Announced(r) => Announced(r)'
      BY <1>3 DEF Announced
    <3> QED
      BY <1>2, <3>2, <3>3 DEF Doing, observerVars
  <2> QED
    BY <2>1, <2>2
<1>9. Leaving'
  <2> SUFFICES ASSUME NEW r \in requestIDs, network'[r] = "closed"
               PROVE  \E i \in 1..Len(events') : Completion(events'[i], r)
    BY <1>2 DEF Leaving, observerVars
  <2>0. r \in Requests
    BY <1>0 DEF Typing
  <2>1. CASE network[r] = "closed"
    BY <1>3, <2>1 DEF StreamInv, Leaving, Completion
  <2>2. CASE network[r] # "closed"
    <3>1. r = p /\ e.kind \in {"finished", "failed"}
      BY <1>4, <1>6, <2>0, <2>2
    <3> QED
      BY <1>1, <1>3, <3>1 DEF Completion
  <2> QED
    BY <2>1, <2>2
<1> QED
  BY <1>7, <1>8, <1>9 DEF StreamInv

\* Taking the first event off the stream keeps its order, and loses no event
\* of another request.
LEMMA DeliveredStream ==
  ASSUME NetInv, StreamInv, NEW p \in Requests, Delivers(p), UNCHANGED pageVars
  PROVE  /\ Head(events) = events[1] /\ events[1] \in Event /\ 1 \in 1..Len(events)
         /\ \A i \in 1..Len(events') : events'[i].kind \in {"finished", "failed"} => network'[events'[i].id] = "closed"
         /\ \A i \in 1..Len(events') :
              events'[i].kind = "sent" /\ network'[events'[i].id] = "closed" =>
                \E j \in (i + 1)..Len(events') : Completion(events'[j], events'[i].id)
         /\ \A i \in 2..Len(events) : i - 1 \in 1..Len(events') /\ events'[i - 1] = events[i]
<1>1. /\ events \in Seq(Event) /\ events # <<>> /\ events' = Tail(events)
      /\ network' = network
  BY DEF NetInv, Typing, Delivers, pageVars
<1>2. /\ Len(events) \in Nat \ {0} /\ Len(events') = Len(events) - 1
      /\ \A i \in 1..Len(events') : events'[i] = events[i + 1] /\ i + 1 \in 1..Len(events)
      /\ Head(events) = events[1] /\ Head(events) \in Event
  BY <1>1, Delivered
<1>3. \A i \in 1..Len(events') : events'[i].kind \in {"finished", "failed"} => network'[events'[i].id] = "closed"
  BY <1>1, <1>2 DEF StreamInv, StreamOrder
<1>4. ASSUME NEW i \in 1..Len(events'), events'[i].kind = "sent", network'[events'[i].id] = "closed"
      PROVE  \E j \in (i + 1)..Len(events') : Completion(events'[j], events'[i].id)
  <2>1. PICK j \in (i + 2)..Len(events) : Completion(events[j], events[i + 1].id)
    BY <1>1, <1>2, <1>4 DEF StreamInv, StreamOrder
  <2>2. j - 1 \in (i + 1)..Len(events') /\ events'[j - 1] = events[j]
    BY <1>2, <2>1
  <2> QED
    BY <1>2, <2>1, <2>2
<1>5. \A i \in 2..Len(events) : i - 1 \in 1..Len(events') /\ events'[i - 1] = events[i]
  BY <1>2
<1> QED
  BY <1>2, <1>3, <1>4, <1>5

\* An announcement: the request is counted already, or is about to be; if it is
\* closed by now, its completion is behind the announcement.
LEMMA SentStreamInv ==
  ASSUME NetInv, StreamInv, NEW p \in Requests, OnRequestWillBeSent(p)
  PROVE  StreamInv'
<1>1. /\ Delivers(p) /\ Head(events).kind = "sent" /\ Head(events).id = p
      /\ UNCHANGED <<pageVars, inflightRequests>> /\ callback = Idle
      /\ network' = network /\ early' = early
  BY DEF OnRequestWillBeSent, Delivers, pageVars
<1>2. /\ Head(events) = events[1] /\ events[1] \in Event /\ 1 \in 1..Len(events)
      /\ \A i \in 1..Len(events') : events'[i].kind \in {"finished", "failed"} => network'[events'[i].id] = "closed"
      /\ \A i \in 1..Len(events') :
           events'[i].kind = "sent" /\ network'[events'[i].id] = "closed" =>
             \E j \in (i + 1)..Len(events') : Completion(events'[j], events'[i].id)
      /\ \A i \in 2..Len(events) : i - 1 \in 1..Len(events') /\ events'[i - 1] = events[i]
  BY <1>1, DeliveredStream
<1>3. Counted' = Counted
  BY SentKeepsCounted
<1>4. \A r \in Requests : ~Doing("decrement", r)'
  BY <1>1 DEF OnRequestWillBeSent, Doing, Idle
<1>5. StreamOrder'
  BY <1>2, <1>4 DEF StreamOrder
<1>6. Seen'
  <2> SUFFICES ASSUME NEW r \in Tracked \ early, network[r] = "open"
               PROVE  r \in Counted \/ Announced(r)' \/ Doing("increment", r)'
    BY <1>1, <1>3 DEF Seen
  <2>0. ~Doing("increment", r) /\ ~Doing("increment", p)
    BY <1>1 DEF Doing, Idle
  <2>1. CASE r = p
    <3>1. CASE FirstSeen(p)
      BY <2>1, <3>1 DEF OnRequestWillBeSent, Doing
    <3>2. CASE ~FirstSeen(p)
      BY <2>0, <2>1, <3>2 DEF FirstSeen, Counted
    <3> QED
      BY <3>1, <3>2
  <2>2. CASE r # p
    <3>1. r \in Counted \/ Announced(r)
      BY <2>0 DEF StreamInv, Seen
    <3>2. ASSUME Announced(r) PROVE Announced(r)'
      <4>1. PICK i \in 1..Len(events) : events[i] = [kind |-> "sent", id |-> r]
        BY <3>2 DEF Announced
      <4>2. i # 1
        BY <1>1, <1>2, <2>2, <4>1
      <4>3. i \in 2..Len(events)
        BY <4>1, <4>2
      <4> QED
        BY <1>2, <4>1, <4>3 DEF Announced
    <3> QED
      BY <3>1, <3>2
  <2> QED
    BY <2>1, <2>2
<1>7. Leaving'
  <2> SUFFICES ASSUME NEW r \in requestIDs', network[r] = "closed"
               PROVE  \E i \in 1..Len(events') : Completion(events'[i], r)
    BY <1>1 DEF Leaving
  <2>1. \E i \in 2..Len(events) : Completion(events[i], r)
    <3>1. CASE r = p
      <4>1. PICK j \in 2..Len(events) : Completion(events[j], events[1].id)
        BY <1>1, <1>2, <3>1 DEF StreamInv, StreamOrder
      <4> QED
        BY <1>1, <1>2, <3>1, <4>1
    <3>2. CASE r # p
      <4>1. r \in requestIDs
        BY <3>2 DEF OnRequestWillBeSent
      <4>2. PICK i \in 1..Len(events) : Completion(events[i], r)
        BY <4>1 DEF StreamInv, Leaving
      <4>3. i # 1
        BY <1>1, <1>2, <4>2 DEF Completion
      <4> QED
        BY <4>2, <4>3
    <3> QED
      BY <3>1, <3>2
  <2> QED
    BY <1>2, <2>1
<1> QED
  BY <1>5, <1>6, <1>7 DEF StreamInv

\* A completion: the request is closed, so it need not be counted any longer,
\* and it leaves the map.
LEMMA CompletedStreamInv ==
  ASSUME NetInv, StreamInv, NEW p \in Requests, OnRequestCompleted(p)
  PROVE  StreamInv'
<1>1. /\ Delivers(p) /\ Head(events).kind # "sent" /\ Head(events).id = p
      /\ UNCHANGED <<pageVars, inflightRequests>> /\ callback = Idle
      /\ network' = network /\ early' = early
  BY DEF OnRequestCompleted, Delivers, pageVars
<1>2. /\ Head(events) = events[1] /\ events[1] \in Event /\ 1 \in 1..Len(events)
      /\ \A i \in 1..Len(events') : events'[i].kind \in {"finished", "failed"} => network'[events'[i].id] = "closed"
      /\ \A i \in 1..Len(events') :
           events'[i].kind = "sent" /\ network'[events'[i].id] = "closed" =>
             \E j \in (i + 1)..Len(events') : Completion(events'[j], events'[i].id)
      /\ \A i \in 2..Len(events) : i - 1 \in 1..Len(events') /\ events'[i - 1] = events[i]
  BY <1>1, DeliveredStream
<1>3. Counted' = Counted
  BY CompletedKeepsCounted
<1>4. Completes(Head(events).kind) => network[p] = "closed"
  BY <1>1, <1>2 DEF StreamInv, StreamOrder, Completes
<1>5. \A r \in Requests : Doing("decrement", r)' => network'[r] = "closed"
  BY <1>1, <1>4 DEF OnRequestCompleted, Doing, Idle
<1>6. StreamOrder'
  BY <1>2, <1>5 DEF StreamOrder
<1>7. Seen'
  <2> SUFFICES ASSUME NEW r \in Tracked \ early, network[r] = "open"
               PROVE  r \in Counted \/ Announced(r)'
    BY <1>1, <1>3 DEF Seen
  <2>1. r \in Counted \/ Announced(r)
    BY <1>1 DEF StreamInv, Seen, Doing, Idle
  <2>2. ASSUME Announced(r) PROVE Announced(r)'
    <3>1. PICK i \in 1..Len(events) : events[i] = [kind |-> "sent", id |-> r]
      BY <2>2 DEF Announced
    <3>2. i # 1
      BY <1>1, <1>2, <3>1
    <3>3. i \in 2..Len(events)
      BY <3>1, <3>2
    <3> QED
      BY <1>2, <3>1, <3>3 DEF Announced
  <2> QED
    BY <2>1, <2>2
<1>8. Leaving'
  <2> SUFFICES ASSUME NEW r \in requestIDs', network[r] = "closed"
               PROVE  \E i \in 1..Len(events') : Completion(events'[i], r)
    BY <1>1 DEF Leaving
  <2>1. r \in requestIDs /\ (Completes(Head(events).kind) => r # p)
    BY DEF OnRequestCompleted, Known
  <2>2. PICK i \in 1..Len(events) : Completion(events[i], r)
    BY <2>1 DEF StreamInv, Leaving
  <2>3. i \in 2..Len(events)
    BY <1>1, <1>2, <2>1, <2>2 DEF Completion, Completes
  <2> QED
    BY <1>2, <2>2, <2>3
<1> QED
  BY <1>6, <1>7, <1>8 DEF StreamInv

\* The counter's updates: the increment counts its request, and the decrement
\* drops one that is closed.
LEMMA CounterStreamInv ==
  ASSUME NetInv, StreamInv, Increment \/ Decrement
  PROVE  StreamInv'
<1>1. UNCHANGED <<network, early, events, requestIDs>> /\ callback' = Idle
  BY DEF Increment, Decrement, pageVars
<1>2. StreamOrder'
  BY <1>1 DEF StreamInv, StreamOrder, Doing, Idle
<1>3. Leaving'
  BY <1>1 DEF StreamInv, Leaving
<1>4. Seen'
  <2> SUFFICES ASSUME NEW r \in Tracked \ early, network[r] = "open"
               PROVE  r \in Counted' \/ Announced(r)
    BY <1>1 DEF Seen, Announced
  <2>0. r \in Requests
    BY DEF Tracked
  <2>1. r \in Counted \/ Announced(r) \/ Doing("increment", r)
    BY DEF StreamInv, Seen
  <2>2. ~Doing("decrement", r)
    BY <2>0 DEF StreamInv, StreamOrder
  <2>3. r \in Counted => r \in Counted'
    BY <1>1, <2>0, <2>2 DEF Counted, Doing, Idle
  <2>4. Doing("increment", r) => r \in Counted'
    BY <1>1, <2>0 DEF NetInv, CallbackOK, Counted, Doing, Idle
  <2> QED
    BY <2>1, <2>3, <2>4
<1> QED
  BY <1>2, <1>3, <1>4 DEF StreamInv

-----------------------------------------------------------------------------
\* What the stream and the observer say of each other is inductive.
THEOREM StreamInvariant == NetSpec => []StreamInv
<1>1. NetInv /\ StreamInv /\ [NetNext]_netVars => StreamInv'
  <2> SUFFICES ASSUME NetInv, StreamInv, [NetNext]_netVars PROVE StreamInv'
    OBVIOUS
  <2>1. ASSUME NEW r \in Requests, OnRequestWillBeSent(r) PROVE StreamInv'
    BY <2>1, SentStreamInv
  <2>2. ASSUME NEW r \in Requests, OnRequestCompleted(r) PROVE StreamInv'
    BY <2>2, CompletedStreamInv
  <2>3. CASE Increment \/ Decrement
    BY <2>3, CounterStreamInv
  <2>4. ASSUME NEW r \in Requests, PageNetwork(r) PROVE StreamInv'
    BY <2>4, PageStreamInv
  <2>5. CASE UNCHANGED netVars
    BY <2>5 DEF netVars, StreamInv, StreamOrder, Seen, Leaving, Counted, Announced, Doing
  <2> QED
    BY <2>1, <2>2, <2>3, <2>4, <2>5 DEF NetNext, Listener
<1> QED
  BY <1>1, StreamInitInv, NetInvariant, PTL DEF NetSpec

\* A request of the page that began after the registration and is in flight is
\* counted, or its announcement is still under way, whatever the delays.
THEOREM NoneEverMissed == NetSpec => []NoMissedRequest
<1>1. NetInv /\ StreamInv => NoMissedRequest
  <2> SUFFICES ASSUME NetInv, StreamInv, NEW r \in Tracked \ early, network[r] = "open"
               PROVE  r \in Counted \/ Queued("sent", r) \/ Doing("increment", r)
    BY DEF NoMissedRequest
  <2>1. DOMAIN events = 1..Len(events)
    BY DEF NetInv, Typing
  <2> QED
    BY <2>1 DEF StreamInv, Seen, Announced, Queued
<1> QED
  BY <1>1, NetInvariant, StreamInvariant, PTL

\* A request the observer holds and the page has completed has its completion
\* under way: the counter cannot stay above zero for its sake.
THEOREM NoneEverStranded == NetSpec => []NoStrandedRequest
<1>1. NetInv /\ StreamInv => NoStrandedRequest
  <2> SUFFICES ASSUME NetInv, StreamInv, NEW r \in requestIDs, network[r] = "closed"
               PROVE  Queued("finished", r) \/ Queued("failed", r)
    BY DEF NoStrandedRequest
  <2>1. events \in Seq(Event) /\ DOMAIN events = 1..Len(events)
    BY DEF NetInv, Typing
  <2>2. PICK i \in 1..Len(events) : Completion(events[i], r)
    BY DEF StreamInv, Leaving
  <2>3. events[i] \in Event
    BY <2>1, <2>2
  <2>4. events[i] = [kind |-> "finished", id |-> r] \/ events[i] = [kind |-> "failed", id |-> r]
    BY <2>2, <2>3 DEF Event, Completion
  <2> QED
    BY <2>1, <2>4 DEF Queued
<1> QED
  BY <1>1, NetInvariant, StreamInvariant, PTL

-----------------------------------------------------------------------------
\* The stream and the map speak only of requests the page has sent.
KnownSent ==
  /\ \A i \in 1..Len(events) : network[events[i].id] # "unsent"
  /\ \A r \in requestIDs : network[r] # "unsent"

LEMMA KnownSentStep ==
  ASSUME NetInv, KnownSent, [NetNext]_netVars
  PROVE  KnownSent'
<1>0. Typing
  BY DEF NetInv
<1>1. ASSUME NEW p \in Requests, PageNetwork(p) PROVE KnownSent'
  <2>1. PICK e \in Event :
          /\ e.id = p
          /\ events' = Append(events, e)
          /\ e.kind = "sent" => network' = [network EXCEPT ![p] = "open"]
          /\ e.kind \in {"finished", "failed"} => network' = [network EXCEPT ![p] = "closed"]
          /\ e.kind \in OtherKinds => network[p] = "open" /\ network' = network
    BY <1>0, <1>1, PageAppends
  <2>2. requestIDs' = requestIDs
    BY <1>1 DEF PageNetwork, SendRequest, Redirect, CompleteRequest, CompleteAgain, Tell, observerVars
  <2>3. network'[p] # "unsent" /\ \A r \in Requests : network[r] # "unsent" => network'[r] # "unsent"
    BY <1>0, <2>1 DEF Typing, Event
  <2>4. /\ Len(events) \in Nat /\ Len(events') = Len(events) + 1
        /\ \A i \in 1..Len(events) : events'[i] = events[i]
        /\ events'[Len(events) + 1] = e
    BY <1>0, <2>1, Appended DEF Typing
  <2>5. ASSUME NEW i \in 1..Len(events) PROVE events[i].id \in Requests
    <3>1. events[i] \in Event
      BY <1>0 DEF Typing
    <3> QED
      BY <3>1 DEF Event
  <2>6. ASSUME NEW i \in 1..Len(events') PROVE network'[events'[i].id] # "unsent"
    <3>1. CASE i \in 1..Len(events)
      <4>1. events'[i] = events[i] /\ events[i].id \in Requests /\ network[events[i].id] # "unsent"
        BY <2>4, <2>5, <3>1 DEF KnownSent
      <4> QED
        BY <2>3, <4>1
    <3>2. CASE i = Len(events) + 1
      BY <2>1, <2>3, <2>4, <3>2
    <3> QED
      BY <2>4, <3>1, <3>2
  <2> QED
    BY <1>0, <2>2, <2>3, <2>6 DEF KnownSent, Typing
<1>2. ASSUME NEW r \in Requests, OnRequestWillBeSent(r) \/ OnRequestCompleted(r) PROVE KnownSent'
  <2>1. /\ events # <<>> /\ Head(events).id = r /\ events' = Tail(events)
        /\ network' = network
        /\ requestIDs' \subseteq requestIDs \union {r}
    BY <1>2 DEF OnRequestWillBeSent, OnRequestCompleted, Delivers, pageVars
  <2>2. /\ Len(events) \in Nat \ {0}
        /\ Len(events') = Len(events) - 1
        /\ \A i \in 1..(Len(events) - 1) : events'[i] = events[i + 1]
        /\ Head(events) = events[1]
    BY <1>0, <2>1, Delivered DEF Typing
  <2>3. network[r] # "unsent"
    BY <2>1, <2>2 DEF KnownSent
  <2>4. ASSUME NEW i \in 1..Len(events') PROVE network'[events'[i].id] # "unsent"
    BY <2>1, <2>2 DEF KnownSent
  <2> QED
    BY <2>1, <2>3, <2>4 DEF KnownSent
<1>3. CASE Increment \/ Decrement \/ UNCHANGED netVars
  BY <1>3 DEF Increment, Decrement, pageVars, netVars, KnownSent
<1> QED
  BY <1>1, <1>2, <1>3 DEF NetNext, Listener

\* The counter of a page at rest is zero: once no request of the page is in
\* flight, all its events are delivered and the last callback has returned,
\* nothing is left to keep the waiter polling, whatever was redirected,
\* repeated or already open at the registration (browser.go:1273-1301).  What
\* fairness adds to this is DrainsWhenQuiet.
THEOREM RestMeansZero ==
  NetSpec => []((\A r \in Requests : network[r] # "open") /\ events = <<>> /\ callback = Idle
                  => inflightRequests = 0)
<1>1. NetInit => KnownSent
  BY DEF NetInit, KnownSent
<1>2. NetInv /\ StreamInv /\ KnownSent =>
        ((\A r \in Requests : network[r] # "open") /\ events = <<>> /\ callback = Idle
           => inflightRequests = 0)
  <2> SUFFICES ASSUME NetInv, StreamInv, KnownSent, \A r \in Requests : network[r] # "open",
                      events = <<>>, callback = Idle
               PROVE  inflightRequests = 0
    OBVIOUS
  <2>1. ASSUME NEW r \in requestIDs PROVE FALSE
    <3>1. r \in Requests /\ network[r] = "closed"
      BY DEF NetInv, Typing, KnownSent
    <3> QED
      BY <3>1 DEF StreamInv, Leaving
  <2>2. Counted = {}
    BY <2>1 DEF Counted, Doing, Idle
  <2>3. Cardinality({}) = 0
    BY FS_EmptySet
  <2> QED
    BY <2>2, <2>3 DEF NetInv, CountMatches
<1> QED
  BY <1>1, <1>2, KnownSentStep, NetInvariant, StreamInvariant, PTL DEF NetSpec
=============================================================================
