--------------------------- MODULE ReadinessProofs ---------------------------
(***************************************************************************)
(* For any configurations, requests and bounds that satisfy the            *)
(* assumptions: types, and what a page taken for ready by polling has      *)
(* shown.                                                                  *)
(*                                                                         *)
(* What is said of the end is carried by what the loop's variables stand   *)
(* for: the count of cycles never runs ahead of the quiet polls, the flag  *)
(* initialDOMPass is raised exactly when no read of the DOM counts any     *)
(* more, and whatever let the loop pass the query check holds while the    *)
(* DOM is read, since a wait that is over stays over.                      *)
(***************************************************************************)
EXTENDS Readiness, NetworkObserverProofs

\* TypeOK without the observer's part: what the action's steps leave alone, and
\* the action's own variables.
OutsideTyping ==
  /\ requestConfig \in Configs
  /\ supportsBinding \in BOOLEAN /\ runningQueries \in BOOLEAN /\ hung \in BOOLEAN
  /\ ctxDone \in BOOLEAN /\ renderDone \in BOOLEAN
  /\ dom \in 0..MaxDOM /\ bindingQueue \in {0, 1}
  /\ now \in 0..Horizon

OwnTyping ==
  /\ sleep \in Nat
  /\ pc \in {"setup", "probe", "binding", "select", "network", "query", "dom", "done"}
  /\ result \in {"none", "ready", "timeout", "ctx", "error"}
  /\ mode \in {"unknown", "binding", "legacy"}
  /\ hasSeenAnyQuery \in BOOLEAN /\ initialDOMPass \in BOOLEAN
  /\ numSuccessfulCycles \in 0..(requestConfig.cycles - 1)
  /\ domHashCode \in HashCodes
  /\ quietPolls \in 0..requestConfig.cycles
  /\ consecutivePolls \in 0..requestConfig.cycles
  /\ stillReads \in 0..2 /\ lastRead \in 0..MaxDOM

WaiterTyping == OutsideTyping /\ OwnTyping

QueriesPassed == QueryWait => /\ quietPolls = requestConfig.cycles
                              /\ hasSeenAnyQuery \/ ~FirstQueryWait

LoopInv ==
  /\ pc # "done" => result = "none"
  /\ pc = "binding" => mode = "binding"
  /\ pc \in {"setup", "probe"} => mode = "unknown"
  /\ numSuccessfulCycles <= quietPolls
  /\ initialDOMPass <=> stillReads = 0
  /\ pc = "dom" => QueriesPassed
  /\ result = "ready" /\ mode = "legacy" => QueriesPassed /\ (DOMWait => stillReads = 2)

WaiterInv == WaiterTyping /\ LoopInv

-----------------------------------------------------------------------------
\* The configured numbers, and that no wait is longer than the horizon.
LEMMA ConfigFacts ==
  ASSUME WaiterTyping
  PROVE  /\ requestConfig.cycles \in Nat \ {0}
         /\ requestConfig.interval \in Nat \ {0}
         /\ requestConfig.timeout \in Nat
         /\ requestConfig.firstQueryTimeout \in Nat
         /\ requestConfig.queriesTimeout \in Nat
         /\ requestConfig.domTimeout \in Nat
         /\ Horizon \in Nat
         /\ MaxDOM \in Nat
<1>1. requestConfig \in RequestConfig /\ Horizon \in Nat /\ MaxDOM \in Nat
  BY ConfigsAssumption DEF WaiterTyping, OutsideTyping, OwnTyping
<1> QED
  BY <1>1 DEF RequestConfig

\* The composed system leaves the observer to its own steps.
LEMMA ObserverStep == [Next]_vars => [NetNext]_netVars
<1> SUFFICES ASSUME [Next]_vars PROVE [NetNext]_netVars
  OBVIOUS
<1>1. CASE Action \/ Tick \/ Environment \/ OnBindingCalled \/ Finished \/ UNCHANGED vars
  BY <1>1 DEF Action, Start, Probe, Interrupted, RenderSignalled, Iterate, CheckNetwork,
     QueriesRunning, QueriesQuiet, ReadDOM, ScriptFails, OwnStep, Tick, Environment,
     OnBindingCalled, Finished, vars
<1>2. CASE PageTraffic \/ NetworkEvent
  BY <1>2 DEF PageTraffic, NetworkEvent, NetNext
<1> QED
  BY <1>1, <1>2 DEF Next

LEMMA WaiterInitInv == Init => WaiterInv
<1> SUFFICES ASSUME Init PROVE WaiterInv
  OBVIOUS
<1>1. requestConfig \in RequestConfig /\ Horizon \in Nat /\ MaxDOM \in Nat
  BY ConfigsAssumption DEF Init
<1>2. requestConfig.cycles \in Nat \ {0}
  BY <1>1 DEF RequestConfig
<1>3. 0 \in 0..(requestConfig.cycles - 1) /\ 0 \in 0..requestConfig.cycles
  BY <1>2
<1>4. 0 \in 0..MaxDOM /\ 0 \in 0..Horizon
  BY <1>1
<1>5. domHashCode \in HashCodes
  BY DEF Init, HashCodes
<1>6. /\ numSuccessfulCycles \in 0..(requestConfig.cycles - 1)
      /\ quietPolls \in 0..requestConfig.cycles
      /\ consecutivePolls \in 0..requestConfig.cycles
      /\ stillReads \in 0..2
      /\ lastRead \in 0..MaxDOM /\ dom \in 0..MaxDOM /\ now \in 0..Horizon
  BY <1>3, <1>4 DEF Init
<1>7. /\ supportsBinding \in BOOLEAN /\ runningQueries \in BOOLEAN /\ hung \in BOOLEAN
      /\ ctxDone \in BOOLEAN /\ renderDone \in BOOLEAN
      /\ hasSeenAnyQuery \in BOOLEAN /\ initialDOMPass \in BOOLEAN
  BY DEF Init
<1>8. /\ requestConfig \in Configs /\ bindingQueue \in {0, 1} /\ sleep \in Nat
      /\ pc \in {"setup", "probe", "binding", "select", "network", "query", "dom", "done"}
      /\ result \in {"none", "ready", "timeout", "ctx", "error"}
      /\ mode \in {"unknown", "binding", "legacy"}
  BY DEF Init
<1>9. WaiterTyping
  BY <1>5, <1>6, <1>7, <1>8 DEF WaiterTyping, OutsideTyping, OwnTyping
<1>10. LoopInv
  BY <1>2 DEF Init, LoopInv
<1> QED
  BY <1>9, <1>10 DEF WaiterInv

\* Steps of the page, the context and the listeners.
LEMMA OutsideInv ==
  ASSUME WaiterInv, Environment \/ PageTraffic \/ NetworkEvent \/ OnBindingCalled
  PROVE  WaiterInv'
<1>1. UNCHANGED <<requestConfig, now, waiter>>
  BY DEF Environment, PageQueries, PageChanges, PageHangs, PageCallsBinding, ContextEnds,
     PageTraffic, NetworkEvent, OnBindingCalled, page
<1>2. WaiterTyping /\ MaxDOM \in Nat
  BY ConfigsAssumption DEF WaiterInv
<1>3. bindingQueue' \in {0, 1} /\ dom' \in 0..MaxDOM
  BY <1>2 DEF WaiterTyping, OutsideTyping, OwnTyping, Environment, PageQueries, PageChanges, PageHangs,
     PageCallsBinding, ContextEnds, PageTraffic, NetworkEvent, OnBindingCalled, page
<1>4. /\ supportsBinding' \in BOOLEAN /\ runningQueries' \in BOOLEAN /\ hung' \in BOOLEAN
      /\ ctxDone' \in BOOLEAN /\ renderDone' \in BOOLEAN
  BY <1>2 DEF WaiterTyping, OutsideTyping, OwnTyping, Environment, PageQueries, PageChanges, PageHangs,
     PageCallsBinding, ContextEnds, PageTraffic, NetworkEvent, OnBindingCalled, SignalRender, page
<1>5. WaiterTyping'
  BY <1>1, <1>2, <1>3, <1>4 DEF WaiterTyping, OutsideTyping, OwnTyping, waiter, loop, history
<1>6. LoopInv'
  BY <1>1 DEF WaiterInv, LoopInv, QueriesPassed, QueryWait, FirstQueryWait, DOMWait, Applies,
     waiter, loop, history
<1> QED
  BY <1>5, <1>6 DEF WaiterInv

\* A wait that is over stays over while the clock advances.
LEMMA TickInv ==
  ASSUME WaiterInv, Tick
  PROVE  WaiterInv'
<1>1. WaiterTyping /\ LoopInv
  BY DEF WaiterInv
<1>2. /\ requestConfig.firstQueryTimeout \in Nat
      /\ requestConfig.queriesTimeout \in Nat
      /\ requestConfig.domTimeout \in Nat
      /\ Horizon \in Nat
  BY <1>1, ConfigFacts
<1>3. now \in Nat /\ now' \in 0..Horizon /\ now <= now' /\ sleep' \in Nat
  BY <1>1, <1>2 DEF WaiterTyping, OutsideTyping, OwnTyping, Tick
<1>4. UNCHANGED <<page, bindingQueue, ctxDone, renderDone, pc, result, mode, loop, history>>
  BY DEF Tick
<1>5. WaiterTyping'
  BY <1>1, <1>3, <1>4 DEF WaiterTyping, OutsideTyping, OwnTyping, page, loop, history
<1>6. requestConfig' = requestConfig
  BY <1>4 DEF page
<1>7. /\ QueryWait' => QueryWait
      /\ FirstQueryWait' => FirstQueryWait
      /\ DOMWait' => DOMWait
  BY <1>2, <1>3, <1>6 DEF QueryWait, FirstQueryWait, DOMWait, Applies
<1>8. LoopInv'
  BY <1>1, <1>4, <1>7 DEF LoopInv, QueriesPassed, loop, history, page
<1> QED
  BY <1>5, <1>8 DEF WaiterInv

-----------------------------------------------------------------------------
(* The steps of the action.                                                *)

LEMMA OwnStepKeeps ==
  ASSUME WaiterInv, OwnStep
  PROVE  /\ OutsideTyping'
         /\ requestConfig' = requestConfig
         /\ QueryWait' = QueryWait /\ DOMWait' = DOMWait /\ FirstQueryWait' = FirstQueryWait
<1>1. UNCHANGED <<page, bindingQueue, ctxDone, renderDone, now>>
  BY DEF OwnStep
<1>2. OutsideTyping'
  BY <1>1 DEF WaiterInv, WaiterTyping, OutsideTyping, page
<1>3. requestConfig' = requestConfig /\ now' = now
  BY <1>1 DEF page
<1>4. QueryWait' = QueryWait /\ DOMWait' = DOMWait /\ FirstQueryWait' = FirstQueryWait
  BY <1>3 DEF QueryWait, DOMWait, FirstQueryWait, Applies
<1> QED
  BY <1>2, <1>3, <1>4

\* Steps that leave what the loop has counted alone.
LEMMA ControlInv ==
  ASSUME WaiterInv, Start \/ Probe \/ Interrupted \/ RenderSignalled \/ Iterate \/ ScriptFails
  PROVE  WaiterInv'
<1>1. OwnStep /\ UNCHANGED <<loop, history>>
  BY DEF Start, Probe, Interrupted, RenderSignalled, Iterate, ScriptFails
<1>2. /\ WaiterTyping /\ LoopInv
      /\ requestConfig.interval \in Nat \ {0}
  BY ConfigFacts DEF WaiterInv
<1>3. /\ sleep' \in Nat
      /\ pc' \in {"setup", "probe", "binding", "select", "network", "query", "dom", "done"}
      /\ result' \in {"none", "ready", "timeout", "ctx", "error"}
      /\ mode' \in {"unknown", "binding", "legacy"}
  BY <1>2 DEF WaiterTyping, OwnTyping, Start, Probe, Interrupted, RenderSignalled, Iterate,
     ScriptFails, ChooseMode, Continue, Return, GoTo, EvaluateErrors
<1>4. OwnTyping'
  BY <1>1, <1>2, <1>3, OwnStepKeeps DEF WaiterTyping, OwnTyping, loop, history
<1>5. /\ pc' # "done" => result' = "none"
      /\ pc' = "binding" => mode' = "binding"
      /\ pc' \in {"setup", "probe"} => mode' = "unknown"
      /\ pc' # "dom"
      /\ ~(result' = "ready" /\ mode' = "legacy")
  BY <1>2 DEF LoopInv, Start, Probe, Interrupted, RenderSignalled, Iterate,
     ScriptFails, ChooseMode, Continue, Return, GoTo, EvaluateErrors
<1>6. LoopInv'
  BY <1>1, <1>2, <1>5 DEF LoopInv, loop, history
<1> QED
  BY <1>1, <1>4, <1>6, OwnStepKeeps DEF WaiterInv, WaiterTyping

\* A check that finds the network busy starts the reads of the DOM afresh;
\* one that does not may end the wait only where no other check applies.
LEMMA NetworkInv ==
  ASSUME WaiterInv, CheckNetwork
  PROVE  WaiterInv'
<1>1. /\ WaiterTyping /\ LoopInv /\ OwnStep /\ pc = "network"
      /\ requestConfig.interval \in Nat \ {0}
      /\ UNCHANGED <<mode, hasSeenAnyQuery, numSuccessfulCycles, domHashCode, quietPolls, lastRead>>
  BY ConfigFacts DEF WaiterInv, CheckNetwork
<1>2. requestConfig' = requestConfig /\ QueryWait' = QueryWait /\ DOMWait' = DOMWait
  BY <1>1, OwnStepKeeps
<1>3. CASE NetworkBusy
  <2>1. /\ initialDOMPass' = TRUE /\ stillReads' = 0 /\ consecutivePolls' = 0
        /\ pc' = "select" /\ sleep' = requestConfig.interval /\ result' = "none"
    BY <1>1, <1>3 DEF CheckNetwork, RestartDOM, Continue, LoopInv
  <2>2. 0 \in 0..requestConfig.cycles
    BY <1>1, ConfigFacts
  <2>3. OwnTyping'
    BY <1>1, <1>2, <2>1, <2>2 DEF WaiterTyping, OwnTyping
  <2>4. LoopInv'
    BY <1>1, <2>1 DEF LoopInv
  <2> QED
    BY <1>1, <2>3, <2>4, OwnStepKeeps DEF WaiterInv, WaiterTyping
<1>4. CASE ~NetworkBusy
  <2>1. UNCHANGED <<initialDOMPass, stillReads, consecutivePolls>>
    BY <1>4 DEF CheckNetwork
  <2>2. \/ QueryWait /\ pc' = "query" /\ result' = "none" /\ sleep' = sleep
        \/ ~QueryWait /\ pc' = "dom" /\ result' = "none" /\ sleep' = sleep
        \/ ~QueryWait /\ ~DOMWait /\ pc' = "done" /\ result' = "ready" /\ sleep' = sleep
    BY <1>1, <1>4 DEF CheckNetwork, CheckQueries, CheckDOM, GoTo, Return, LoopInv
  <2>3. OwnTyping'
    BY <1>1, <1>2, <2>1, <2>2 DEF WaiterTyping, OwnTyping
  <2>4. LoopInv'
    BY <1>1, <1>2, <2>1, <2>2 DEF LoopInv, QueriesPassed
  <2> QED
    BY <1>1, <2>3, <2>4, OwnStepKeeps DEF WaiterInv, WaiterTyping
<1> QED
  BY <1>3, <1>4

LEMMA RunningInv ==
  ASSUME WaiterInv, QueriesRunning
  PROVE  WaiterInv'
<1>1. /\ WaiterTyping /\ LoopInv /\ OwnStep /\ pc = "query"
      /\ requestConfig.interval \in Nat \ {0}
      /\ requestConfig.cycles \in Nat \ {0}
      /\ UNCHANGED <<mode, domHashCode, lastRead>>
  BY ConfigFacts DEF WaiterInv, QueriesRunning
<1>2. requestConfig' = requestConfig
  BY <1>1, OwnStepKeeps
<1>3. /\ initialDOMPass' = TRUE /\ hasSeenAnyQuery' = TRUE
      /\ numSuccessfulCycles' = 0 /\ quietPolls' = 0 /\ consecutivePolls' = 0 /\ stillReads' = 0
      /\ pc' = "select" /\ sleep' = requestConfig.interval /\ result' = "none"
  BY <1>1 DEF QueriesRunning, RestartDOM, Continue, LoopInv
<1>4. 0 \in 0..requestConfig.cycles /\ 0 \in 0..(requestConfig.cycles - 1)
  BY <1>1
<1>5. OwnTyping'
  BY <1>1, <1>2, <1>3, <1>4 DEF WaiterTyping, OwnTyping
<1>6. LoopInv'
  BY <1>1, <1>3 DEF LoopInv
<1> QED
  BY <1>1, <1>5, <1>6, OwnStepKeeps DEF WaiterInv, WaiterTyping

\* The poll that completes the cycles is the one that lets the query check
\* pass: the count never runs ahead of the quiet polls.
LEMMA QuietInv ==
  ASSUME WaiterInv, QueriesQuiet
  PROVE  WaiterInv'
<1>1. /\ WaiterTyping /\ LoopInv /\ OwnStep /\ pc = "query"
      /\ requestConfig.interval \in Nat \ {0}
      /\ requestConfig.cycles \in Nat \ {0}
      /\ UNCHANGED <<mode, hasSeenAnyQuery, initialDOMPass, domHashCode, stillReads, lastRead>>
  BY ConfigFacts DEF WaiterInv, QueriesQuiet
<1>2. /\ requestConfig' = requestConfig /\ QueryWait' = QueryWait /\ DOMWait' = DOMWait
      /\ FirstQueryWait' = FirstQueryWait
  BY <1>1, OwnStepKeeps
<1>3. /\ quietPolls' = Another(quietPolls) /\ consecutivePolls' = Another(consecutivePolls)
      /\ quietPolls' \in 0..requestConfig.cycles
      /\ consecutivePolls' \in 0..requestConfig.cycles
  BY <1>1 DEF QueriesQuiet, Another, WaiterTyping, OwnTyping
<1>4. \/ /\ pc' = "select" /\ sleep' = requestConfig.interval /\ result' = "none"
         /\ numSuccessfulCycles' \in {numSuccessfulCycles, numSuccessfulCycles + 1}
         /\ numSuccessfulCycles' # numSuccessfulCycles => AnotherCycle
      \/ /\ ~AnotherCycle /\ (hasSeenAnyQuery \/ ~FirstQueryWait)
         /\ numSuccessfulCycles' = numSuccessfulCycles /\ sleep' = sleep
         /\ \/ pc' = "dom" /\ result' = "none"
            \/ ~DOMWait /\ pc' = "done" /\ result' = "ready"
  BY <1>1 DEF QueriesQuiet, CheckDOM, Continue, GoTo, Return, LoopInv
<1>5. /\ numSuccessfulCycles' \in 0..(requestConfig.cycles - 1)
      /\ numSuccessfulCycles' <= quietPolls'
  BY <1>1, <1>3, <1>4 DEF WaiterTyping, OwnTyping, LoopInv, AnotherCycle, Another
<1>6. ~AnotherCycle => quietPolls' = requestConfig.cycles
  BY <1>1, <1>3 DEF WaiterTyping, OwnTyping, LoopInv, AnotherCycle, Another
<1>7. sleep' \in Nat /\ pc' \in {"select", "dom", "done"} /\ result' \in {"none", "ready"}
  BY <1>1, <1>4 DEF WaiterTyping, OwnTyping
<1>8. OwnTyping'
  BY <1>1, <1>2, <1>3, <1>5, <1>7 DEF WaiterTyping, OwnTyping
<1>9. pc' \in {"dom", "done"} => QueriesPassed'
  BY <1>1, <1>2, <1>4, <1>6 DEF QueriesPassed
<1>10. LoopInv'
  BY <1>1, <1>2, <1>4, <1>5, <1>9 DEF LoopInv
<1> QED
  BY <1>1, <1>8, <1>10, OwnStepKeeps DEF WaiterInv, WaiterTyping

\* A second read that agrees ends the wait, and what let the loop reach the
\* DOM still holds.
LEMMA DOMInv ==
  ASSUME WaiterInv, ReadDOM
  PROVE  WaiterInv'
<1> DEFINE changed == ~initialDOMPass /\ BodyString(dom) # domHashCode
<1>1. /\ WaiterTyping /\ LoopInv /\ OwnStep /\ pc = "dom"
      /\ requestConfig.interval \in Nat \ {0}
      /\ UNCHANGED <<mode, hasSeenAnyQuery, numSuccessfulCycles, quietPolls, consecutivePolls>>
  BY ConfigFacts DEF WaiterInv, ReadDOM
<1>2. /\ requestConfig' = requestConfig /\ QueryWait' = QueryWait /\ DOMWait' = DOMWait
      /\ FirstQueryWait' = FirstQueryWait
  BY <1>1, OwnStepKeeps
<1>3. /\ domHashCode' = BodyString(dom) /\ initialDOMPass' = changed /\ lastRead' = dom
      /\ stillReads' = IF changed THEN 0 ELSE IF stillReads < 2 THEN stillReads + 1 ELSE 2
      /\ IF initialDOMPass \/ changed THEN Continue ELSE Return("ready")
  BY DEF ReadDOM
<1>4. /\ domHashCode' \in HashCodes /\ lastRead' \in 0..MaxDOM
      /\ initialDOMPass' \in BOOLEAN
  BY <1>1, <1>3 DEF HashCodes, WaiterTyping, OutsideTyping
<1>5. stillReads' \in 0..2 /\ (changed <=> stillReads' = 0)
  BY <1>1, <1>3 DEF WaiterTyping, OwnTyping
<1>6. \/ pc' = "select" /\ sleep' = requestConfig.interval /\ result' = "none"
      \/ /\ pc' = "done" /\ sleep' = sleep /\ result' = "ready"
         /\ ~initialDOMPass /\ ~changed
  BY <1>1, <1>3 DEF Continue, Return, LoopInv
<1>7. ~initialDOMPass /\ ~changed => stillReads' = 2
  BY <1>1, <1>3 DEF LoopInv, WaiterTyping, OwnTyping
<1>8. sleep' \in Nat /\ pc' \in {"select", "done"} /\ result' \in {"none", "ready"}
  BY <1>1, <1>6 DEF WaiterTyping, OwnTyping
<1>9. OwnTyping'
  BY <1>1, <1>2, <1>4, <1>5, <1>8 DEF WaiterTyping, OwnTyping
<1>10. QueriesPassed'
  BY <1>1, <1>2 DEF LoopInv, QueriesPassed
<1>11. LoopInv'
  BY <1>1, <1>2, <1>3, <1>5, <1>6, <1>7, <1>10 DEF LoopInv
<1> QED
  BY <1>1, <1>9, <1>11, OwnStepKeeps DEF WaiterInv, WaiterTyping

-----------------------------------------------------------------------------
\* The composed system, seen from the observer's variables, is the observer of
\* NetworkObserver: what is proved of that one holds of this one.
THEOREM ComposedObserver == Spec => NetSpec
<1>1. Init => NetInit
  BY DEF Init
<1> QED
  BY <1>1, ObserverStep, PTL DEF Spec, NetSpec

\* The typing and the meaning of the loop's variables are inductive.
THEOREM WaiterInvariant == Spec => []WaiterInv
<1>1. WaiterInv /\ [Next]_vars => WaiterInv'
  <2> SUFFICES ASSUME WaiterInv, [Next]_vars PROVE WaiterInv'
    OBVIOUS
  <2>1. CASE Environment \/ PageTraffic \/ NetworkEvent \/ OnBindingCalled
    BY <2>1, OutsideInv
  <2>2. CASE Tick
    BY <2>2, TickInv
  <2>3. CASE Start \/ Probe \/ Interrupted \/ RenderSignalled \/ Iterate \/ ScriptFails
    BY <2>3, ControlInv
  <2>4. CASE CheckNetwork
    BY <2>4, NetworkInv
  <2>5. CASE QueriesRunning
    BY <2>5, RunningInv
  <2>6. CASE QueriesQuiet
    BY <2>6, QuietInv
  <2>7. CASE ReadDOM
    BY <2>7, DOMInv
  <2>8. CASE Finished \/ UNCHANGED vars
    <3>1. UNCHANGED vars
      BY <2>8 DEF Finished
    <3>2. UNCHANGED <<page, bindingQueue, ctxDone, now, renderDone, sleep, pc, result, mode, loop, history>>
      BY <3>1 DEF vars, waiter
    <3>3. WaiterTyping'
      BY <3>2 DEF WaiterInv, WaiterTyping, OutsideTyping, OwnTyping, page, loop, history
    <3>4. LoopInv'
      BY <3>2 DEF WaiterInv, LoopInv, QueriesPassed, QueryWait, FirstQueryWait, DOMWait, Applies,
         page, loop, history
    <3> QED
      BY <3>3, <3>4 DEF WaiterInv
  <2> QED
    BY <2>1, <2>2, <2>3, <2>4, <2>5, <2>6, <2>7, <2>8 DEF Next, Action
<1> QED
  BY <1>1, WaiterInitInv, PTL DEF Spec

\* Type correctness of the waiter, the counters' bounds included: the cycles
\* counted stay below the number asked for.
THEOREM WaiterTypeCorrect == Spec => []TypeOK
<1>1. WaiterInv /\ NetTypeOK => TypeOK
  BY DEF WaiterInv, WaiterTyping, OutsideTyping, OwnTyping, TypeOK
<1> QED
  BY <1>1, WaiterInvariant, ComposedObserver, NetTypeCorrect, PTL

\* A page that polling takes for ready has shown as many quiet polls as asked
\* for since a query was last seen running, for every configuration.
THEOREM AlwaysReadyAfterQuietPolls == Spec => []ReadyAfterQuietPolls
<1>1. WaiterInv => ReadyAfterQuietPolls
  BY DEF WaiterInv, LoopInv, QueriesPassed, ReadyAfterQuietPolls
<1> QED
  BY <1>1, WaiterInvariant, PTL

\* A page that polling takes for ready was read twice with nothing seen busy in
\* between, for every configuration.
THEOREM AlwaysReadyAfterStillReads == Spec => []ReadyAfterStillReads
<1>1. WaiterInv => ReadyAfterStillReads
  BY DEF WaiterInv, LoopInv, ReadyAfterStillReads
<1> QED
  BY <1>1, WaiterInvariant, PTL

-----------------------------------------------------------------------------
\* Past the network check the waiter has found the count at zero.
LEMMA GatePassed ==
  ASSUME NetInv, [Next]_vars,
         pc = "network", pc' \notin {"network", "select"}, NetworkWait
  PROVE  inflightRequests <= 0
<1>0. inflightRequests \in Int
  BY DEF NetInv, Typing
<1>1. CASE CheckNetwork
  <2>1. ~NetworkBusy
    BY <1>1 DEF CheckNetwork, Continue
  <2>2. ~(inflightRequests > 0)
    BY <2>1 DEF NetworkBusy
  <2> QED
    BY <2>2, <1>0
<1>2. CASE ~CheckNetwork
  <2>1. CASE Action
    BY <1>2, <2>1 DEF Action, Start, Probe, Interrupted, RenderSignalled, Iterate,
       QueriesRunning, QueriesQuiet, ReadDOM, ScriptFails
  <2>2. CASE ~Action
    <3>1. pc' = pc
      BY <2>2 DEF Next, Environment, PageTraffic, NetworkEvent, OnBindingCalled, Tick, Finished,
         vars, waiter
    <3> QED
      BY <3>1
  <2> QED
    BY <2>1, <2>2
<1> QED
  BY <1>1, <1>2

\* A count of zero counts no request.
LEMMA NothingCounted ==
  ASSUME NetInv, inflightRequests <= 0
  PROVE  Counted = {}
<1>1. IsFiniteSet(Counted) /\ Cardinality(Counted) \in Nat
  BY CountedFinite, FS_CardinalityType
<1>2. Cardinality(Counted) = 0
  BY <1>1 DEF NetInv, CountMatches
<1> QED
  BY <1>1, <1>2, FS_EmptySet

\* The network check is never fooled by reading the counter without the lock:
\* a request it overlooks is one whose announcement is still under way.
THEOREM NetworkGateHolds == Spec => NetworkGate
<1>1. NetInv /\ NoMissedRequest /\ [Next]_vars =>
        (pc = "network" /\ pc' \notin {"network", "select"} /\ NetworkWait =>
           \A r \in Tracked \ early : network[r] = "open" =>
             Doing("increment", r) \/ (r \notin requestIDs /\ Queued("sent", r)))
  <2> SUFFICES ASSUME NetInv, NoMissedRequest, [Next]_vars,
                      pc = "network", pc' \notin {"network", "select"}, NetworkWait,
                      NEW r \in Tracked \ early, network[r] = "open",
                      ~Doing("increment", r)
               PROVE  r \notin requestIDs /\ Queued("sent", r)
    OBVIOUS
  <2>1. r \notin Counted
    BY GatePassed, NothingCounted
  <2>2. r \in Requests
    BY DEF Tracked
  <2>3. r \notin requestIDs
    BY <2>1, <2>2 DEF Counted
  <2>4. Queued("sent", r)
    BY <2>1 DEF NoMissedRequest
  <2> QED
    BY <2>3, <2>4
<1>2. NetSpec => [](NetInv /\ NoMissedRequest)
  BY NetInvariant, NoneEverMissed, PTL
<1> QED
  BY <1>1, <1>2, ComposedObserver, PTL DEF Spec, NetworkGate

-----------------------------------------------------------------------------
\* The timer of an iteration that has run out has not outrun the timeout of
\* the wait: the clock does not pass a select that has the timeout due.
TimersInv ==
  pc = "select" /\ sleep = 0 /\ requestConfig.timeout > 0 => now <= requestConfig.timeout

LEMMA TimersStep ==
  ASSUME WaiterInv, TimersInv, [Next]_vars
  PROVE  TimersInv'
<1>0. /\ requestConfig.interval \in Nat \ {0} /\ requestConfig.timeout \in Nat
      /\ sleep \in Nat /\ now \in Nat
  <2>1. now \in 0..Horizon /\ sleep \in Nat
    BY DEF WaiterInv, WaiterTyping, OutsideTyping, OwnTyping
  <2> QED
    BY <2>1, ConfigFacts DEF WaiterInv
<1>1. CASE Tick
  <2>1. /\ pc' = pc /\ requestConfig' = requestConfig
        /\ now' = now \/ now' = now + 1
        /\ pc = "select" => sleep # 0 /\ ~TimeoutDue
    BY <1>1 DEF Tick, SelectReady, page
  <2> QED
    BY <1>0, <2>1 DEF TimersInv, TimeoutDue
<1>2. CASE Action
  <2>1. requestConfig' = requestConfig /\ now' = now
    BY <1>2 DEF Action, Start, Probe, Interrupted, RenderSignalled, Iterate, CheckNetwork,
       QueriesRunning, QueriesQuiet, ReadDOM, ScriptFails, OwnStep, page
  <2>2. pc' = "select" => sleep' = requestConfig.interval
    BY <1>2 DEF Action, Start, Probe, ChooseMode, Interrupted, RenderSignalled, Iterate,
       CheckNetwork, CheckQueries, CheckDOM, QueriesRunning, QueriesQuiet, ReadDOM, ScriptFails,
       Continue, Return, GoTo
  <2> QED
    BY <1>0, <2>1, <2>2 DEF TimersInv
<1>3. CASE Environment \/ PageTraffic \/ NetworkEvent \/ OnBindingCalled \/ Finished \/ UNCHANGED vars
  <2>1. UNCHANGED <<requestConfig, now, pc, sleep>>
    BY <1>3 DEF Environment, PageQueries, PageChanges, PageHangs, PageCallsBinding, ContextEnds,
       PageTraffic, NetworkEvent, OnBindingCalled, Finished, vars, page, waiter
  <2> QED
    BY <2>1 DEF TimersInv
<1> QED
  BY <1>1, <1>2, <1>3 DEF Next

\* No iteration of the poll begins past the readiness timeout, for every
\* interval and timeout.
THEOREM NeverPollsPastDeadline == Spec => NoPollPastDeadline
<1>1. Init => TimersInv
  BY DEF Init, TimersInv
<1>2. WaiterInv /\ TimersInv /\ [Next]_vars =>
        (pc = "select" /\ pc' = "network" /\ requestConfig.timeout > 0 =>
           now <= requestConfig.timeout)
  <2> SUFFICES ASSUME WaiterInv, TimersInv, [Next]_vars,
                      pc = "select", pc' = "network", requestConfig.timeout > 0
               PROVE  now <= requestConfig.timeout
    OBVIOUS
  <2>1. sleep = 0
    BY DEF Next, Environment, PageTraffic, NetworkEvent, OnBindingCalled, Tick, Finished, vars,
       waiter, Action, Start, Probe, Interrupted, RenderSignalled, Iterate, CheckNetwork,
       QueriesRunning, QueriesQuiet, ReadDOM, ScriptFails, Return
  <2> QED
    BY <2>1 DEF TimersInv
<1>3. WaiterInv /\ TimersInv /\ [Next]_vars => TimersInv'
  BY TimersStep
<1> QED
  BY <1>1, <1>2, <1>3, WaiterInvariant, PTL DEF Spec, NoPollPastDeadline
-----------------------------------------------------------------------------
\* The most steps the action can take before it returns once its context has
\* ended or its timeout is over: at the next select.
StepsLeft ==
  IF pc = "select" /\ sleep = 0 THEN 5
  ELSE IF pc = "network" THEN 4
  ELSE IF pc \in {"setup", "query"} THEN 3
  ELSE IF pc \in {"probe", "dom"} THEN 2
  ELSE IF pc = "done" THEN 0
  ELSE 1

\* A step that does not go on to another script or iteration either returns or
\* waits for the next select with its timer running.
LEMMA StepsCount ==
  ASSUME WaiterInv
  PROVE  /\ StepsLeft \in 0..5
         /\ Continue => StepsLeft' = 1
         /\ \A value : Return(value) => StepsLeft' = 0
<1>1. requestConfig.interval # 0
  BY ConfigFacts DEF WaiterInv
<1> QED
  BY <1>1 DEF StepsLeft, Continue, Return

\* Once its context has ended or its timeout is over, the wait is within five
\* steps of its own of its end, and nothing that the page, the network, the
\* binding or the clock does puts it further off: the check of the DOM follows
\* that of the queries, which follows that of the network, and the select after
\* them returns (browser.go:1136-1214).  What fairness adds to this is CancelEnds,
\* and WaitEnds, where a page that hangs may keep a script from returning.
THEOREM OverdueWindsDown ==
  Spec => [][ctxDone \/ TimeoutDue => /\ StepsLeft' <= StepsLeft
                                      /\ Action => StepsLeft' < StepsLeft]_vars
<1>1. WaiterInv /\ [Next]_vars =>
        [ctxDone \/ TimeoutDue =>
           StepsLeft' <= StepsLeft /\ (Action => StepsLeft' < StepsLeft)]_vars
  <2> SUFFICES ASSUME WaiterInv, Next, ctxDone \/ TimeoutDue
               PROVE  StepsLeft' <= StepsLeft /\ (Action => StepsLeft' < StepsLeft)
    OBVIOUS
  <2>1. CASE Start \/ Iterate
    BY <2>1 DEF Start, Iterate, GoTo, StepsLeft
  <2>2. CASE Probe
    <3>1. pc = "probe" /\ (Continue \/ GoTo("binding"))
      BY <2>2 DEF Probe, ChooseMode
    <3> QED
      BY <3>1, StepsCount DEF GoTo, StepsLeft
  <2>3. CASE Interrupted \/ RenderSignalled \/ ScriptFails
    <3>1. pc \in {"select", "binding", "query", "dom"} /\ \E value : Return(value)
      BY <2>3 DEF Interrupted, RenderSignalled, ScriptFails
    <3> QED
      BY <3>1, StepsCount DEF StepsLeft
  <2>4. CASE CheckNetwork
    <3>1. pc = "network" /\ (Continue \/ GoTo("query") \/ GoTo("dom") \/ Return("ready"))
      BY <2>4 DEF CheckNetwork, CheckQueries, CheckDOM
    <3> QED
      BY <3>1, StepsCount DEF GoTo, StepsLeft
  <2>5. CASE QueriesRunning \/ QueriesQuiet
    <3>1. pc = "query" /\ (Continue \/ GoTo("dom") \/ Return("ready"))
      BY <2>5 DEF QueriesRunning, QueriesQuiet, CheckDOM
    <3> QED
      BY <3>1, StepsCount DEF GoTo, StepsLeft
  <2>6. CASE ReadDOM
    <3>1. pc = "dom" /\ (Continue \/ Return("ready"))
      BY <2>6 DEF ReadDOM
    <3> QED
      BY <3>1, StepsCount DEF StepsLeft
  <2>7. CASE Tick /\ ~Action
    <3>1. pc # "select" /\ pc' = pc
      BY <2>7 DEF Tick, SelectReady, ContextDue
    <3> QED
      BY <2>7, <3>1, StepsCount DEF StepsLeft
  <2>8. CASE (Environment \/ PageTraffic \/ NetworkEvent \/ OnBindingCalled \/ Finished) /\ ~Action
    <3>1. UNCHANGED <<pc, sleep>>
      BY <2>8 DEF Environment, PageTraffic, NetworkEvent, OnBindingCalled, Finished, vars, waiter
    <3> QED
      BY <2>8, <3>1, StepsCount DEF StepsLeft
  <2> QED
    BY <2>1, <2>2, <2>3, <2>4, <2>5, <2>6, <2>7, <2>8 DEF Next, Action
<1> QED
  BY <1>1, WaiterInvariant, PTL DEF Spec

-----------------------------------------------------------------------------
\* How the page is watched is settled once, by the probe.
ModeInv ==
  /\ pc \in {"setup", "probe"} => mode = "unknown"
  /\ pc = "binding" => mode = "binding"
  /\ pc \in {"select", "network", "query", "dom"} => mode = "legacy"

LEMMA ModeStep ==
  ASSUME ModeInv, [Next]_vars
  PROVE  ModeInv'
<1>1. CASE Start \/ Probe
  BY <1>1 DEF ModeInv, Start, Probe, ChooseMode, Continue, GoTo
<1>2. CASE Interrupted \/ RenderSignalled \/ Iterate \/ ScriptFails
  BY <1>2 DEF ModeInv, Interrupted, RenderSignalled, Iterate, ScriptFails, Return, GoTo
<1>3. CASE CheckNetwork \/ QueriesRunning \/ QueriesQuiet \/ ReadDOM
  BY <1>3 DEF ModeInv, CheckNetwork, QueriesRunning, QueriesQuiet, ReadDOM, CheckQueries, CheckDOM,
     Continue, Return, GoTo
<1>4. CASE ~Action
  <2>1. UNCHANGED <<pc, mode>>
    BY <1>4 DEF Next, Environment, PageTraffic, NetworkEvent, OnBindingCalled, Tick, Finished,
       vars, waiter
  <2> QED
    BY <2>1 DEF ModeInv
<1> QED
  BY <1>1, <1>2, <1>3, <1>4 DEF Action

\* A return from the loop is a verdict the abstract waiter may give.
LEMMA ReturnFinishes ==
  ASSUME LoopInv, ModeInv, OwnStep, mode' = mode,
         pc \in {"binding", "select", "network", "query", "dom"},
         NEW value \in {"ready", "timeout", "ctx", "error"}, Return(value),
         value = "ready" => mode = "legacy" \/ renderDone,
         value = "error" => mode = "legacy",
         value = "ctx" => ctxDone
  PROVE  Promise!WaiterNext
<1>1. Verdict = "waiting" /\ Verdict' = value
  BY DEF Verdict, Return
<1>2. mode # "unknown"
  BY DEF ModeInv
<1>3. UNCHANGED <<mode, renderDone, ctxDone>>
  BY DEF OwnStep
<1>4. Promise!Finish(value)
  BY <1>1, <1>2, <1>3 DEF Promise!Finish
<1>5. value \in Promise!Results
  BY DEF Promise!Results
<1> QED
  BY <1>4, <1>5 DEF Promise!WaiterNext

\* A step that neither begins nor ends the wait is not seen.
LEMMA LoopStutters ==
  ASSUME pc \notin {"setup", "done"}, pc' \notin {"setup", "done"},
         UNCHANGED <<mode, renderDone, ctxDone>>
  PROVE  UNCHANGED Promise!waiterVars
<1>1. Verdict' = Verdict
  BY DEF Verdict
<1> QED
  BY <1>1 DEF Promise!waiterVars

LEMMA ActionImplements ==
  ASSUME LoopInv, ModeInv, Action
  PROVE  [Promise!WaiterNext]_(Promise!waiterVars)
<1>0. OwnStep /\ UNCHANGED <<renderDone, ctxDone>>
  BY DEF Action, Start, Probe, Interrupted, RenderSignalled, Iterate, CheckNetwork,
     QueriesRunning, QueriesQuiet, ReadDOM, ScriptFails, OwnStep
<1>1. CASE Start
  <2>1. Verdict = "registered" /\ Verdict' = "waiting"
    BY <1>1 DEF Start, GoTo, Verdict
  <2> QED
    BY <1>0, <1>1, <2>1 DEF Start, Promise!WaiterNext, Promise!Begin
<1>2. CASE Probe
  <2>1. Verdict = "waiting" /\ Verdict' = "waiting"
    BY <1>2 DEF Probe, ChooseMode, Continue, GoTo, Verdict
  <2>2. mode = "unknown" /\ mode' \in {"binding", "legacy"}
    BY <1>2 DEF Probe, ChooseMode, ModeInv
  <2> QED
    BY <1>0, <2>1, <2>2 DEF Promise!WaiterNext, Promise!ChooseHow
<1>3. CASE Interrupted
  <2>1. \/ ctxDone /\ Return("ctx")
        \/ Return("timeout")
    BY <1>3 DEF Interrupted, ContextDue
  <2> QED
    BY <1>0, <1>3, <2>1, ReturnFinishes DEF Interrupted
<1>4. CASE RenderSignalled
  BY <1>0, <1>4, ReturnFinishes DEF RenderSignalled
<1>5. CASE Iterate
  BY <1>0, <1>5, LoopStutters DEF Iterate, GoTo
<1>6. CASE CheckNetwork \/ QueriesQuiet \/ ReadDOM
  <2>1. /\ pc \in {"network", "query", "dom"} /\ mode = "legacy" /\ mode' = mode
        /\ pc' \in {"select", "query", "dom"} \/ Return("ready")
    BY <1>6 DEF ModeInv, CheckNetwork, QueriesQuiet, ReadDOM, CheckQueries, CheckDOM, Continue, GoTo
  <2> QED
    BY <1>0, <2>1, LoopStutters, ReturnFinishes
<1>7. CASE QueriesRunning
  BY <1>0, <1>7, LoopStutters DEF QueriesRunning, Continue
<1>8. CASE ScriptFails
  <2>1. mode = "legacy"
    BY <1>8 DEF ModeInv, ScriptFails
  <2>2. \/ ctxDone /\ Return("ctx")
        \/ Return("error")
    BY <1>8 DEF ScriptFails, EvaluateFails, EvaluateErrors
  <2> QED
    BY <1>0, <1>8, <2>1, <2>2, ReturnFinishes DEF ScriptFails
<1> QED
  BY <1>1, <1>2, <1>3, <1>4, <1>5, <1>6, <1>7, <1>8 DEF Action

\* The waiter, polls, timers and listeners and all, is one of those the render
\* session is written against: it gives one verdict, and for a reason.
THEOREM WaiterImplemented == Spec => ImplementsWaiter
<1>1. Init => Promise!WaiterInit /\ ModeInv
  BY DEF Init, Promise!WaiterInit, Verdict, ModeInv
<1>2. ModeInv /\ [Next]_vars => ModeInv'
  BY ModeStep
<1>3. WaiterInv /\ ModeInv /\ [Next]_vars => [Promise!WaiterNext]_(Promise!waiterVars)
  <2> SUFFICES ASSUME WaiterInv, ModeInv, [Next]_vars
               PROVE  [Promise!WaiterNext]_(Promise!waiterVars)
    OBVIOUS
  <2>1. CASE Action
    BY <2>1, ActionImplements DEF WaiterInv
  <2>2. CASE OnBindingCalled
    <3>1. UNCHANGED <<pc, result, mode, ctxDone>> /\ renderDone' = TRUE
      BY <2>2 DEF OnBindingCalled, SignalRender, waiter
    <3>2. Verdict' = Verdict
      BY <3>1 DEF Verdict
    <3> QED
      BY <3>1, <3>2 DEF Promise!WaiterNext, Promise!BindingCalled
  <2>3. CASE Environment
    <3>1. /\ UNCHANGED <<pc, result, mode, renderDone>>
          /\ ctxDone' = ctxDone \/ ctxDone' = TRUE
      BY <2>3 DEF Environment, PageQueries, PageChanges, PageHangs, PageCallsBinding, ContextEnds,
         waiter
    <3>2. Verdict' = Verdict
      BY <3>1 DEF Verdict
    <3> QED
      BY <3>1, <3>2 DEF Promise!WaiterNext, Promise!ContextOver, Promise!waiterVars
  <2>4. CASE PageTraffic \/ NetworkEvent \/ Tick \/ Finished \/ UNCHANGED vars
    <3>1. UNCHANGED <<pc, result, mode, renderDone, ctxDone>>
      BY <2>4 DEF PageTraffic, NetworkEvent, Tick, Finished, vars, waiter
    <3> QED
      BY <3>1 DEF Promise!waiterVars, Verdict
  <2> QED
    BY <2>1, <2>2, <2>3, <2>4 DEF Next
<1> QED
  BY <1>1, <1>2, <1>3, WaiterInvariant, PTL DEF Spec, ImplementsWaiter, Promise!WaiterSpec
-----------------------------------------------------------------------------
(* When the checks are consecutive after all.                              *)

\* What a page taken for ready, or whose DOM is looked at, has behind it since
\* any check found it busy.
RunInv ==
  /\ requestConfig.disableNetworkWait => consecutivePolls = quietPolls
  /\ pc = "dom" /\ QueryWait => consecutivePolls >= 1
  /\ result = "ready" /\ mode = "legacy" /\ QueryWait => consecutivePolls >= 1

\* The steps that count nothing and pass no check.
LEMMA RunKept ==
  ASSUME WaiterInv, RunInv, UNCHANGED <<requestConfig, quietPolls, consecutivePolls>>,
         QueryWait' => QueryWait,
         pc' = "dom" => pc = "dom",
         result' = "ready" /\ mode' = "legacy" /\ QueryWait =>
           pc = "dom" \/ (result = "ready" /\ mode = "legacy")
  PROVE  RunInv'
BY DEF RunInv

LEMMA RunNextInv == WaiterInv /\ RunInv /\ [Next]_vars => RunInv'
<1> SUFFICES ASSUME WaiterInv, RunInv, [Next]_vars PROVE RunInv'
  OBVIOUS
<1>1. CASE Environment \/ PageTraffic \/ NetworkEvent \/ OnBindingCalled \/ Finished \/ UNCHANGED vars
  <2>1. UNCHANGED <<requestConfig, now, waiter>>
    BY <1>1 DEF Environment, PageQueries, PageChanges, PageHangs, PageCallsBinding, ContextEnds,
       PageTraffic, NetworkEvent, OnBindingCalled, Finished, page, vars
  <2>2. /\ UNCHANGED <<requestConfig, quietPolls, consecutivePolls, pc, result, mode>>
        /\ QueryWait' = QueryWait
    BY <2>1 DEF waiter, loop, history, QueryWait, Applies
  <2> QED
    BY <2>2, RunKept
<1>2. CASE Tick
  <2>1. UNCHANGED <<requestConfig, quietPolls, consecutivePolls, pc, result, mode>>
    BY <1>2 DEF Tick, page, loop, history
  <2>2. requestConfig.queriesTimeout \in Nat /\ Horizon \in Nat /\ now \in Nat /\ now <= now'
    BY <1>2, ConfigFacts DEF Tick, WaiterInv, WaiterTyping, OutsideTyping
  <2>3. now' \in Nat
    BY <1>2, <2>2 DEF Tick
  <2>4. QueryWait' => QueryWait
    BY <2>1, <2>2, <2>3 DEF QueryWait, Applies
  <2> QED
    BY <2>1, <2>4, RunKept
<1>3. CASE Start \/ Probe \/ Interrupted \/ RenderSignalled \/ Iterate \/ ScriptFails
  <2>1. OwnStep /\ UNCHANGED <<loop, history>>
    BY <1>3 DEF Start, Probe, Interrupted, RenderSignalled, Iterate, ScriptFails
  <2>2. pc' # "dom" /\ ~(result' = "ready" /\ mode' = "legacy")
    BY <1>3 DEF WaiterInv, LoopInv, Start, Probe, Interrupted, RenderSignalled, Iterate,
       ScriptFails, ChooseMode, Continue, Return, GoTo, EvaluateErrors
  <2> QED
    BY <2>1, <2>2, OwnStepKeeps, RunKept DEF history
<1>4. CASE CheckNetwork
  <2>1. OwnStep /\ quietPolls' = quietPolls /\ mode' = mode
    BY <1>4 DEF CheckNetwork
  <2>2. requestConfig' = requestConfig /\ QueryWait' = QueryWait
    BY <2>1, OwnStepKeeps
  <2>3. CASE NetworkBusy
    <3>1. ~requestConfig.disableNetworkWait
      BY <2>3 DEF NetworkBusy, NetworkWait, Applies
    <3>2. pc' = "select" /\ result' = "none"
      BY <1>4, <2>3 DEF CheckNetwork, Continue, WaiterInv, LoopInv
    <3> QED
      BY <2>2, <3>1, <3>2 DEF RunInv
  <2>4. CASE ~NetworkBusy
    <3>1. /\ consecutivePolls' = consecutivePolls
          /\ pc' = "dom" \/ result' = "ready" => ~QueryWait
      BY <1>4, <2>4 DEF CheckNetwork, CheckQueries, CheckDOM, GoTo, Return, WaiterInv, LoopInv
    <3> QED
      BY <2>1, <2>2, <3>1 DEF RunInv
  <2> QED
    BY <2>3, <2>4
<1>5. CASE QueriesRunning
  <2>1. OwnStep /\ quietPolls' = 0 /\ consecutivePolls' = 0 /\ pc' = "select" /\ result' = "none"
    BY <1>5 DEF QueriesRunning, Continue, WaiterInv, LoopInv
  <2> QED
    BY <2>1, OwnStepKeeps DEF RunInv
<1>6. CASE QueriesQuiet
  <2>1. /\ OwnStep /\ mode' = mode
        /\ quietPolls' = Another(quietPolls) /\ consecutivePolls' = Another(consecutivePolls)
    BY <1>6 DEF QueriesQuiet
  <2>2. requestConfig' = requestConfig
    BY <2>1, OwnStepKeeps
  <2>3. /\ requestConfig.cycles \in Nat \ {0}
        /\ quietPolls \in Nat /\ consecutivePolls \in Nat
    BY ConfigFacts DEF WaiterInv, WaiterTyping, OwnTyping
  <2>4. consecutivePolls' >= 1
    BY <2>1, <2>3 DEF Another
  <2>5. requestConfig.disableNetworkWait => consecutivePolls' = quietPolls'
    BY <2>1 DEF RunInv
  <2> QED
    BY <2>2, <2>4, <2>5 DEF RunInv
<1>7. CASE ReadDOM
  <2>1. /\ OwnStep /\ UNCHANGED <<quietPolls, consecutivePolls>> /\ pc = "dom" /\ pc' # "dom"
    BY <1>7 DEF ReadDOM, Continue, Return
  <2> QED
    BY <2>1, OwnStepKeeps, RunKept
<1> QED
  BY <1>1, <1>2, <1>3, <1>4, <1>5, <1>6, <1>7 DEF Next, Action

\* config.go:457 is right where one cycle is asked for, which is the default,
\* and where the network is not waited for: nothing then lies between the
\* checks that are counted.  Elsewhere a run shows the opposite.
THEOREM CyclesWhereConsecutive ==
  Spec => [](requestConfig.cycles = 1 \/ requestConfig.disableNetworkWait => CyclesAreConsecutive)
<1>1. Init => RunInv
  BY DEF Init, RunInv
<1>2. WaiterInv /\ RunInv =>
        (requestConfig.cycles = 1 \/ requestConfig.disableNetworkWait => CyclesAreConsecutive)
  <2> SUFFICES ASSUME WaiterInv, RunInv,
                      requestConfig.cycles = 1 \/ requestConfig.disableNetworkWait,
                      result = "ready", mode = "legacy", QueryWait
               PROVE  consecutivePolls = requestConfig.cycles
    BY DEF CyclesAreConsecutive
  <2>1. consecutivePolls \in 0..requestConfig.cycles /\ consecutivePolls >= 1
    BY DEF WaiterInv, WaiterTyping, OwnTyping, RunInv
  <2>2. requestConfig.disableNetworkWait => consecutivePolls = requestConfig.cycles
    BY DEF WaiterInv, LoopInv, QueriesPassed, RunInv
  <2> QED
    BY <2>1, <2>2
<1> QED
  BY <1>1, <1>2, RunNextInv, WaiterInvariant, PTL DEF Spec
=============================================================================
