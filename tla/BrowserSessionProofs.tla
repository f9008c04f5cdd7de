------------------------ MODULE BrowserSessionProofs ------------------------
(***************************************************************************)
(* For any jobs and any height of a page: types, and every safety property *)
(* of the session.                                                         *)
(*                                                                         *)
(* The deferred calls are always the first few of one list, and what there *)
(* is to clean up follows from how many they are, and the root of the      *)
(* sandbox is there as long as its bootstrap runs: that is StackInv.       *)
(* BytesInv follows the page from the wait to the capture, the channel and *)
(* the answer; AnswerInv the cause of a failure from where it is met to    *)
(* the status.  PlaceInv says which action each of the places belongs to.  *)
(***************************************************************************)
EXTENDS BrowserSession, SequenceTheorems, TLAPS

Opening == {"options", "makeDir", "makeDownloadDir", "allocate"}
Middle == {"launch", "run", "scrollWait", "scrollBy", "wait", "resize", "send", "collect",
           "poll", "sleep", "read"}
After == {"unwind", "respond", "done"}

PlaceInv ==
  /\ pc \in Opening \union {"launch"} => action = 1
  /\ pc \in {"scrollWait", "scrollBy"} => job # "csv" /\ action = 13
  /\ pc = "wait" => job # "csv" /\ action \in {14, 15}
  /\ pc = "resize" => job # "csv" /\ action = 15
  /\ pc = "send" => job # "csv" /\ action = 16
  /\ pc = "collect" => job # "csv"
  /\ pc \in {"poll", "sleep", "read"} => job = "csv"

\* The deferred calls in the order in which they are made.
Order == <<"removeDir", "cancelAllocator", "cancelBrowser", "decInstances">>
First(calls, n) == /\ calls \in Seq(Calls)
                   /\ Len(calls) = n
                   /\ \A i \in 1..n : calls[i] = Order[i]

StackInv ==
  /\ pc \in {"options", "makeDir", "respond", "done"} => First(deferred, 0)
  /\ pc \in {"makeDownloadDir", "allocate"} => First(deferred, 1)
  /\ pc \in Middle => First(deferred, 4)
  /\ Len(deferred) \in 0..4 /\ First(deferred, Len(deferred))
  /\ dir = "present" <=> Len(deferred) >= 1
  /\ instances = IF Len(deferred) = 4 THEN 1 ELSE 0
  /\ browser = "running" => Len(deferred) >= 3
  /\ root = "present" => browser = "running"
  /\ browser = "dying" => namespaced

BytesInv ==
  /\ job # "csv" /\ pc = "run" /\ action >= 15 => page = "settled"
  /\ pc = "send" => body = "settled"
  /\ fileChan \in Seq({"settled"})
  /\ pc = "read" => download = "whole"
  /\ outcome = "ok" => body = IF job = "csv" THEN "whole" ELSE "settled"

AnswerInv ==
  /\ pc \notin After => outcome = "none"
  /\ pc \notin After /\ ended => ctxDone \/ crashed
  /\ outcome = "ctx" => ctxDone \/ crashed
  /\ outcome = "timeout" <=> waiter = "timeout"
  /\ status = IF pc = "done" THEN StatusOf(outcome) ELSE 0

SessionInv == TypeOK /\ PlaceInv /\ StackInv /\ BytesInv /\ AnswerInv

-----------------------------------------------------------------------------
(* The two lists of actions.                                               *)

LEMMA RenderList ==
  /\ Len(RenderActions) = 16
  /\ \A i \in 1..16 :
       /\ RenderActions[i] \in Commands => i \in 2..11
       /\ RenderActions[i] = "trackProcess" => i = 1
       /\ RenderActions[i] = "Navigate" => i = 10
       /\ RenderActions[i] = "waitForDuration" => i = 12
       /\ RenderActions[i] = "scrollForElements" => i = 13
       /\ RenderActions[i] = "waitForReady" => i = 14
       /\ RenderActions[i] = "printer.prepare" => i = 15
       /\ RenderActions[i] = "printer.action" => i = 16
<1>1. Len(RenderActions) = 16
  BY DEF RenderActions
<1>2. ASSUME NEW i \in 1..16
      PROVE  /\ RenderActions[i] \in Commands => i \in 2..11
             /\ RenderActions[i] = "trackProcess" => i = 1
             /\ RenderActions[i] = "Navigate" => i = 10
             /\ RenderActions[i] = "waitForDuration" => i = 12
             /\ RenderActions[i] = "scrollForElements" => i = 13
             /\ RenderActions[i] = "waitForReady" => i = 14
             /\ RenderActions[i] = "printer.prepare" => i = 15
             /\ RenderActions[i] = "printer.action" => i = 16
  <2>1. \/ i = 1 \/ i = 2 \/ i = 3 \/ i = 4 \/ i = 5 \/ i = 6 \/ i = 7 \/ i = 8
        \/ i = 9 \/ i = 10 \/ i = 11 \/ i = 12 \/ i = 13 \/ i = 14 \/ i = 15 \/ i = 16
    OBVIOUS
  <2> QED
    BY <2>1 DEF RenderActions, Commands
<1> QED
  BY <1>1, <1>2

LEMMA CSVList ==
  /\ Len(CSVActions) = 6
  /\ \A i \in 1..6 : CSVActions[i] \notin {"waitForDuration", "scrollForElements",
                                 "waitForReady", "printer.prepare", "printer.action"}
<1>1. Len(CSVActions) = 6
  BY DEF CSVActions
<1>2. ASSUME NEW i \in 1..6
      PROVE  CSVActions[i] \notin {"waitForDuration", "scrollForElements",
                                 "waitForReady", "printer.prepare", "printer.action"}
  <2>1. i = 1 \/ i = 2 \/ i = 3 \/ i = 4 \/ i = 5 \/ i = 6
    OBVIOUS
  <2> QED
    BY <2>1 DEF CSVActions
<1> QED
  BY <1>1, <1>2

\* Where the session is among the actions, from the name of the one it does.
LEMMA AtAction ==
  ASSUME TypeOK
  PROVE  /\ Len(Actions) = IF job = "csv" THEN 6 ELSE 16
         /\ action \in Nat /\ 1 <= action /\ action <= Len(Actions)
         /\ Actions[action] \in Commands => job = "csv" \/ action \in 2..11
         /\ Actions[action] = "trackProcess" => job = "csv" \/ action = 1
         /\ Actions[action] = "Navigate" => job = "csv" \/ action = 10
         /\ Actions[action] = "waitForDuration" => job # "csv" /\ action = 12
         /\ Actions[action] = "scrollForElements" => job # "csv" /\ action = 13
         /\ Actions[action] = "waitForReady" => job # "csv" /\ action = 14
         /\ Actions[action] = "printer.prepare" => job # "csv" /\ action = 15
         /\ Actions[action] = "printer.action" => job # "csv" /\ action = 16
<1>1. CASE job = "csv"
  <2>1. Actions = CSVActions
    BY <1>1 DEF Actions
  <2>2. action \in 1..6
    BY <2>1, CSVList DEF TypeOK
  <2> QED
    BY <1>1, <2>1, <2>2, CSVList
<1>2. CASE job # "csv"
  <2>1. Actions = RenderActions
    BY <1>2 DEF Actions
  <2>2. action \in 1..16
    BY <2>1, RenderList DEF TypeOK
  <2> QED
    BY <1>2, <2>1, <2>2, RenderList
<1> QED
  BY <1>1, <1>2

\* An action that is done hands over to the next, or to what follows the list.
LEMMA Advances ==
  ASSUME TypeOK, NextAction
  PROVE  /\ outcome' = outcome
         /\ \/ action' = action + 1 /\ action' <= Len(Actions) /\ pc' = "run"
            \/ /\ action' = action /\ action = Len(Actions)
               /\ pc' = IF job = "csv" THEN "poll" ELSE "collect"
BY AtAction DEF NextAction, GoTo
-----------------------------------------------------------------------------
LEMMA SessionInitInv == Init => SessionInv
<1> SUFFICES ASSUME Init PROVE SessionInv
  OBVIOUS
<1>1. deferred = <<>> /\ deferred \in Seq(Calls) /\ Len(deferred) = 0
  BY DEF Init
<1>2. fileChan \in Seq({"settled"}) /\ fileChan \in Seq({"unsettled", "settled"}) /\ Len(fileChan) <= 1
  BY DEF Init
<1>3. action \in 1..Len(Actions)
  <2>1. Len(Actions) \in {6, 16}
    BY RenderList, CSVList DEF Actions
  <2>2. action = 1 /\ Len(Actions) \in Nat /\ 1 <= Len(Actions)
    BY <2>1 DEF Init
  <2> QED
    BY <2>2
<1>4. scrolls \in 0..MaxScrolls
  BY SessionAssumption DEF Init
<1>5. WaiterTypeOK
  BY DEF Init, WaiterInit, WaiterTypeOK
<1>6. TypeOK
  BY <1>1, <1>2, <1>3, <1>4, <1>5 DEF Init, TypeOK, Places, Outcomes, Directories
<1>7. PlaceInv
  BY DEF Init, PlaceInv, Opening
<1>8. StackInv
  BY <1>1 DEF Init, StackInv, First, Middle
<1>9. BytesInv
  BY <1>2 DEF Init, BytesInv
<1>10. AnswerInv
  BY DEF Init, WaiterInit, AnswerInv
<1> QED
  BY <1>6, <1>7, <1>8, <1>9, <1>10 DEF SessionInv

\* Steps of the client, of the browser and of the page.
LEMMA OutsideStep ==
  ASSUME SessionInv, Surroundings \/ BrowserExits \/ UNCHANGED vars
  PROVE  SessionInv'
<1>1. /\ UNCHANGED <<waiter, mode, job, namespaced, pc, action, scrolls, deferred, outcome,
                     status, dir, instances, page, fileChan, body>>
      /\ \/ UNCHANGED <<browser, root>>
         \/ browser' = "exited" /\ root' \in Removed(root)
         \/ namespaced /\ browser' = "dying" /\ root' = "kept"
         \/ browser = "dying" /\ browser' = "exited" /\ root' = root
  BY DEF Surroundings, RequestEnds, BrowserExits, BrowserDies, BrowserSticks, PageCallsBinding, PageDownloads,
     ContextOver, BindingCalled, vars, waiterVars, sessionVars
<1>2. /\ renderDone' \in BOOLEAN /\ ended' \in BOOLEAN /\ ctxDone' \in BOOLEAN
      /\ stuck' \in BOOLEAN /\ crashed' \in BOOLEAN
  BY DEF SessionInv, TypeOK, WaiterTypeOK, Surroundings, RequestEnds, BrowserExits, BrowserDies, BrowserSticks,
     PageCallsBinding, PageDownloads, ContextOver, BindingCalled, vars, waiterVars, sessionVars
<1>3. download' \in {"none", "partial", "whole"} /\ (download = "whole" => download' = "whole")
  BY DEF SessionInv, TypeOK, Surroundings, RequestEnds, BrowserExits, BrowserDies, BrowserSticks,
     PageCallsBinding, PageDownloads, vars, sessionVars
<1>4. /\ ctxDone \/ crashed => ctxDone' \/ crashed'
      /\ ended' /\ ~ended => ctxDone' \/ crashed'
  <2>1. CASE RequestEnds
    BY <2>1 DEF RequestEnds
  <2>2. CASE BrowserExits
    <3>1. crashed' = (crashed \/ ~ended) /\ ctxDone' = ctxDone
      BY <2>2 DEF BrowserExits
    <3> QED
      BY <3>1, Zenon
  <2>3. CASE ~RequestEnds /\ ~BrowserExits
    <3>1. UNCHANGED <<ctxDone, crashed, ended>>
      BY <2>3 DEF Surroundings, BrowserDies, BrowserSticks, PageCallsBinding, PageDownloads, BindingCalled,
         vars, waiterVars, sessionVars
    <3> QED
      BY <3>1
  <2> QED
    BY <2>1, <2>2, <2>3
<1>5. TypeOK'
  BY <1>1, <1>2, <1>3 DEF SessionInv, TypeOK, WaiterTypeOK, Actions, Removed,
     Directories
<1>6. PlaceInv'
  BY <1>1 DEF SessionInv, PlaceInv
<1>7. StackInv'
  BY <1>1 DEF SessionInv, StackInv, First, Removed
<1>8. BytesInv'
  BY <1>1, <1>3 DEF SessionInv, BytesInv
<1>9. AnswerInv'
  BY <1>1, <1>4 DEF SessionInv, AnswerInv
<1> QED
  BY <1>5, <1>6, <1>7, <1>8, <1>9 DEF SessionInv
-----------------------------------------------------------------------------
(* The start of the session: what is made is put on the list of calls.     *)

\* A deferred call is the next of the list.
LEMMA Pushes ==
  ASSUME NEW n \in 0..3, NEW calls, First(calls, n)
  PROVE  First(Append(calls, Order[n + 1]), n + 1)
<1>1. Order[n + 1] \in Calls
  <2>1. n = 0 \/ n = 1 \/ n = 2 \/ n = 3
    OBVIOUS
  <2> QED
    BY <2>1 DEF Order, Calls
<1>2. calls \in Seq(Calls) /\ Len(calls) = n /\ \A i \in 1..n : calls[i] = Order[i]
  BY DEF First
<1>3. /\ Append(calls, Order[n + 1]) \in Seq(Calls)
      /\ Len(Append(calls, Order[n + 1])) = n + 1
      /\ Append(calls, Order[n + 1])[n + 1] = Order[n + 1]
      /\ \A i \in 1..n : Append(calls, Order[n + 1])[i] = calls[i]
  BY <1>1, <1>2, AppendProperties
<1>4. \A i \in 1..(n + 1) : i = n + 1 \/ i \in 1..n
  OBVIOUS
<1> QED
  BY <1>2, <1>3, <1>4 DEF First

LEMMA OptionsStep ==
  ASSUME SessionInv, ApplyOptions \/ MakeDownloadDir
  PROVE  SessionInv'
<1>1. /\ UNCHANGED <<waiter, mode, renderDone, ended, World, Rest>> /\ action' = action
      /\ pc \in {"options", "makeDownloadDir"}
  BY DEF ApplyOptions, MakeDownloadDir, GoTo, Return, waiterVars
<1>2. \/ pc = "options" /\ pc' = "makeDir" /\ outcome' = outcome
      \/ pc = "makeDownloadDir" /\ pc' = "allocate" /\ outcome' = outcome
      \/ pc' = "unwind" /\ outcome' \in {"failed", "invalid"}
  BY DEF ApplyOptions, MakeDownloadDir, GoTo, Return
<1>3. TypeOK'
  BY <1>1, <1>2 DEF SessionInv, TypeOK, WaiterTypeOK, Actions, Places, Outcomes, World, Rest
<1>4. PlaceInv'
  BY <1>1, <1>2 DEF SessionInv, PlaceInv, Opening
<1>5. StackInv'
  BY <1>1, <1>2 DEF SessionInv, StackInv, First, Middle, World, Rest
<1>6. BytesInv'
  BY <1>1, <1>2 DEF SessionInv, BytesInv, World, Rest, AnswerInv, After
<1>7. AnswerInv'
  BY <1>1, <1>2 DEF SessionInv, AnswerInv, After, World, Rest
<1> QED
  BY <1>3, <1>4, <1>5, <1>6, <1>7 DEF SessionInv

LEMMA MakeDirStep ==
  ASSUME SessionInv, MakeDir
  PROVE  SessionInv'
<1>1. /\ UNCHANGED <<waiter, mode, renderDone, ended, root, instances, browser, stuck, page,
                     download, fileChan, body, crashed, job, namespaced, status, ctxDone,
                     scrolls, action>>
      /\ pc = "makeDir" /\ First(deferred, 0) /\ outcome = "none"
  BY DEF MakeDir, GoTo, Return, waiterVars, SessionInv, StackInv, AnswerInv, After
<1>2. /\ dir # "present" /\ instances = 0 /\ browser # "running"
      /\ root # "present" /\ (browser = "dying" => namespaced)
      /\ deferred \in Seq(Calls) /\ Len(deferred) = 0
  BY <1>1 DEF SessionInv, StackInv, First
<1>3. pc' \in {"makeDownloadDir", "allocate", "unwind"} /\ outcome' \in {"none", "failed"}
  BY <1>1 DEF MakeDir, GoTo, Return
<1>4. \/ /\ pc' \in {"makeDownloadDir", "allocate"} /\ outcome' = "none"
         /\ dir' = "present" /\ First(deferred', 1)
      \/ /\ pc' = "unwind" /\ outcome' = "failed"
         /\ dir' = dir /\ deferred' = deferred
  <2>1. First(Append(deferred, Order[0 + 1]), 0 + 1) /\ Order[0 + 1] = "removeDir" /\ 0 + 1 = 1
    BY <1>1, Pushes DEF Order
  <2>2. First(Append(deferred, "removeDir"), 1)
    BY <2>1
  <2> QED
    BY <1>1, <2>2 DEF MakeDir, GoTo, Return, Defer
<1>5. dir' \in Directories /\ deferred' \in Seq(Calls)
  <2>1. dir \in Directories /\ "present" \in Directories
    BY DEF SessionInv, TypeOK, Directories
  <2> QED
    BY <1>2, <1>4, <2>1 DEF First
<1>6. TypeOK'
  BY <1>1, <1>3, <1>5 DEF SessionInv, TypeOK, WaiterTypeOK, Actions, Places, Outcomes
<1>7. PlaceInv'
  BY <1>1, <1>3 DEF SessionInv, PlaceInv, Opening
<1>8. StackInv'
  <2>1. CASE dir' = "present" /\ First(deferred', 1) /\ pc' \in {"makeDownloadDir", "allocate"}
    BY <1>1, <1>2, <2>1 DEF StackInv, First, Middle
  <2>2. CASE dir' = dir /\ deferred' = deferred /\ pc' = "unwind"
    BY <1>1, <1>2, <2>2 DEF StackInv, First, Middle
  <2> QED
    BY <1>4, <2>1, <2>2
<1>9. BytesInv'
  BY <1>1, <1>3 DEF SessionInv, BytesInv
<1>10. AnswerInv'
  BY <1>1, <1>3, <1>4 DEF SessionInv, AnswerInv, After
<1> QED
  BY <1>6, <1>7, <1>8, <1>9, <1>10 DEF SessionInv

LEMMA AllocateStep ==
  ASSUME SessionInv, Allocate
  PROVE  SessionInv'
<1> DEFINE one == Append(deferred, "cancelAllocator")
<1> DEFINE two == Append(one, "cancelBrowser")
<1>1. /\ UNCHANGED <<waiter, mode, renderDone, ended, dir, root, browser, stuck, page, download,
                     fileChan, body, crashed, job, namespaced, status, ctxDone, scrolls, action,
                     outcome>>
      /\ pc = "allocate" /\ pc' = "launch" /\ instances' = instances + 1
      /\ deferred' = Append(two, "decInstances")
      /\ First(deferred, 1)
  BY DEF Allocate, Defer, GoTo, waiterVars, SessionInv, StackInv
<1>2. First(deferred', 4)
  <2>1. First(one, 2)
    BY <1>1, Pushes DEF Order
  <2>2. First(two, 3)
    BY <2>1, Pushes DEF Order
  <2> QED
    BY <1>1, <2>2, Pushes DEF Order
<1>3. /\ instances' = 1 /\ dir' = "present" /\ browser' # "running"
      /\ root' # "present" /\ (browser' = "dying" => namespaced')
  BY <1>1 DEF SessionInv, StackInv, First
<1>4. TypeOK'
  BY <1>1, <1>2, <1>3 DEF SessionInv, TypeOK, WaiterTypeOK, Actions, Places, First
<1>5. PlaceInv'
  BY <1>1 DEF SessionInv, PlaceInv, Opening
<1>6. StackInv'
  BY <1>1, <1>2, <1>3 DEF StackInv, First, Middle
<1>7. BytesInv'
  BY <1>1 DEF SessionInv, BytesInv
<1>8. AnswerInv'
  BY <1>1 DEF SessionInv, AnswerInv, After
<1> QED
  BY <1>4, <1>5, <1>6, <1>7, <1>8 DEF SessionInv
LEMMA LaunchStep ==
  ASSUME SessionInv, Launch
  PROVE  SessionInv'
<1>1. /\ UNCHANGED <<waiter, mode, renderDone, ended, dir, instances, stuck, page, download,
                     fileChan, body, crashed, job, namespaced, status, ctxDone, scrolls,
                     deferred, action>>
      /\ pc = "launch" /\ outcome = "none" /\ First(deferred, 4) /\ action = 1
  BY DEF Launch, GoTo, Return, waiterVars, Rest, SessionInv, StackInv, AnswerInv, PlaceInv, Middle,
     After
<1>2. /\ \/ browser' = "running" /\ root' \in {"absent", "present"}
         \/ browser' = "absent" /\ root' \in {"absent", "kept"}
      /\ \/ pc' = "run" /\ outcome' = "none"
         \/ pc' = "unwind" /\ outcome' \in {"failed", "deadline"}
         \/ pc' = "unwind" /\ outcome' = "ctx" /\ ended
  BY <1>1 DEF Launch, Started, NotStarted, GoTo, Return, ActionDone
<1>3. TypeOK'
  BY <1>1, <1>2 DEF SessionInv, TypeOK, WaiterTypeOK, Actions, Places, Outcomes, Directories
<1>4. PlaceInv'
  BY <1>1, <1>2 DEF PlaceInv, Opening
<1>5. StackInv'
  BY <1>1, <1>2 DEF SessionInv, StackInv, First, Middle
<1>6. BytesInv'
  BY <1>1, <1>2 DEF SessionInv, BytesInv
<1>7. AnswerInv'
  BY <1>1, <1>2 DEF SessionInv, AnswerInv, After
<1> QED
  BY <1>3, <1>4, <1>5, <1>6, <1>7 DEF SessionInv

-----------------------------------------------------------------------------
(* The actions and what follows them, up to the return.                    *)

\* The control of a step between the launch and the return, whatever it does
\* to the page and the bytes.
Moves ==
  /\ pc \in Middle
  /\ action' \in 1..Len(Actions)
  /\ \/ pc' \in Middle /\ outcome' = outcome
     \/ pc' = "unwind" /\ outcome' \in {"failed", "panic"}
     \/ pc' = "unwind" /\ outcome' = "ctx" /\ (ended \/ ctxDone)

\* What it keeps by its control alone.
LEMMA MoveControl ==
  ASSUME SessionInv, Moves,
         UNCHANGED <<dir, root, instances, browser, crashed, job, namespaced, status, ctxDone,
                     deferred, ended>>
  PROVE  /\ StackInv'
         /\ pc' \in Places /\ outcome' \in Outcomes /\ action' \in 1..Len(Actions')
         /\ (waiter' # "timeout") => AnswerInv'
<1>1. pc \in Middle /\ outcome = "none"
  BY DEF Moves, SessionInv, AnswerInv, Middle, After
<1>2. pc' \in Middle \union {"unwind"} /\ outcome' \in {"none", "ctx", "failed", "panic"}
  BY <1>1 DEF Moves
<1>3. pc' \in Places /\ outcome' \in Outcomes /\ action' \in 1..Len(Actions')
  BY <1>2 DEF Middle, Places, Outcomes, Actions, Moves
<1>4. StackInv'
  BY <1>1, <1>2 DEF SessionInv, StackInv, First, Middle
<1>5. ASSUME waiter' # "timeout" PROVE AnswerInv'
  <2>1. pc \notin After /\ pc' # "done"
    BY <1>1, <1>2 DEF Middle, After
  <2>2. outcome' = "ctx" => ctxDone \/ crashed
    BY <1>1, <2>1 DEF SessionInv, AnswerInv, Moves
  <2>3. pc' \notin After => outcome' = "none"
    BY <1>1 DEF Moves, After
  <2>4. ended => ctxDone \/ crashed
    BY <2>1 DEF SessionInv, AnswerInv
  <2>5. outcome' # "timeout" /\ status' = 0
    BY <1>1, <1>2 DEF SessionInv, AnswerInv, Middle
  <2> QED
    BY <1>5, <2>1, <2>2, <2>3, <2>4, <2>5 DEF AnswerInv
<1> QED
  BY <1>3, <1>4, <1>5

\* Such a step, if it also leaves page and bytes alone.
LEMMA MoveKeeps ==
  ASSUME SessionInv, Moves, PlaceInv',
         UNCHANGED <<World, job, namespaced, status, ctxDone, deferred, ended>>,
         scrolls' \in 0..MaxScrolls, WaiterTypeOK',
         waiter' = waiter \/ (waiter = "registered" /\ waiter' = "waiting"),
         job # "csv" /\ pc' = "run" /\ action' >= 15 => page = "settled",
         pc' # "send", pc' = "read" => download = "whole"
  PROVE  SessionInv'
<1>1. /\ UNCHANGED <<dir, root, instances, browser, stuck, page, download, fileChan, body,
                     crashed, job, namespaced, status, ctxDone, deferred, ended>>
      /\ pc \in Middle /\ outcome = "none"
  BY DEF World, Moves, SessionInv, AnswerInv, Middle, After
<1>2. pc' \in Middle \union {"unwind"} /\ outcome' \in {"none", "ctx", "failed", "panic"}
  BY <1>1 DEF Moves
<1>3. /\ StackInv'
      /\ pc' \in Places /\ outcome' \in Outcomes /\ action' \in 1..Len(Actions')
      /\ waiter' # "timeout" => AnswerInv'
  BY <1>1, MoveControl
<1>4. TypeOK'
  BY <1>1, <1>3 DEF SessionInv, TypeOK
<1>5. BytesInv'
  BY <1>1, <1>2 DEF SessionInv, BytesInv
<1>6. AnswerInv'
  BY <1>1, <1>3 DEF SessionInv, AnswerInv
<1> QED
  BY <1>3, <1>4, <1>5, <1>6 DEF SessionInv

\* What NextAction does to the control, by where in the list it is.
LEMMA AdvanceMoves ==
  ASSUME SessionInv, NextAction, pc \in Middle
  PROVE  /\ Moves
         /\ \/ pc' = "run" /\ action' = action + 1
            \/ pc' = "poll" /\ job = "csv"
            \/ pc' = "collect" /\ job # "csv" /\ action = 16
<1>1. TypeOK
  BY DEF SessionInv
<1>2. action' \in 1..Len(Actions)
  BY <1>1, AtAction, Advances
<1>3. pc' \in Middle /\ outcome' = outcome
  BY <1>1, Advances DEF Middle
<1>4. \/ pc' = "run" /\ action' = action + 1
      \/ pc' = "poll" /\ job = "csv"
      \/ pc' = "collect" /\ job # "csv" /\ action = 16
  BY <1>1, AtAction, Advances
<1> QED
  BY <1>2, <1>3, <1>4 DEF Moves

LEMMA FailureMoves ==
  ASSUME SessionInv, CommandFails, pc \in Middle
  PROVE  Moves /\ pc' = "unwind" /\ action' = action
<1>1. action \in 1..Len(Actions)
  BY DEF SessionInv, TypeOK
<1> QED
  BY <1>1 DEF CommandFails, Return, ActionDone, Moves

\* The commands that only have to be answered, and the wait before scrolling.
LEMMA PlainStep ==
  ASSUME SessionInv, TrackProcess \/ Command \/ PriorWait \/ Panic
  PROVE  SessionInv'
<1>1. /\ UNCHANGED <<waiterVars, World, Rest>> /\ pc = "run" /\ pc \in Middle
      /\ TypeOK
  BY DEF TrackProcess, Command, PriorWait, Panic, Doing, Middle, SessionInv
<1>2. \/ Moves /\ pc' = "unwind"
      \/ /\ NextAction
         /\ \/ Actions[action] \in Commands
            \/ Actions[action] = "trackProcess"
            \/ Actions[action] = "waitForDuration"
  <2>1. action \in 1..Len(Actions)
    BY <1>1 DEF TypeOK
  <2>2. CASE TrackProcess
    BY <2>2 DEF TrackProcess, Doing
  <2>3. CASE Command
    BY <1>1, <2>3, FailureMoves DEF Command
  <2>4. CASE PriorWait
    BY <1>1, <2>1, <2>4 DEF PriorWait, Doing, Return, ActionDone, Moves
  <2>5. CASE Panic
    BY <1>1, <2>1, <2>5 DEF Panic, Return, Moves
  <2> QED
    BY <2>2, <2>3, <2>4, <2>5
<1>3. /\ Moves
      /\ \/ pc' = "unwind"
         \/ pc' = "poll" /\ job = "csv"
         \/ pc' = "run" /\ (job = "csv" \/ action' <= 13)
  <2>1. CASE NextAction /\ ~(pc' = "unwind")
    <3>1. job = "csv" \/ action <= 12
      BY <1>1, <1>2, <2>1, AtAction
    <3>2. /\ Moves
          /\ \/ pc' = "run" /\ action' = action + 1
             \/ pc' = "poll" /\ job = "csv"
             \/ pc' = "collect" /\ job # "csv" /\ action = 16
      BY <1>1, <2>1, AdvanceMoves
    <3>3. action \in Nat
      BY <1>1, AtAction
    <3> QED
      BY <3>1, <3>2, <3>3
  <2>2. CASE pc' = "unwind"
    BY <1>1, <1>2, <2>2, AdvanceMoves
  <2> QED
    BY <1>2, <2>1, <2>2
<1>4. PlaceInv'
  BY <1>1, <1>3 DEF PlaceInv, Opening, Rest
<1>5. /\ UNCHANGED <<World, job, namespaced, status, ctxDone, deferred, ended, waiter>>
      /\ scrolls' \in 0..MaxScrolls /\ WaiterTypeOK'
  BY <1>1 DEF Rest, waiterVars, TypeOK, WaiterTypeOK
<1>6. /\ job # "csv" /\ pc' = "run" /\ action' >= 15 => page = "settled"
      /\ pc' # "send" /\ pc' # "read"
  <2>1. action' \in Nat
    BY <1>3 DEF Moves
  <2> QED
    BY <1>3, <2>1
<1> QED
  BY <1>3, <1>4, <1>5, <1>6, MoveKeeps

LEMMA ScrollStep ==
  ASSUME SessionInv, MeasureScrolls \/ ScrollWait \/ ScrollBy
  PROVE  SessionInv'
<1>1. /\ UNCHANGED <<waiterVars, World, job, namespaced, status, ctxDone, deferred>>
      /\ pc \in {"run", "scrollWait", "scrollBy"} /\ pc \in Middle
      /\ job # "csv" /\ action = 13
      /\ TypeOK
  <2>1. TypeOK /\ PlaceInv
    BY DEF SessionInv
  <2>2. CASE MeasureScrolls
    BY <2>1, <2>2, AtAction DEF MeasureScrolls, Doing, Middle
  <2>3. CASE ScrollWait \/ ScrollBy
    BY <2>1, <2>3 DEF ScrollWait, ScrollBy, PlaceInv, Middle, Rest
  <2> QED
    BY <2>2, <2>3
<1>2. scrolls' \in 0..MaxScrolls
  BY <1>1, SessionAssumption DEF TypeOK, MeasureScrolls, ScrollWait, ScrollBy, Rest
<1>3. \/ NextAction
      \/ Moves /\ action' = action /\ pc' \in {"scrollWait", "scrollBy", "unwind"}
  <2>1. action \in 1..Len(Actions)
    BY <1>1 DEF TypeOK
  <2>2. CASE MeasureScrolls
    BY <1>1, <2>1, <2>2, FailureMoves DEF MeasureScrolls, GoTo, Moves, Middle
  <2>3. CASE ScrollWait
    BY <1>1, <2>1, <2>3 DEF ScrollWait, GoTo, Return, ActionDone, Moves, Middle
  <2>4. CASE ScrollBy
    BY <1>1, <2>1, <2>4, FailureMoves DEF ScrollBy, GoTo, Moves, Middle
  <2> QED
    BY <2>2, <2>3, <2>4
<1>4. /\ Moves
      /\ \/ action' = 13 /\ pc' \in {"scrollWait", "scrollBy", "unwind"}
         \/ action' = 14 /\ pc' = "run"
  BY <1>1, <1>3, AdvanceMoves
<1>5. PlaceInv'
  BY <1>1, <1>4 DEF PlaceInv, Opening
<1>6. UNCHANGED <<World, job, namespaced, status, ctxDone, deferred, ended,
                  waiter>> /\ WaiterTypeOK'
  BY <1>1 DEF waiterVars, TypeOK, WaiterTypeOK
<1> QED
  BY <1>2, <1>4, <1>5, <1>6, MoveKeeps
LEMMA WaitStep ==
  ASSUME SessionInv, BeginWait \/ WaitMode
  PROVE  SessionInv'
<1>1. /\ UNCHANGED <<World, job, namespaced, status, ctxDone, deferred, ended, scrolls, action,
                     outcome>>
      /\ pc' = "wait" /\ pc \in Middle /\ job # "csv" /\ action \in {14, 15}
      /\ waiter' = waiter \/ (waiter = "registered" /\ waiter' = "waiting")
      /\ TypeOK
  <2>1. TypeOK /\ PlaceInv
    BY DEF SessionInv
  <2>2. CASE BeginWait
    BY <2>1, <2>2, AtAction DEF BeginWait, Begin, GoTo, Doing, Middle, Rest
  <2>3. CASE WaitMode
    BY <2>1, <2>3 DEF WaitMode, ChooseHow, PlaceInv, Middle, World, sessionVars
  <2> QED
    BY <2>2, <2>3
<1>2. WaiterTypeOK'
  BY <1>1 DEF TypeOK, WaiterTypeOK, BeginWait, WaitMode, Begin, ChooseHow
<1>3. Moves
  BY <1>1 DEF Moves, Middle, TypeOK
<1>4. PlaceInv'
  BY <1>1 DEF PlaceInv, Opening
<1>5. scrolls' \in 0..MaxScrolls
  BY <1>1 DEF TypeOK
<1> QED
  BY <1>1, <1>2, <1>3, <1>4, <1>5, MoveKeeps

LEMMA PrepareStep ==
  ASSUME SessionInv, Prepare
  PROVE  SessionInv'
<1>1. /\ UNCHANGED <<waiterVars, World, Rest>> /\ pc = "run" /\ pc \in Middle
      /\ job # "csv" /\ action = 15 /\ page = "settled" /\ TypeOK
  <2>1. TypeOK /\ BytesInv
    BY DEF SessionInv
  <2>2. /\ UNCHANGED <<waiterVars, World, Rest>> /\ pc = "run" /\ pc \in Middle
        /\ job # "csv" /\ action = 15
    BY <2>1, AtAction DEF Prepare, Doing, Middle
  <2> QED
    BY <2>1, <2>2 DEF BytesInv
<1>2. \/ NextAction
      \/ Moves /\ action' = action /\ pc' \in {"resize", "unwind"}
  <2>1. action \in 1..Len(Actions)
    BY <1>1 DEF TypeOK
  <2> QED
    BY <1>1, <2>1, FailureMoves DEF Prepare, GoTo, Moves, Middle
<1>3. /\ Moves
      /\ \/ action' = 15 /\ pc' \in {"resize", "unwind"}
         \/ action' = 16 /\ pc' = "run"
  BY <1>1, <1>2, AdvanceMoves
<1>4. PlaceInv'
  BY <1>1, <1>3 DEF PlaceInv, Opening, Rest
<1>5. /\ UNCHANGED <<World, job, namespaced, status, ctxDone, deferred, ended, waiter>>
      /\ WaiterTypeOK' /\ scrolls' \in 0..MaxScrolls
  BY <1>1 DEF waiterVars, Rest, TypeOK, WaiterTypeOK
<1> QED
  BY <1>1, <1>3, <1>4, <1>5, MoveKeeps

\* The poll of the directory reads a file only when it is all there.
LEMMA PollStep ==
  ASSUME SessionInv, Poll \/ Sleep
  PROVE  SessionInv'
<1>1. /\ UNCHANGED <<waiterVars, World, Rest>> /\ pc \in {"poll", "sleep"} /\ pc \in Middle
      /\ job = "csv" /\ action \in 1..Len(Actions) /\ TypeOK
  BY DEF Poll, Sleep, Middle, SessionInv, PlaceInv, TypeOK
<1>2. /\ Moves /\ action' = action /\ pc' \in {"poll", "sleep", "read", "unwind"}
      /\ pc' = "read" => download = "whole"
  <2>1. CASE Poll
    BY <1>1, <2>1 DEF Poll, Interrupted, EndsInCSV, GoTo, Return, Moves, Middle
  <2>2. CASE Sleep
    BY <1>1, <2>2 DEF Sleep, Interrupted, GoTo, Return, Moves, Middle
  <2> QED
    BY <2>1, <2>2
<1>3. PlaceInv'
  BY <1>1, <1>2 DEF PlaceInv, Opening, Rest
<1>4. /\ UNCHANGED <<World, job, namespaced, status, ctxDone, deferred, ended, waiter>>
      /\ WaiterTypeOK' /\ scrolls' \in 0..MaxScrolls
  BY <1>1 DEF waiterVars, Rest, TypeOK, WaiterTypeOK
<1> QED
  BY <1>1, <1>2, <1>3, <1>4, MoveKeeps

-----------------------------------------------------------------------------
(* The steps that change the page or the bytes.                            *)

LEMMA NavigateStep ==
  ASSUME SessionInv, Navigate
  PROVE  SessionInv'
<1>1. /\ UNCHANGED <<waiterVars, dir, root, instances, browser, stuck, download, fileChan, body,
                     crashed, Rest>>
      /\ pc = "run" /\ pc \in Middle /\ (job = "csv" \/ action = 10)
      /\ outcome = "none" /\ waiter # "timeout" /\ TypeOK
  BY AtAction DEF Navigate, Doing, Middle, SessionInv, AnswerInv, After
<1>2. page' \in {page, "unsettled"}
  BY DEF Navigate
<1>3. /\ Moves
      /\ \/ pc' = "unwind"
         \/ pc' = "poll" /\ job = "csv"
         \/ pc' = "run" /\ (job = "csv" \/ action' = 11)
  <2>1. CASE NextAction
    BY <1>1, <2>1, AdvanceMoves
  <2>2. CASE CommandFails
    BY <1>1, <2>2, FailureMoves
  <2> QED
    BY <2>1, <2>2 DEF Navigate
<1>4. /\ StackInv' /\ AnswerInv'
      /\ pc' \in Places /\ outcome' \in Outcomes /\ action' \in 1..Len(Actions')
  BY <1>1, <1>3, MoveControl DEF Rest, waiterVars
<1>5. TypeOK'
  BY <1>1, <1>2, <1>4 DEF TypeOK, WaiterTypeOK, Rest, waiterVars
<1>6. PlaceInv'
  BY <1>1, <1>3 DEF PlaceInv, Opening, Rest
<1>7. BytesInv'
  BY <1>1, <1>3 DEF SessionInv, BytesInv, Moves, Rest
<1> QED
  BY <1>4, <1>5, <1>6, <1>7 DEF SessionInv
LEMMA EndWaitStep ==
  ASSUME SessionInv, NEW result \in {"ready", "timeout", "ctx", "error"}, EndWait(result)
  PROVE  SessionInv'
<1>1. /\ UNCHANGED <<dir, root, instances, browser, stuck, download, fileChan, body, crashed,
                     Rest, mode, renderDone, ended>>
      /\ pc = "wait" /\ pc \in Middle /\ job # "csv" /\ action \in {14, 15}
      /\ outcome = "none" /\ waiter' = result /\ TypeOK
  BY DEF EndWait, Finish, Middle, SessionInv, PlaceInv, AnswerInv, After
<1>2. action \in 1..Len(Actions)
  BY <1>1 DEF TypeOK
<1>3. CASE result = "timeout"
  <2>1. page' = page /\ pc' = "unwind" /\ outcome' = "timeout" /\ action' = action
    BY <1>3 DEF EndWait, Return
  <2>2. TypeOK'
    BY <1>1, <1>3, <2>1 DEF TypeOK, WaiterTypeOK, Results, Actions, Places, Outcomes, Rest
  <2>3. PlaceInv'
    BY <2>1 DEF PlaceInv, Opening
  <2>4. StackInv'
    BY <1>1, <2>1 DEF SessionInv, StackInv, First, Middle, Rest
  <2>5. BytesInv'
    BY <1>1, <2>1 DEF SessionInv, BytesInv
  <2>6. AnswerInv'
    BY <1>1, <1>3, <2>1 DEF SessionInv, AnswerInv, After, Rest
  <2> QED
    BY <2>2, <2>3, <2>4, <2>5, <2>6 DEF SessionInv
<1>4. CASE result # "timeout"
  <2>1. /\ Moves /\ page' \in {page, "settled"}
        /\ \/ action' = action /\ pc' = "unwind"
           \/ action' \in {15, 16} /\ pc' = "run" /\ page' = "settled"
    <3>1. CASE result = "ready"
      BY <1>1, <3>1, AdvanceMoves DEF EndWait
    <3>2. CASE result # "ready"
      BY <1>1, <1>2, <1>4, <3>2 DEF EndWait, Return, ActionDone, Moves
    <3> QED
      BY <3>1, <3>2
  <2>2. /\ StackInv' /\ AnswerInv'
        /\ pc' \in Places /\ outcome' \in Outcomes /\ action' \in 1..Len(Actions')
    BY <1>1, <1>4, <2>1, MoveControl DEF Rest
  <2>3. TypeOK'
    BY <1>1, <2>1, <2>2 DEF TypeOK, WaiterTypeOK, Results, Rest
  <2>4. PlaceInv'
    BY <1>1, <2>1 DEF PlaceInv, Opening, Rest
  <2>5. BytesInv'
    BY <1>1, <2>1 DEF SessionInv, BytesInv, Moves, Rest
  <2> QED
    BY <2>2, <2>3, <2>4, <2>5 DEF SessionInv
<1> QED
  BY <1>3, <1>4

LEMMA ResizeStep ==
  ASSUME SessionInv, Resize
  PROVE  SessionInv'
<1>1. /\ UNCHANGED <<ended, dir, root, instances, browser, stuck, download, fileChan, body,
                     crashed, Rest>>
      /\ pc = "resize" /\ pc \in Middle /\ job # "csv" /\ action = 15
      /\ outcome = "none" /\ waiter # "timeout" /\ TypeOK
  BY DEF Resize, Middle, SessionInv, PlaceInv, AnswerInv, After
<1>2. /\ page' \in {page, "unsettled"} /\ waiter' \in {waiter, "waiting"}
      /\ mode' \in {mode, "unknown"} /\ renderDone' \in {renderDone, FALSE}
  BY DEF Resize
<1>3. Moves /\ action' = action /\ pc' \in {"wait", "unwind"}
  <2>1. action \in 1..Len(Actions)
    BY <1>1 DEF TypeOK
  <2> QED
    BY <1>1, <2>1, FailureMoves DEF Resize, GoTo, Moves, Middle
<1>4. /\ StackInv' /\ AnswerInv'
      /\ pc' \in Places /\ outcome' \in Outcomes /\ action' \in 1..Len(Actions')
  BY <1>1, <1>2, <1>3, MoveControl DEF Rest
<1>5. WaiterTypeOK'
  <2>1. renderDone' \in BOOLEAN
    BY <1>1 DEF Resize, TypeOK, WaiterTypeOK
  <2>2. waiter' \in {"registered", "waiting"} \union Results /\ mode' \in {"unknown", "binding", "legacy"}
    BY <1>1, <1>2 DEF TypeOK, WaiterTypeOK
  <2> QED
    BY <1>1, <2>1, <2>2 DEF TypeOK, WaiterTypeOK
<1>6. TypeOK'
  BY <1>1, <1>2, <1>4, <1>5 DEF TypeOK, Rest
<1>7. PlaceInv'
  BY <1>1, <1>3 DEF PlaceInv, Opening, Rest
<1>8. BytesInv'
  BY <1>1, <1>3 DEF SessionInv, BytesInv, Moves, Rest
<1> QED
  BY <1>4, <1>6, <1>7, <1>8 DEF SessionInv

\* The page captured is settled, and so is what goes through the channel.
LEMMA CaptureStep ==
  ASSUME SessionInv, Capture
  PROVE  SessionInv'
<1>1. /\ UNCHANGED <<waiterVars, dir, root, instances, browser, stuck, page, download, fileChan,
                     crashed, Rest>>
      /\ pc = "run" /\ pc \in Middle /\ job # "csv" /\ action = 16
      /\ outcome = "none" /\ waiter # "timeout" /\ TypeOK /\ page = "settled"
  <2>1. TypeOK /\ BytesInv /\ outcome = "none" /\ waiter # "timeout" /\ pc = "run"
    BY DEF Capture, Doing, SessionInv, AnswerInv, After
  <2>2. job # "csv" /\ action = 16
    BY <2>1, AtAction DEF Capture, Doing
  <2> QED
    BY <2>1, <2>2 DEF Capture, Middle, BytesInv
<1>2. /\ Moves /\ action' = action
      /\ \/ pc' = "unwind" /\ body' = body
         \/ pc' = "send" /\ body' = "settled"
  <2>1. action \in 1..Len(Actions)
    BY <1>1 DEF TypeOK
  <2> QED
    BY <1>1, <2>1, FailureMoves DEF Capture, GoTo, Moves, Middle
<1>3. /\ StackInv' /\ AnswerInv'
      /\ pc' \in Places /\ outcome' \in Outcomes /\ action' \in 1..Len(Actions')
  BY <1>1, <1>2, MoveControl DEF Rest, waiterVars
<1>4. TypeOK'
  BY <1>1, <1>2, <1>3 DEF TypeOK, WaiterTypeOK, Rest, waiterVars
<1>5. PlaceInv'
  BY <1>1, <1>2 DEF PlaceInv, Opening, Rest
<1>6. BytesInv'
  BY <1>1, <1>2 DEF SessionInv, BytesInv, Moves, Rest
<1> QED
  BY <1>3, <1>4, <1>5, <1>6 DEF SessionInv

LEMMA SendStep ==
  ASSUME SessionInv, Send
  PROVE  SessionInv'
<1>1. /\ UNCHANGED <<waiterVars, dir, root, instances, browser, stuck, page, download, body,
                     crashed, Rest>>
      /\ pc = "send" /\ pc \in Middle /\ job # "csv" /\ action = 16 /\ body = "settled"
      /\ outcome = "none" /\ waiter # "timeout" /\ TypeOK
  BY DEF Send, Middle, SessionInv, PlaceInv, BytesInv, AnswerInv, After
<1>2. Moves /\ pc' = "collect"
  <2>1. /\ Moves
        /\ \/ pc' = "run" /\ action' = action + 1
           \/ pc' = "collect"
    BY <1>1, AdvanceMoves DEF Send
  <2>2. Len(Actions) = 16 /\ action' \in 1..Len(Actions)
    BY <1>1, <2>1, AtAction DEF Moves
  <2> QED
    BY <1>1, <2>1, <2>2
<1>3. /\ fileChan' \in Seq({"settled"}) /\ fileChan' \in Seq({"unsettled", "settled"})
      /\ Len(fileChan') <= 1
  <2>1. /\ fileChan \in Seq({"settled"}) /\ fileChan \in Seq({"unsettled", "settled"})
        /\ Len(fileChan) < 1 /\ fileChan' = Append(fileChan, "settled")
    BY <1>1 DEF Send, SessionInv, BytesInv, TypeOK
  <2> QED
    BY <2>1
<1>4. /\ StackInv' /\ AnswerInv'
      /\ pc' \in Places /\ outcome' \in Outcomes /\ action' \in 1..Len(Actions')
  BY <1>1, <1>2, MoveControl DEF Rest, waiterVars
<1>5. TypeOK'
  BY <1>1, <1>3, <1>4 DEF TypeOK, WaiterTypeOK, Rest, waiterVars
<1>6. PlaceInv'
  BY <1>1, <1>2 DEF PlaceInv, Opening, Rest
<1>7. BytesInv'
  BY <1>1, <1>2, <1>3 DEF SessionInv, BytesInv, Moves, Rest
<1> QED
  BY <1>4, <1>5, <1>6, <1>7 DEF SessionInv

\* The two ways to have bytes to answer with.
LEMMA BytesStep ==
  ASSUME SessionInv, Collect \/ ReadFile
  PROVE  SessionInv'
<1>1. /\ UNCHANGED <<waiterVars, dir, root, instances, browser, stuck, page, download, crashed,
                     Rest>>
      /\ pc \in Middle /\ pc' = "unwind" /\ action' = action
      /\ outcome = "none" /\ waiter # "timeout" /\ TypeOK
  BY DEF Collect, ReadFile, Return, Middle, SessionInv, AnswerInv, After
<1>2. fileChan \in Seq({"settled"}) /\ fileChan \in Seq({"unsettled", "settled"}) /\ Len(fileChan) <= 1
  BY DEF SessionInv, BytesInv, TypeOK
<1>3. /\ fileChan' \in Seq({"settled"}) /\ fileChan' \in Seq({"unsettled", "settled"})
      /\ Len(fileChan') <= 1
  <2>1. CASE fileChan # <<>> /\ fileChan' = Tail(fileChan)
    BY <1>2, <2>1
  <2>2. CASE fileChan' = fileChan
    BY <1>2, <2>2
  <2> QED
    BY <2>1, <2>2 DEF Collect, ReadFile
<1>4. \/ outcome' = "failed" /\ body' = body
      \/ outcome' = "ok" /\ body' = IF job = "csv" THEN "whole" ELSE "settled"
  <2>1. CASE Collect
    <3>1. fileChan # <<>> => Head(fileChan) = "settled"
      BY <1>2
    <3> QED
      BY <2>1, <3>1 DEF Collect, Return, SessionInv, PlaceInv
  <2>2. CASE ReadFile
    BY <2>2 DEF ReadFile, Return, SessionInv, PlaceInv, BytesInv
  <2> QED
    BY <2>1, <2>2
<1>5. TypeOK'
  BY <1>1, <1>3, <1>4 DEF TypeOK, WaiterTypeOK, Actions, Places, Outcomes, Rest, waiterVars
<1>6. PlaceInv'
  BY <1>1 DEF PlaceInv, Opening
<1>7. StackInv'
  BY <1>1 DEF SessionInv, StackInv, First, Middle, Rest
<1>8. BytesInv'
  BY <1>1, <1>3, <1>4 DEF SessionInv, BytesInv, Rest
<1>9. AnswerInv'
  BY <1>1, <1>4 DEF SessionInv, AnswerInv, After, Middle, Rest, waiterVars
<1> QED
  BY <1>5, <1>6, <1>7, <1>8, <1>9 DEF SessionInv
-----------------------------------------------------------------------------
(* The return: the calls are made from the last to the first.              *)

LEMMA Pops ==
  ASSUME NEW n \in 1..4, NEW calls, First(calls, n)
  PROVE  First(SubSeq(calls, 1, n - 1), n - 1)
<1>1. calls \in Seq(Calls) /\ Len(calls) = n /\ \A i \in 1..n : calls[i] = Order[i]
  BY DEF First
<1>2. \A i \in 1..(n - 1) : calls[i] \in Calls
  BY <1>1
<1>3. /\ SubSeq(calls, 1, n - 1) \in Seq(Calls)
      /\ Len(SubSeq(calls, 1, n - 1)) = IF 1 <= n - 1 THEN (n - 1) - 1 + 1 ELSE 0
      /\ \A i \in 1..((n - 1) - 1 + 1) : SubSeq(calls, 1, n - 1)[i] = calls[1 + i - 1]
  BY <1>2, SubSeqProperties
<1> QED
  BY <1>1, <1>3 DEF First

\* How many calls are left, from the name of the next one.
LEMMA NextCall ==
  ASSUME SessionInv, deferred # <<>>
  PROVE  /\ Len(deferred) \in 1..4 /\ First(deferred, Len(deferred))
         /\ LastCall = "removeDir" => Len(deferred) = 1
         /\ LastCall \in {"cancelAllocator", "cancelBrowser"} => Len(deferred) \in {2, 3}
         /\ LastCall = "decInstances" => Len(deferred) = 4
<1>1. Len(deferred) \in 0..4 /\ First(deferred, Len(deferred))
  BY DEF SessionInv, StackInv
<1>2. deferred \in Seq(Calls) /\ Len(deferred) # 0
  BY <1>1 DEF First
<1>3. Len(deferred) \in 1..4
  BY <1>1, <1>2
<1>4. LastCall = Order[Len(deferred)]
  BY <1>1, <1>3 DEF First, LastCall
<1>5. Len(deferred) = 1 \/ Len(deferred) = 2 \/ Len(deferred) = 3 \/ Len(deferred) = 4
  BY <1>3
<1>6. \/ Len(deferred) = 1 /\ LastCall = "removeDir"
      \/ Len(deferred) = 2 /\ LastCall = "cancelAllocator"
      \/ Len(deferred) = 3 /\ LastCall = "cancelBrowser"
      \/ Len(deferred) = 4 /\ LastCall = "decInstances"
  <2>1. /\ Order[1] = "removeDir" /\ Order[2] = "cancelAllocator"
        /\ Order[3] = "cancelBrowser" /\ Order[4] = "decInstances"
    BY DEF Order
  <2> QED
    BY <1>4, <1>5, <2>1
<1>7. /\ LastCall = "removeDir" => Len(deferred) = 1
      /\ LastCall \in {"cancelAllocator", "cancelBrowser"} => Len(deferred) \in {2, 3}
      /\ LastCall = "decInstances" => Len(deferred) = 4
  BY <1>6
<1> QED
  BY <1>1, <1>3, <1>7

\* A call made, whatever it does.
LEMMA UnwindKeeps ==
  ASSUME SessionInv, pc = "unwind",
         UNCHANGED <<waiter, mode, renderDone, stuck, page, download, fileChan, body, crashed,
                     job, namespaced, pc, action, outcome, status, ctxDone, scrolls>>,
         ended' \in BOOLEAN, dir' \in Directories, instances' \in {0, 1}, browser' = browser, root' = root,
         deferred' \in Seq(Calls), StackInv'
  PROVE  SessionInv'
<1>1. TypeOK'
  BY DEF SessionInv, TypeOK, WaiterTypeOK, Actions
<1>2. PlaceInv'
  BY DEF PlaceInv, Opening
<1>3. BytesInv'
  BY DEF SessionInv, BytesInv
<1>4. AnswerInv'
  BY DEF SessionInv, AnswerInv, After
<1> QED
  BY <1>1, <1>2, <1>3, <1>4 DEF SessionInv

LEMMA CallStep ==
  ASSUME SessionInv, LeaveInstance \/ CancelContext \/ RemoveDir
  PROVE  SessionInv'
<1> DEFINE n == Len(deferred)
<1>1. pc = "unwind" /\ deferred # <<>>
  BY DEF LeaveInstance, CancelContext, RemoveDir, Unwinding
<1>2. /\ n \in 1..4 /\ First(deferred, n)
      /\ LastCall = "removeDir" => n = 1
      /\ LastCall \in {"cancelAllocator", "cancelBrowser"} => n \in {2, 3}
      /\ LastCall = "decInstances" => n = 4
  BY <1>1, NextCall
<1>3. /\ UNCHANGED <<waiter, mode, renderDone, browser, root, stuck, page, download, fileChan,
                     body, crashed, job, namespaced, pc, action, outcome, status, ctxDone,
                     scrolls>>
      /\ ended' \in BOOLEAN
  BY DEF LeaveInstance, CancelContext, RemoveDir, ContextOver, waiterVars, World, SessionInv,
     TypeOK, WaiterTypeOK
<1>4. /\ dir = "present" <=> n >= 1
      /\ instances = IF n = 4 THEN 1 ELSE 0
      /\ browser = "running" => n >= 3
      /\ root = "present" => browser = "running"
      /\ browser = "dying" => namespaced
      /\ dir \in Directories
  BY DEF SessionInv, StackInv, TypeOK
<1>5. CallDone => First(deferred', n - 1)
  BY <1>2, Pops DEF CallDone
<1>6. CASE LeaveInstance
  <2>1. n = 4 /\ First(deferred', 3) /\ instances' = 0 /\ dir' = dir /\ dir = "present"
    <3>1. n = 4 /\ n - 1 = 3 /\ CallDone
      BY <1>2, <1>6 DEF LeaveInstance, Unwinding
    <3>2. First(deferred', 3)
      BY <1>5, <3>1
    <3> QED
      BY <1>4, <1>6, <3>1, <3>2 DEF LeaveInstance, DecInstances
  <2>2. StackInv'
    BY <1>1, <1>3, <1>4, <2>1 DEF StackInv, First, Middle
  <2> QED
    BY <1>1, <1>3, <1>4, <2>1, <2>2, UnwindKeeps DEF First
<1>7. CASE CancelContext
  <2>1. n \in {2, 3} /\ UNCHANGED <<dir, root, instances>> /\ instances = 0 /\ dir = "present"
    BY <1>2, <1>4, <1>7 DEF CancelContext, Unwinding, World
  <2>2. \/ browser = "running" /\ deferred' = deferred
        \/ browser # "running" /\ First(deferred', n - 1)
    BY <1>5, <1>7 DEF CancelContext
  <2>3. StackInv'
    <3>1. CASE deferred' = deferred
      BY <1>1, <1>3, <2>1, <3>1 DEF SessionInv, StackInv, First
    <3>2. CASE browser # "running" /\ First(deferred', n - 1)
      BY <1>1, <1>3, <1>4, <2>1, <3>2 DEF StackInv, First, Middle
    <3> QED
      BY <2>2, <3>1, <3>2
  <2>4. deferred' \in Seq(Calls)
    BY <1>2, <2>2 DEF First
  <2> QED
    BY <1>1, <1>3, <1>4, <2>1, <2>3, <2>4, UnwindKeeps
<1>8. CASE RemoveDir
  <2>1. n = 1 /\ First(deferred', 0) /\ dir' \in {"absent", "kept"} /\ instances' = instances /\ instances = 0
        /\ browser # "running"
    <3>1. n = 1 /\ n - 1 = 0 /\ CallDone
      BY <1>2, <1>8 DEF RemoveDir, Unwinding
    <3>2. First(deferred', 0)
      BY <1>5, <3>1
    <3> QED
      BY <1>4, <1>8, <3>1, <3>2 DEF RemoveDir, Removed
  <2>2. StackInv'
    BY <1>1, <1>3, <1>4, <2>1 DEF StackInv, First, Middle
  <2> QED
    BY <1>1, <1>3, <2>1, <2>2, UnwindKeeps DEF First, Directories
<1> QED
  BY <1>6, <1>7, <1>8

LEMMA AnswerStep ==
  ASSUME SessionInv, Unwound \/ Respond
  PROVE  SessionInv'
<1>1. /\ UNCHANGED <<waiterVars, World, job, namespaced, ctxDone, scrolls, deferred, action,
                     outcome>>
      /\ \/ pc = "unwind" /\ deferred = <<>> /\ pc' = "respond" /\ status' = status
         \/ pc = "respond" /\ pc' = "done" /\ status' = StatusOf(outcome)
  BY DEF Unwound, Respond, GoTo, Rest
<1>2. status' \in {0, 200, 400, 408, 500}
  BY <1>1 DEF SessionInv, TypeOK, StatusOf
<1>3. TypeOK'
  BY <1>1, <1>2 DEF SessionInv, TypeOK, WaiterTypeOK, Actions, Places, World, waiterVars
<1>4. PlaceInv'
  BY <1>1 DEF PlaceInv, Opening
<1>5. StackInv'
  <2>1. First(deferred, 0)
    BY <1>1 DEF SessionInv, StackInv, First
  <2> QED
    BY <1>1, <2>1 DEF SessionInv, StackInv, Middle, World
<1>6. BytesInv'
  BY <1>1 DEF SessionInv, BytesInv, World
<1>7. AnswerInv'
  BY <1>1 DEF SessionInv, AnswerInv, After, World, waiterVars, StatusOf
<1> QED
  BY <1>3, <1>4, <1>5, <1>6, <1>7 DEF SessionInv

-----------------------------------------------------------------------------
(* The theorems.                                                           *)

\* The inductive invariant of the session: its deferred calls, its bytes and
\* its outcome, tied to the place it has reached.
THEOREM SessionInvariant == Spec => []SessionInv
<1>1. SessionInv /\ [Next]_vars => SessionInv'
  <2> SUFFICES ASSUME SessionInv, [Next]_vars PROVE SessionInv'
    OBVIOUS
  <2>1. CASE Surroundings \/ BrowserExits \/ Finished \/ UNCHANGED vars
    BY <2>1, OutsideStep DEF Finished
  <2>2. CASE ApplyOptions \/ MakeDir \/ MakeDownloadDir \/ Allocate \/ Launch
    BY <2>2, OptionsStep, MakeDirStep, AllocateStep, LaunchStep
  <2>3. CASE TrackProcess \/ Command \/ PriorWait \/ Panic \/ MeasureScrolls \/ ScrollWait \/ ScrollBy
    BY <2>3, PlainStep, ScrollStep
  <2>4. CASE BeginWait \/ WaitMode \/ Prepare \/ Poll \/ Sleep
    BY <2>4, WaitStep, PrepareStep, PollStep
  <2>5. CASE Navigate \/ Resize \/ Capture \/ Send \/ Collect \/ ReadFile
    BY <2>5, NavigateStep, ResizeStep, CaptureStep, SendStep, BytesStep
  <2>6. CASE EndWait("ctx") \/ \E result \in {"ready", "timeout", "error"} : EndWait(result)
    BY <2>6, EndWaitStep
  <2>7. CASE LeaveInstance \/ CancelContext \/ RemoveDir \/ Unwound \/ Respond
    BY <2>7, CallStep, AnswerStep
  <2> QED
    BY <2>1, <2>2, <2>3, <2>4, <2>5, <2>6, <2>7 DEF Next, Own, PageDecides
<1> QED
  BY <1>1, SessionInitInv, PTL DEF Spec

\* Type correctness of the session, the gauge's 0 or 1 included.
THEOREM SessionTypeCorrect == Spec => []TypeOK
<1>1. SessionInv => TypeOK
  BY DEF SessionInv
<1> QED
  BY <1>1, SessionInvariant, PTL

\* The directory outlives the browser, wherever the session fails.
THEOREM DirAlwaysOutlivesBrowser == Spec => []DirOutlivesBrowser
<1>1. SessionInv => DirOutlivesBrowser
  BY DEF SessionInv, StackInv, DirOutlivesBrowser
<1> QED
  BY <1>1, SessionInvariant, PTL

\* An answered session has let go of all it took: what is left is what could
\* not be removed, the root of a bootstrap that was killed, and a browser that
\* goes with it.
THEOREM CleansUpEveryWayOut == Spec => []EveryWayOutCleansUp
<1>1. SessionInv => EveryWayOutCleansUp
  BY DEF SessionInv, StackInv, First, EveryWayOutCleansUp
<1> QED
  BY <1>1, SessionInvariant, PTL

\* Only a page found ready since it was last laid out is answered with.
THEOREM AlwaysSettledPages == Spec => []OnlySettledPages
<1>1. SessionInv => OnlySettledPages
  BY DEF SessionInv, BytesInv, AnswerInv, StatusOf, OnlySettledPages
<1> QED
  BY <1>1, SessionInvariant, PTL

\* Only a file that is all there is answered with.
THEOREM AlwaysWholeFiles == Spec => []OnlyWholeFiles
<1>1. SessionInv => OnlyWholeFiles
  BY DEF SessionInv, BytesInv, AnswerInv, StatusOf, OnlyWholeFiles
<1> QED
  BY <1>1, SessionInvariant, PTL

\* The status 408 has one of its causes, and a readiness timeout has it.
THEOREM AnswerAlwaysTellsCause == Spec => []AnswerTellsCause
<1>1. SessionInv => AnswerTellsCause
  BY DEF SessionInv, AnswerInv, StatusOf, AnswerTellsCause
<1> QED
  BY <1>1, SessionInvariant, PTL
=============================================================================
