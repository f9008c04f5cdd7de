--------------------------- MODULE BrowserSession ---------------------------
(***************************************************************************)
(* A session with a browser: Render and RenderCSV of                       *)
(* pkg/service/browser.go from the handler that calls them to the answer,  *)
(* with the printers, the scrolling and the waits among the actions.       *)
(*                                                                         *)
(* The browser, its page and chromedp are external.  chromedp starts the   *)
(* browser when the first action is about to run, ends the session's       *)
(* context when it loses the browser, kills the browser when that context  *)
(* ends, and lets a cancellation return only when the process is gone.     *)
(* With the setting browser.namespaced that process is the bootstrap of    *)
(* the sandbox, and the browser goes because its parent has gone.          *)
(***************************************************************************)
EXTENDS Integers, Sequences, Waiter

CONSTANTS Jobs,        \* what may be asked for
          MaxScrolls   \* bound on the viewports a page is high

ASSUME SessionAssumption == /\ Jobs \subseteq {"png", "fullHeight", "pdf", "csv"}
                            /\ MaxScrolls \in Nat

VARIABLES job,          \* what is asked for
          namespaced,   \* whether the browser runs in a sandbox
          pc, action,   \* where the session is, and in which of its actions
          scrolls,      \* rest of the scrolling
          deferred,     \* the deferred calls, the last to run first
          outcome,      \* what the session returns
          status,       \* the HTTP status answered
          ctxDone,      \* the request's context is done
          dir,          \* the temporary directory of the session
          root,         \* the one of its sandbox
          instances,    \* MetricBrowserInstancesActive
          browser,      \* the browser; "dying": its parent has been killed
          stuck,        \* the browser answers no command any more
          page,         \* nothing loaded; not waited for; waited for
          download,     \* the file the page downloads, if any
          fileChan,     \* the channel of captures
          body,         \* the bytes: the state of what was captured or read
          crashed       \* history: the browser went before its context did

sessionVars == <<job, namespaced, pc, action, scrolls, deferred, outcome, status, ctxDone,
                 dir, root, instances, browser, stuck, page, download, fileChan, body, crashed>>
vars == <<waiterVars, sessionVars>>

\* The lists of actions; WaitReady(body) stands among the commands.
Commands == {"network.Enable", "fetch.Enable", "SetTimezoneOverride", "SetPageScaleFactor",
             "EmulateViewport", "setHeaders", "setCookies", "addBinding",
             "SetDownloadBehavior", "WaitReady(body)"}
MayBeEmpty == {"setHeaders", "setCookies"}           \* nothing to send, nothing sent

RenderActions ==
  <<"trackProcess", "network.Enable", "fetch.Enable", "SetTimezoneOverride",
    "SetPageScaleFactor", "EmulateViewport", "setHeaders", "setCookies", "addBinding",
    "Navigate", "WaitReady(body)", "waitForDuration", "scrollForElements", "waitForReady",
    "printer.prepare", "printer.action">>

CSVActions ==
  <<"trackProcess", "network.Enable", "setHeaders", "setCookies", "SetDownloadBehavior",
    "Navigate">>

Actions == IF job = "csv" THEN CSVActions ELSE RenderActions
Doing(name) == pc = "run" /\ Actions[action] = name

Outcomes == {"none", "ok", "ctx", "deadline", "timeout", "invalid", "failed", "panic"}
Directories == {"absent", "present", "kept"}      \* "kept": meant to be removed, and still there
Calls == {"removeDir", "cancelAllocator", "cancelBrowser", "decInstances"}
Places == {"options", "makeDir", "makeDownloadDir", "allocate", "launch", "run", "scrollWait",
           "scrollBy", "wait", "resize", "send", "collect", "poll", "sleep", "read",
           "unwind", "respond", "done"}

TypeOK ==
  /\ WaiterTypeOK
  /\ job \in Jobs /\ namespaced \in BOOLEAN /\ pc \in Places
  /\ action \in 1..Len(Actions) /\ scrolls \in 0..MaxScrolls
  /\ deferred \in Seq(Calls)
  /\ outcome \in Outcomes /\ status \in {0, 200, 400, 408, 500}
  /\ ctxDone \in BOOLEAN /\ dir \in Directories /\ root \in Directories
  /\ stuck \in BOOLEAN /\ crashed \in BOOLEAN
  /\ instances \in {0, 1}
  /\ browser \in {"absent", "running", "dying", "exited"}
  /\ page \in {"blank", "unsettled", "settled"}
  /\ download \in {"none", "partial", "whole"}
  /\ fileChan \in Seq({"unsettled", "settled"}) /\ Len(fileChan) <= 1
  /\ body \in {"none", "unsettled", "settled", "partial", "whole"}

Init ==
  /\ WaiterInit
  /\ job \in Jobs /\ namespaced \in BOOLEAN
  /\ pc = "options" /\ action = 1 /\ scrolls = 0
  /\ deferred = <<>> /\ outcome = "none" /\ status = 0
  /\ ctxDone = FALSE /\ dir = "absent" /\ root = "absent" /\ instances = 0
  /\ browser = "absent" /\ stuck = FALSE /\ page = "blank" /\ download = "none"
  /\ fileChan = <<>> /\ body = "none" /\ crashed = FALSE

-----------------------------------------------------------------------------
(* The surroundings.                                                       *)

\* The client leaves, the timeout it asked for passes, or the service stops.
RequestEnds ==
  /\ pc # "done" /\ ~ctxDone
  /\ ctxDone' = TRUE
  /\ ContextOver
  /\ UNCHANGED <<job, namespaced, pc, action, scrolls, deferred, outcome, status, dir, root,
                 instances, browser, stuck, page, download, fileChan, body, crashed>>

\* The error of a removal is discarded.
Removed(directory) == IF directory = "present" THEN {"absent", "kept"} ELSE {directory}

\* The process chromedp has started ends, killed with its context or before.
\* It is the browser itself; or it is the bootstrap, which removes its root
\* when the browser ends, and does not when it is killed.
BrowserExits ==
  /\ browser = "running"
  /\ \/ (namespaced => ~ended) /\ browser' = "exited" /\ root' \in Removed(root)
     \/ namespaced /\ browser' = "dying" /\ root' = "kept"
  /\ crashed' = (crashed \/ ~ended)
  /\ ContextOver
  /\ UNCHANGED <<job, namespaced, pc, action, scrolls, deferred, outcome, status, ctxDone, dir,
                 instances, stuck, page, download, fileChan, body>>

\* The kernel ends what has lost its parent; nobody waits for that.
BrowserDies ==
  /\ browser = "dying"
  /\ browser' = "exited"
  /\ UNCHANGED <<waiterVars, job, namespaced, pc, action, scrolls, deferred, outcome, status,
                 ctxDone, dir, root, instances, stuck, page, download, fileChan, body, crashed>>

BrowserSticks ==
  /\ browser = "running" /\ ~stuck
  /\ stuck' = TRUE
  /\ UNCHANGED <<waiterVars, job, namespaced, pc, action, scrolls, deferred, outcome, status,
                 ctxDone, dir, root, instances, browser, page, download, fileChan, body,
                 crashed>>

Loaded == browser = "running" /\ ~stuck /\ page # "blank"

PageCallsBinding ==
  /\ Loaded /\ job # "csv" /\ ~renderDone
  /\ BindingCalled
  /\ UNCHANGED sessionVars

\* The browser writes a download under another name and then renames it.
PageDownloads ==
  /\ Loaded /\ job = "csv"
  /\ \/ download = "none" /\ download' = "partial"
     \/ download = "partial" /\ download' = "whole"
  /\ UNCHANGED <<waiterVars, job, namespaced, pc, action, scrolls, deferred, outcome, status,
                 ctxDone, dir, root, instances, browser, stuck, page, fileChan, body, crashed>>

Surroundings == RequestEnds \/ BrowserDies \/ BrowserSticks \/ PageCallsBinding \/ PageDownloads

-----------------------------------------------------------------------------
(* Steps of the session.                                                   *)

GoTo(place) == pc' = place /\ UNCHANGED <<action, outcome>>

\* Every return runs the deferred calls first.
ReturnFault(value) ==                               \* cleaning up only at the end
  /\ outcome' = value
  /\ pc' = IF value = "ok" THEN "unwind" ELSE "respond"
  /\ UNCHANGED action
Return(value) == outcome' = value /\ pc' = "unwind" /\ UNCHANGED action

NextAction ==
  IF action < Len(Actions)
  THEN action' = action + 1 /\ pc' = "run" /\ UNCHANGED outcome
  ELSE GoTo(IF job = "csv" THEN "poll" ELSE "collect")

\* The context of the actions derives from the one of the browser.
ActionDoneFault == ctxDone                          \* waiting on the request's own
ActionDone == ended

Answers == browser = "running" /\ ~stuck
Lost == browser \in {"dying", "exited"}
CommandFails ==
  \/ (Answers \/ Lost) /\ Return("failed")
  \/ ActionDone /\ Return("ctx")

DeferFault(call, calls) == <<call>> \o calls         \* run in the order of their names
Defer(call, calls) == Append(calls, call)

\* What a step of the control flow alone leaves as it is.
World == <<dir, root, instances, browser, stuck, page, download, fileChan, body, crashed>>
Rest == <<job, namespaced, status, ctxDone, scrolls, deferred>>

ApplyOptions ==
  /\ pc = "options"
  /\ GoTo("makeDir") \/ (job # "csv" /\ Return("invalid"))
  /\ UNCHANGED <<waiterVars, World, Rest>>

MakeDir ==
  /\ pc = "makeDir"
  /\ \/ /\ dir' = "present"
        /\ deferred' = Defer("removeDir", deferred)
        /\ GoTo(IF job = "csv" THEN "makeDownloadDir" ELSE "allocate")
     \/ Return("failed") /\ UNCHANGED <<dir, deferred>>
  /\ UNCHANGED <<waiterVars, root, instances, browser, stuck, page, download, fileChan, body,
                 crashed, job, namespaced, status, ctxDone, scrolls>>

MakeDownloadDir ==
  /\ pc = "makeDownloadDir"
  /\ GoTo("allocate") \/ Return("failed")
  /\ UNCHANGED <<waiterVars, World, Rest>>

\* The contexts, the listeners and the list of actions are made; the waiter's
\* listeners are registered here, long before its turn among the actions.
Allocate ==
  /\ pc = "allocate"
  /\ deferred' = Defer("decInstances", Defer("cancelBrowser", Defer("cancelAllocator", deferred)))
  /\ instances' = instances + 1
  /\ GoTo("launch")
  /\ UNCHANGED <<waiterVars, dir, root, browser, stuck, page, download, fileChan, body, crashed,
                 job, namespaced, status, ctxDone, scrolls>>

\* A bootstrap makes its root and starts the browser in it; without a browser
\* it ends, and its root with it unless the removal fails or it is killed.
Started == browser' = "running" /\ root' = IF namespaced THEN "present" ELSE "absent"
NotStarted == browser' = "absent" /\ root' \in IF namespaced THEN {"absent", "kept"} ELSE {"absent"}

\* A browser may have been started and yet not be reached: chromedp dials it
\* with a deadline of its own.
Launch ==
  /\ pc = "launch"
  /\ \/ Started /\ ~ActionDone /\ (GoTo("run") \/ Return("deadline"))
     \/ (Started \/ NotStarted) /\ (Return("failed") \/ (ActionDone /\ Return("ctx")))
  /\ UNCHANGED <<waiterVars, dir, instances, stuck, page, download, fileChan, body, crashed,
                 Rest>>

TrackProcess ==
  /\ Doing("trackProcess")
  /\ NextAction
  /\ UNCHANGED <<waiterVars, World, Rest>>

Command ==
  /\ pc = "run" /\ Actions[action] \in Commands
  /\ ((Answers \/ Actions[action] \in MayBeEmpty) /\ NextAction) \/ CommandFails
  /\ UNCHANGED <<waiterVars, World, Rest>>

Navigate ==
  /\ Doing("Navigate")
  /\ \/ Answers /\ page' = "unsettled" /\ NextAction
     \/ page' \in {page, "unsettled"} /\ CommandFails
  /\ UNCHANGED <<waiterVars, dir, root, instances, browser, stuck, download, fileChan, body,
                 crashed, Rest>>

PriorWait ==
  /\ Doing("waitForDuration")
  /\ NextAction \/ (ActionDone /\ Return("ctx"))
  /\ UNCHANGED <<waiterVars, World, Rest>>

\* The number of viewports is taken once; a page that grows is not followed.
MeasureScrolls ==
  /\ Doing("scrollForElements")
  /\ \/ Answers /\ scrolls' \in 0..MaxScrolls /\ GoTo("scrollWait")
     \/ CommandFails /\ UNCHANGED scrolls
  /\ UNCHANGED <<waiterVars, World, job, namespaced, status, ctxDone, deferred>>

ScrollWait ==
  /\ pc = "scrollWait"
  /\ GoTo("scrollBy") \/ (ActionDone /\ Return("ctx"))
  /\ UNCHANGED <<waiterVars, World, Rest>>

\* One viewport down, or back to the top and on.
ScrollBy ==
  /\ pc = "scrollBy"
  /\ \/ Answers /\ scrolls > 0 /\ scrolls' = scrolls - 1 /\ GoTo("scrollWait")
     \/ Answers /\ scrolls = 0 /\ NextAction /\ UNCHANGED scrolls
     \/ CommandFails /\ UNCHANGED scrolls
  /\ UNCHANGED <<waiterVars, World, job, namespaced, status, ctxDone, deferred>>

BeginWait ==
  /\ Doing("waitForReady")
  /\ Begin
  /\ GoTo("wait")
  /\ UNCHANGED <<World, Rest>>

WaitMode ==
  /\ pc = "wait"
  /\ ChooseHow
  /\ UNCHANGED sessionVars

EndWait(result) ==
  /\ pc = "wait"
  /\ result = "ctx" => ActionDone
  /\ Finish(result)
  /\ IF result = "ready"
     THEN page' = "settled" /\ NextAction
     ELSE page' = page /\ Return(IF result = "error" THEN "failed" ELSE result)
  /\ UNCHANGED <<dir, root, instances, browser, stuck, download, fileChan, body, crashed, Rest>>

\* Only a capture of the full height has something to prepare.
Prepare ==
  /\ Doing("printer.prepare")
  /\ IF job # "fullHeight" THEN NextAction
     ELSE (Answers /\ (NextAction \/ GoTo("resize"))) \/ CommandFails
  /\ UNCHANGED <<waiterVars, World, Rest>>

\* The page is laid out anew, and waited for anew: by a second waiter, which
\* starts at once and knows nothing of what the first one has heard.
ResizeFault ==                                      \* the wait forgotten
  /\ pc = "resize"
  /\ \/ Answers /\ page' = "unsettled" /\ NextAction
     \/ CommandFails /\ UNCHANGED page
  /\ UNCHANGED <<waiterVars, dir, root, instances, browser, stuck, download, fileChan, body,
                 crashed, Rest>>
Resize ==
  /\ pc = "resize"
  /\ \/ /\ Answers /\ page' = "unsettled"
        /\ waiter' = "waiting" /\ mode' = "unknown" /\ renderDone' = FALSE
        /\ GoTo("wait")
     \/ CommandFails /\ UNCHANGED <<page, waiter, mode, renderDone>>
  /\ UNCHANGED <<ended, dir, root, instances, browser, stuck, download, fileChan, body, crashed,
                 Rest>>

Capture ==
  /\ Doing("printer.action")
  /\ \/ Answers /\ body' = page /\ GoTo("send")
     \/ CommandFails /\ UNCHANGED body
  /\ UNCHANGED <<waiterVars, dir, root, instances, browser, stuck, page, download, fileChan,
                 crashed, Rest>>

\* The channel has room for one; a send does not look at the context.
Send ==
  /\ pc = "send"
  /\ Len(fileChan) < 1
  /\ fileChan' = Append(fileChan, body)
  /\ NextAction
  /\ UNCHANGED <<waiterVars, dir, root, instances, browser, stuck, page, download, body,
                 crashed, Rest>>

Panic ==
  /\ pc = "run"
  /\ Return("panic")
  /\ UNCHANGED <<waiterVars, World, Rest>>

Collect ==
  /\ pc = "collect"
  /\ IF fileChan # <<>>
     THEN body' = Head(fileChan) /\ fileChan' = Tail(fileChan) /\ Return("ok")
     ELSE Return("failed") /\ UNCHANGED <<body, fileChan>>
  /\ UNCHANGED <<waiterVars, dir, root, instances, browser, stuck, page, download, crashed, Rest>>

-----------------------------------------------------------------------------
(* The wait for the downloaded file, which obeys the request's context     *)
(* alone.                                                                  *)

InterruptedFault == FALSE
Interrupted == ctxDone

EndsInCSVFault(file) == file # "none"                \* .csv anywhere in the name
EndsInCSV(file) == file = "whole"

Poll ==
  /\ pc = "poll"
  /\ IF Interrupted THEN Return("ctx")
     ELSE GoTo(IF EndsInCSV(download) THEN "read" ELSE "sleep") \/ Return("failed")
  /\ UNCHANGED <<waiterVars, World, Rest>>

Sleep ==
  /\ pc = "sleep"
  /\ GoTo("poll") \/ (Interrupted /\ Return("ctx"))
  /\ UNCHANGED <<waiterVars, World, Rest>>

ReadFile ==
  /\ pc = "read"
  /\ \/ body' = download /\ Return("ok")
     \/ Return("failed") /\ UNCHANGED body
  /\ UNCHANGED <<waiterVars, dir, root, instances, browser, stuck, page, download, fileChan,
                 crashed, Rest>>

-----------------------------------------------------------------------------
(* The return.                                                             *)

LastCall == deferred[Len(deferred)]
CallDone == deferred' = SubSeq(deferred, 1, Len(deferred) - 1)
Unwinding(calls) == pc = "unwind" /\ deferred # <<>> /\ LastCall \in calls

DecInstances == instances' = instances - 1

LeaveInstance ==
  /\ Unwinding({"decInstances"})
  /\ DecInstances
  /\ CallDone
  /\ UNCHANGED <<waiterVars, dir, root, browser, stuck, page, download, fileChan, body, crashed,
                 job, namespaced, pc, action, outcome, status, ctxDone, scrolls>>

\* Cancels, and returns when the process chromedp has started is gone; a
\* browser below it may still be dying.
CancelContext ==
  /\ Unwinding({"cancelBrowser", "cancelAllocator"})
  /\ ~ended \/ browser # "running"
  /\ ContextOver
  /\ IF browser = "running" THEN UNCHANGED deferred ELSE CallDone
  /\ UNCHANGED <<World, job, namespaced, pc, action, outcome, status, ctxDone, scrolls>>

RemoveDir ==
  /\ Unwinding({"removeDir"})
  /\ dir' \in Removed(dir)
  /\ CallDone
  /\ UNCHANGED <<waiterVars, root, instances, browser, stuck, page, download, fileChan, body,
                 crashed, job, namespaced, pc, action, outcome, status, ctxDone, scrolls>>

Unwound ==
  /\ pc = "unwind" /\ deferred = <<>>
  /\ GoTo("respond")
  /\ UNCHANGED <<waiterVars, World, Rest>>

\* The handler's answer; that to a panic is the recovery middleware's.
StatusOfFault(value) ==                             \* the readiness timeout forgotten
  CASE value = "ok" -> 200
    [] value \in {"ctx", "deadline"} -> 408
    [] value = "invalid" -> 400
    [] OTHER -> 500
StatusOf(value) ==
  CASE value = "ok" -> 200
    [] value \in {"ctx", "deadline", "timeout"} -> 408
    [] value = "invalid" -> 400
    [] OTHER -> 500

Respond ==
  /\ pc = "respond"
  /\ status' = StatusOf(outcome)
  /\ GoTo("done")
  /\ UNCHANGED <<waiterVars, World, job, namespaced, ctxDone, scrolls, deferred>>

\* The steps the session takes in its own time.
Own ==
  \/ ApplyOptions \/ MakeDir \/ MakeDownloadDir \/ Allocate \/ Launch
  \/ TrackProcess \/ Command \/ Navigate \/ PriorWait \/ MeasureScrolls \/ ScrollWait \/ ScrollBy
  \/ BeginWait \/ WaitMode \/ EndWait("ctx") \/ Prepare \/ Resize \/ Capture \/ Send \/ Collect
  \/ Poll \/ Sleep \/ ReadFile
  \/ LeaveInstance \/ CancelContext \/ RemoveDir \/ Unwound \/ Respond

\* The waits end as the page lets them, and anything may panic.
PageDecides == (\E result \in {"ready", "timeout", "error"} : EndWait(result)) \/ Panic

Finished == pc = "done" /\ UNCHANGED vars

Next == Surroundings \/ BrowserExits \/ Own \/ PageDecides \/ Finished

Spec == Init /\ [][Next]_vars

\* The scheduler runs the goroutine of the session, and a browser whose
\* context is over is killed.
FairSpec == Spec /\ WF_vars(Own) /\ WF_vars(ended /\ BrowserExits)

-----------------------------------------------------------------------------
(* Properties                                                              *)

\* The directory is there as long as a browser runs that may write to it,
\* wherever the session fails (browser.go:270-281, the order of the deferred
\* calls).  Not as long as one is dying: that one nobody waits for.
DirOutlivesBrowser == browser = "running" => dir = "present"

\* Whichever way the session takes, when it is answered it has let go of all it
\* took: the instance in the gauge, the browser, which is gone or, in a sandbox,
\* struck with its parent, and both directories.  A directory that is still
\* there was given up by whoever had to remove it: its removal failed, or the
\* bootstrap that owned it was killed (browser.go:276-318, :353-398,
\* cmd/sandbox/cmd.go:75-79).
EveryWayOutCleansUp ==
  pc = "done" => /\ dir # "present" /\ root # "present" /\ instances = 0
                 /\ browser # "running" /\ (browser = "dying" => namespaced)

\* The picture answered is of a page that a waiter has found ready since it
\* was last loaded or laid out (browser.go:824-877).
OnlySettledPages == status = 200 /\ job # "csv" => body = "settled"

\* The file answered is not one still being written (browser.go:412-422).
OnlyWholeFiles == status = 200 /\ job = "csv" => body = "whole"

\* "Request timed out" is said of a request whose context ended, whose wait
\* for readiness timed out, or whose browser was lost or not reached in time;
\* and a wait that timed out is never told otherwise (render.go:240-253).
AnswerTellsCause ==
  /\ status = 408 => ctxDone \/ waiter = "timeout" \/ crashed \/ outcome = "deadline"
  /\ pc = "done" /\ waiter = "timeout" => status = 408

\* The end of the request's context ends the session, even with a browser that
\* answers no command.
SessionEnds == ctxDone ~> pc = "done"

\* The loss of the browser ends a render, whatever it was doing.  It does not
\* end the wait for a download, which knows the request's context only.
LostBrowserEnds == Lost /\ job # "csv" ~> pc = "done"
=============================================================================
