------------------------------- MODULE Waiter -------------------------------
(***************************************************************************)
(* What the waits for readiness of pkg/service/browser.go promise to the   *)
(* render session that calls them: one result, and the reason for it.  A   *)
(* page that announces its own readiness is ready only once it has been    *)
(* heard; the end of the context is reported only of a context that has    *)
(* ended.  Readiness implements it.                                        *)
(***************************************************************************)

VARIABLES waiter,      \* registered, waiting, or the result
          mode,        \* how the page is watched, once that is known
          renderDone,  \* the page has called the binding since the registration
          ended        \* the context the wait runs under is done

waiterVars == <<waiter, mode, renderDone, ended>>

Results == {"ready", "timeout", "ctx", "error"}

WaiterTypeOK ==
  /\ waiter \in {"registered", "waiting"} \union Results
  /\ mode \in {"unknown", "binding", "legacy"}
  /\ renderDone \in BOOLEAN /\ ended \in BOOLEAN

WaiterInit ==
  /\ waiter = "registered"
  /\ mode = "unknown"
  /\ renderDone = FALSE /\ ended = FALSE

Begin ==
  /\ waiter = "registered"
  /\ waiter' = "waiting"
  /\ UNCHANGED <<mode, renderDone, ended>>

ChooseHow ==
  /\ waiter = "waiting" /\ mode = "unknown"
  /\ mode' \in {"binding", "legacy"}
  /\ UNCHANGED <<waiter, renderDone, ended>>

\* The page calls the binding, and whoever listens is told.
BindingCalled ==
  /\ renderDone' = TRUE
  /\ UNCHANGED <<waiter, mode, ended>>

ContextOver ==
  /\ ended' = TRUE
  /\ UNCHANGED <<waiter, mode, renderDone>>

\* Polling finds the page ready, or a script of its fails.
Finish(result) ==
  /\ waiter = "waiting" /\ mode # "unknown"
  /\ result = "ready" => mode = "legacy" \/ renderDone
  /\ result = "error" => mode = "legacy"
  /\ result = "ctx" => ended
  /\ waiter' = result
  /\ UNCHANGED <<mode, renderDone, ended>>

WaiterNext ==
  Begin \/ ChooseHow \/ BindingCalled \/ ContextOver \/ \E result \in Results : Finish(result)

WaiterSpec == WaiterInit /\ [][WaiterNext]_waiterVars
=============================================================================
