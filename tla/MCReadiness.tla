----------------------------- MODULE MCReadiness -----------------------------
(***************************************************************************)
(* Configurations of one run: durations are small multiples of a tick.     *)
(***************************************************************************)
EXTENDS Readiness

\* The shape of the defaults of config.go: a timeout on the whole wait and on
\* the first query, none on the single checks; two query cycles, so that the
\* count of cycles matters.
Default ==
  [timeout |-> 4, interval |-> 1, cycles |-> 2,
   disableQueryWait |-> FALSE, firstQueryTimeout |-> 2, queriesTimeout |-> 0,
   disableNetworkWait |-> FALSE, networkIdleTimeout |-> 0,
   disableDOMWait |-> FALSE, domTimeout |-> 0,
   forcePolling |-> FALSE]

\* No timeout on the whole wait; every check gives up on its own.
GiveUps == [Default EXCEPT !.timeout = 0, !.queriesTimeout = 3,
                           !.networkIdleTimeout = 2, !.domTimeout = 3]

\* No timeout but the one on the first query, and a page polled though it
\* offers the binding.
Patient == [Default EXCEPT !.timeout = 0, !.forcePolling = TRUE]

\* An iteration interval that does not divide the timeout; queries not waited for.
Coarse == [Default EXCEPT !.timeout = 3, !.interval = 2, !.disableQueryWait = TRUE]

\* Only the queries are waited for.
QueriesOnly == [Default EXCEPT !.disableNetworkWait = TRUE, !.disableDOMWait = TRUE]

AllConfigs == {Default, GiveUps, Patient, Coarse, QueriesOnly}

\* For the liveness properties: a short timeout on the whole wait, and none.
Short == [Default EXCEPT !.timeout = 2, !.cycles = 1, !.firstQueryTimeout = 1]
Endless == [Default EXCEPT !.timeout = 0, !.firstQueryTimeout = 1]

LivenessConfigs == {Short, Endless}
DefaultOnly == {Default}

\* Two cycles, and no wait for the DOM to add an iteration of its own.
CyclesOnly == {[Default EXCEPT !.timeout = 0, !.disableDOMWait = TRUE]}
=============================================================================
