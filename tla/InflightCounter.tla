--------------------------- MODULE InflightCounter ---------------------------
(***************************************************************************)
(* What a count of things under way promises its reader: it always equals  *)
(* the number of those that have begun and not yet ended, and moves by one *)
(* with each.  Three counters of the program are to keep it: the readiness *)
(* network observer's of requests in flight (pkg/service/browser.go), the  *)
(* rate limiter's of requests admitted and the metrics' of requests being  *)
(* handled (pkg/api/middleware).                                           *)
(***************************************************************************)
EXTENDS Integers, FiniteSets

CONSTANT Requests    \* the requests that may be under way

VARIABLES outstanding,   \* the requests that have begun and not yet ended
          count          \* the number the reader of the counter sees

vars == <<outstanding, count>>

Init == outstanding = {} /\ count = 0

Begin(r) == /\ r \notin outstanding
            /\ outstanding' = outstanding \union {r}
            /\ count' = count + 1

End(r) == /\ r \in outstanding
          /\ outstanding' = outstanding \ {r}
          /\ count' = count - 1

Next == \E r \in Requests : Begin(r) \/ End(r)

Spec == Init /\ [][Next]_vars
=============================================================================
