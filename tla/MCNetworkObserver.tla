-------------------------- MODULE MCNetworkObserver --------------------------
(***************************************************************************)
(* Two tracked requests and one untracked one, of which any may be open    *)
(* when the observer is registered; the browser holds every request back   *)
(* until the network events' listener has it continued.                    *)
(***************************************************************************)
EXTENDS NetworkEvents
=============================================================================
