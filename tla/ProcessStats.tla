---------------------------- MODULE ProcessStats ----------------------------
(***************************************************************************)
(* ProcessStatService of pkg/service/process.go: one goroutine per browser *)
(* samples the memory of its process tree and, when it ends, folds the     *)
(* peak into two figures shared by all of them, the maximum and a          *)
(* slow-moving average.  The rate limiter reads the average.               *)
(*                                                                         *)
(* The processes and what the operating system says of them are external.  *)
(* A fold holds the mutex throughout and is one step.  How long a tracker  *)
(* sleeps between two samples is left open.                                *)
(***************************************************************************)
EXTENDS Integers, FiniteSets

CONSTANTS Trackers,        \* tracking goroutines; one that has ended may be used again
          Samples,         \* memory readings of a process tree, 0 when one fails
          LimiterConfigs,  \* the rate limit configurations to consider
          MaxInt64         \* the largest int64

RateLimitConfig ==
  [decay : Nat \ {0}, minLimit : Nat, maxLimit : Nat,
   maxAvailable : Nat, minMemory : Nat, headroom : Nat]

\* The validator keeps the decay at least 1.  Nothing keeps it from being so
\* large that the weighted sum overflows an int64; that is excluded here.
ASSUME StatsAssumption ==
  /\ Samples \subseteq Nat
  /\ LimiterConfigs \subseteq RateLimitConfig
  /\ MaxInt64 \in Nat
  /\ \A m \in Samples, c \in LimiterConfigs : m * c.decay <= MaxInt64

VARIABLES cfg,          \* the rate limit configuration, shared with the limiter
          PeakMemory,   \* the slow-moving average
          MaxMemory,    \* the maximum over all processes
          tracker,      \* where each goroutine is
          peakMemory,   \* its local peak
          alive,        \* its process runs
          cancelled     \* its context, the browser's, is cancelled

statsVars == <<cfg, PeakMemory, MaxMemory, tracker, peakMemory, alive, cancelled>>

StatsTypeOK ==
  /\ cfg \in LimiterConfigs
  /\ PeakMemory \in Nat /\ MaxMemory \in Nat
  /\ tracker \in [Trackers -> {"free", "starting", "sleeping", "folding"}]
  /\ peakMemory \in [Trackers -> Samples \union {0}]
  /\ alive \in [Trackers -> BOOLEAN]
  /\ cancelled \in [Trackers -> BOOLEAN]

StatsInit ==
  /\ cfg \in LimiterConfigs
  /\ PeakMemory = 0 /\ MaxMemory = 0
  /\ tracker = [t \in Trackers |-> "free"]
  /\ peakMemory = [t \in Trackers |-> 0]
  /\ alive = [t \in Trackers |-> FALSE]
  /\ cancelled = [t \in Trackers |-> FALSE]

-----------------------------------------------------------------------------
Larger(a, b) == IF a >= b THEN a ELSE b

\* A definition whose name ends in Fault is the one that follows it with a
\* mistake in it; nothing uses it.
AverageSeedFault(old, peak, decay) ==                   \* no first value
  (old * (decay - 1) + peak) \div decay
Average(old, peak, decay) ==
  IF old = 0 THEN peak ELSE (old * (decay - 1) + peak) \div decay

TrackProcess(t) ==
  /\ tracker[t] = "free"
  /\ tracker' = [tracker EXCEPT ![t] = "starting"]
  /\ peakMemory' = [peakMemory EXCEPT ![t] = 0]
  /\ alive' = [alive EXCEPT ![t] = TRUE]
  /\ cancelled' = [cancelled EXCEPT ![t] = FALSE]
  /\ UNCHANGED <<cfg, PeakMemory, MaxMemory>>

\* A goroutine that does not find its process ends without a fold.
FindProcess(t) ==
  /\ tracker[t] = "starting"
  /\ \/ alive[t] /\ tracker' = [tracker EXCEPT ![t] = "sleeping"]
     \/ (cancelled[t] \/ ~alive[t]) /\ tracker' = [tracker EXCEPT ![t] = "free"]
  /\ UNCHANGED <<cfg, PeakMemory, MaxMemory, peakMemory, alive, cancelled>>

Sample(t) ==
  /\ tracker[t] = "sleeping"
  /\ alive[t]
  /\ \E m \in Samples :
       peakMemory' = [peakMemory EXCEPT ![t] = Larger(peakMemory[t], m)]
  /\ UNCHANGED <<cfg, PeakMemory, MaxMemory, tracker, alive, cancelled>>

\* The context is done, or the process is found not to run any more.
Stops(t) == cancelled[t] \/ ~alive[t]

StopSampling(t) ==
  /\ tracker[t] = "sleeping"
  /\ Stops(t)
  /\ tracker' = [tracker EXCEPT ![t] = "folding"]
  /\ UNCHANGED <<cfg, PeakMemory, MaxMemory, peakMemory, alive, cancelled>>

Fold(t) ==
  /\ tracker[t] = "folding"
  /\ PeakMemory' = Average(PeakMemory, peakMemory[t], cfg.decay)
  /\ MaxMemory' = Larger(MaxMemory, peakMemory[t])
  /\ tracker' = [tracker EXCEPT ![t] = "free"]
  /\ UNCHANGED <<cfg, peakMemory, alive, cancelled>>

\* The browser exits on its own, or is killed once its context is cancelled.
ProcessExits(t) ==
  /\ alive[t]
  /\ alive' = [alive EXCEPT ![t] = FALSE]
  /\ UNCHANGED <<cfg, PeakMemory, MaxMemory, tracker, peakMemory, cancelled>>

\* Render returns and cancels the browser's context.
CancelBrowser(t) ==
  /\ cancelled' = [cancelled EXCEPT ![t] = TRUE]
  /\ UNCHANGED <<cfg, PeakMemory, MaxMemory, tracker, peakMemory, alive>>

TrackerStep(t) == FindProcess(t) \/ Sample(t) \/ StopSampling(t) \/ Fold(t)

StatsNext == \E t \in Trackers :
  TrackProcess(t) \/ TrackerStep(t) \/ ProcessExits(t) \/ CancelBrowser(t)

StatsSpec == StatsInit /\ [][StatsNext]_statsVars

\* What a tracker must do once its browser is over.
Ends(t) == FindProcess(t) \/ StopSampling(t) \/ Fold(t)

-----------------------------------------------------------------------------
(* Properties                                                              *)

\* The average never leaves the range of the peaks that were folded into it,
\* whatever the order in which trackers end: it is at most their maximum
\* (process.go:105-110), so the limiter never asks for more memory than some
\* browser has used.
PeakWithinMax == 0 <= PeakMemory /\ PeakMemory <= MaxMemory

\* The sum of a fold fits an int64.
FoldFits == PeakMemory * (cfg.decay - 1) + MaxMemory <= MaxInt64

\* A fold moves the average towards the new peak and never past it, except
\* the first one and those that find an average of zero, which take the peak.
FoldMovesTowardsPeak ==
  [][\A t \in Trackers :
       tracker[t] = "folding" /\ tracker'[t] = "free" =>
         IF PeakMemory = 0 THEN PeakMemory' = peakMemory[t]
         ELSE IF peakMemory[t] >= PeakMemory
         THEN PeakMemory' \in PeakMemory..peakMemory[t]
         ELSE PeakMemory' \in peakMemory[t]..PeakMemory]_statsVars
=============================================================================
