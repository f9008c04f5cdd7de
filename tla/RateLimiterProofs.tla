-------------------------- MODULE RateLimiterProofs --------------------------
(***************************************************************************)
(* For any number of requests, trackers, configurations and memory         *)
(* readings that satisfy the assumptions: the rate limiter's count is the  *)
(* number of requests being served, and what it overshoots its ceilings by *)
(* is bounded by how many requests were ever being decided at once.        *)
(*                                                                         *)
(* OvershootBounded is not inductive: a request that has loaded a count    *)
(* below the ceiling is bound to be added later.  PassingBounded counts    *)
(* it from its load on; an add then leaves the sum as it is, and only a    *)
(* load that finds fewer than the ceiling running can raise it.            *)
(*                                                                         *)
(* Before it, what is proved of the browsers' statistics, which it reads.  *)
(***************************************************************************)
EXTENDS RateLimiter, FiniteSetTheorems, TLAPS

(***************************************************************************)
(* The statistics of the browsers, for any trackers, samples and           *)
(* configurations: types, the bound of the average by the maximum, the     *)
(* absence of overflow in a fold, and where a fold moves the average.      *)
(***************************************************************************)

\* The average is bounded by the maximum, and the maximum is a sample, which is
\* what StatsAssumption speaks of.
StatsInv == /\ StatsTypeOK
            /\ PeakMemory <= MaxMemory
            /\ MaxMemory \in Samples \union {0}

-----------------------------------------------------------------------------
(* Arithmetic of a fold.                                                   *)

\* A weighted mean of two numbers lies between them.
LEMMA MeanBetween ==
  ASSUME NEW low \in Nat, NEW high \in Nat, NEW d \in Nat \ {0},
         NEW a \in low..high, NEW b \in low..high
  PROVE  (a * (d - 1) + b) \div d \in low..high
<1> DEFINE sum == a * (d - 1) + b
<1>1. low * (d - 1) <= a * (d - 1) /\ a * (d - 1) <= high * (d - 1)
  <2>1. \A x, y, z \in Nat : x <= y => x * z <= y * z
    OBVIOUS
  <2> QED
    BY <2>1
<1>2. low * (d - 1) + low = low * d /\ high * (d - 1) + high = high * d
  OBVIOUS
<1>3. sum \in Int /\ low * d <= sum /\ sum <= high * d
  BY <1>1, <1>2
<1>4. \A s \in Int : low * d <= s /\ s <= high * d => s \div d \in low..high
  OBVIOUS
<1> QED
  BY <1>3, <1>4

\* A fold moves the average towards the peak and not past it.
LEMMA AverageMoves ==
  ASSUME NEW old \in Nat, NEW peak \in Nat, NEW decay \in Nat \ {0}
  PROVE  IF old = 0 THEN Average(old, peak, decay) = peak
         ELSE IF peak >= old THEN Average(old, peak, decay) \in old..peak
         ELSE Average(old, peak, decay) \in peak..old
<1>1. CASE old = 0
  BY <1>1 DEF Average
<1>2. CASE old # 0 /\ peak >= old
  <2>1. old \in old..peak /\ peak \in old..peak
    BY <1>2
  <2>2. (old * (decay - 1) + peak) \div decay \in old..peak
    BY <2>1, MeanBetween
  <2> QED
    BY <1>2, <2>2 DEF Average
<1>3. CASE old # 0 /\ ~(peak >= old)
  <2>1. old \in peak..old /\ peak \in peak..old
    BY <1>3
  <2>2. (old * (decay - 1) + peak) \div decay \in peak..old
    BY <2>1, MeanBetween
  <2> QED
    BY <1>3, <2>2 DEF Average
<1> QED
  BY <1>1, <1>2, <1>3

\* A fold of two numbers within a maximum stays within it.
LEMMA AverageBounded ==
  ASSUME NEW old \in Nat, NEW peak \in Nat, NEW decay \in Nat \ {0},
         NEW most \in Nat, old <= most, peak <= most
  PROVE  Average(old, peak, decay) \in 0..most
<1> DEFINE avg == Average(old, peak, decay)
<1>1. IF old = 0 THEN avg = peak
      ELSE IF peak >= old THEN avg \in old..peak ELSE avg \in peak..old
  BY AverageMoves
<1> HIDE DEF avg
<1>2. avg \in 0..most
  BY <1>1
<1> QED
  BY <1>2 DEF avg

-----------------------------------------------------------------------------
(* The inductive invariant.                                                *)

LEMMA StatsInitInv == StatsInit => StatsInv
BY DEF StatsInit, StatsInv, StatsTypeOK

\* The operands of a fold are natural numbers.
LEMMA InvNumbers ==
  ASSUME StatsInv
  PROVE  /\ cfg.decay \in Nat \ {0}
         /\ \A t \in Trackers : peakMemory[t] \in Nat
<1>1. cfg \in RateLimitConfig /\ Samples \subseteq Nat
  BY StatsAssumption DEF StatsInv, StatsTypeOK
<1>2. cfg.decay \in Nat \ {0}
  BY <1>1 DEF RateLimitConfig
<1>3. ASSUME NEW t \in Trackers PROVE peakMemory[t] \in Nat
  <2>1. peakMemory[t] \in Samples \union {0}
    BY DEF StatsInv, StatsTypeOK
  <2>2. \A m \in Samples \union {0} : m \in Nat
    BY <1>1
  <2> QED
    BY <2>1, <2>2
<1> QED
  BY <1>2, <1>3

LEMMA StatsFoldInv ==
  ASSUME StatsInv, NEW t \in Trackers, Fold(t)
  PROVE  StatsInv'
<1>1. cfg.decay \in Nat \ {0} /\ peakMemory[t] \in Samples \union {0} /\ peakMemory[t] \in Nat
  BY InvNumbers DEF StatsInv, StatsTypeOK
<1>2. PeakMemory \in Nat /\ MaxMemory \in Nat
  BY DEF StatsInv, StatsTypeOK
<1>3. /\ MaxMemory' \in Samples \union {0}
      /\ MaxMemory' \in Nat
      /\ MaxMemory <= MaxMemory' /\ peakMemory[t] <= MaxMemory'
  BY <1>1, <1>2 DEF Fold, Larger, StatsInv
<1>4. PeakMemory' \in 0..MaxMemory'
  <2>1. PeakMemory <= MaxMemory'
    BY <1>2, <1>3 DEF StatsInv
  <2>2. Average(PeakMemory, peakMemory[t], cfg.decay) \in 0..MaxMemory'
    BY <1>1, <1>2, <1>3, <2>1, AverageBounded
  <2> QED
    BY <2>2 DEF Fold
<1>5. StatsTypeOK'
  BY <1>3, <1>4 DEF Fold, StatsInv, StatsTypeOK
<1> QED
  BY <1>3, <1>4, <1>5 DEF StatsInv

LEMMA StatsNextInv == StatsInv /\ [StatsNext]_statsVars => StatsInv'
<1> SUFFICES ASSUME StatsInv, [StatsNext]_statsVars PROVE StatsInv'
  OBVIOUS
<1>1. ASSUME NEW t \in Trackers, TrackProcess(t) PROVE StatsInv'
  BY <1>1 DEF StatsInv, StatsTypeOK, TrackProcess
<1>2. ASSUME NEW t \in Trackers, FindProcess(t) PROVE StatsInv'
  BY <1>2 DEF StatsInv, StatsTypeOK, FindProcess
<1>3. ASSUME NEW t \in Trackers, Sample(t) PROVE StatsInv'
  <2>1. peakMemory' \in [Trackers -> Samples \union {0}]
    BY <1>3 DEF StatsInv, StatsTypeOK, Sample, Larger
  <2> QED
    BY <1>3, <2>1 DEF StatsInv, StatsTypeOK, Sample
<1>4. ASSUME NEW t \in Trackers, StopSampling(t) PROVE StatsInv'
  BY <1>4 DEF StatsInv, StatsTypeOK, StopSampling
<1>5. ASSUME NEW t \in Trackers, Fold(t) PROVE StatsInv'
  BY <1>5, StatsFoldInv
<1>6. ASSUME NEW t \in Trackers, ProcessExits(t) PROVE StatsInv'
  BY <1>6 DEF StatsInv, StatsTypeOK, ProcessExits
<1>7. ASSUME NEW t \in Trackers, CancelBrowser(t) PROVE StatsInv'
  BY <1>7 DEF StatsInv, StatsTypeOK, CancelBrowser
<1>8. CASE UNCHANGED statsVars
  BY <1>8 DEF statsVars, StatsInv, StatsTypeOK
<1> QED
  BY <1>1, <1>2, <1>3, <1>4, <1>5, <1>6, <1>7, <1>8 DEF StatsNext, TrackerStep

\* The service always satisfies its inductive invariant.
THEOREM StatsInvariant == StatsSpec => []StatsInv
<1> QED
  BY StatsInitInv, StatsNextInv, PTL DEF StatsSpec

\* The average the limiter relies on never exceeds the largest peak folded
\* (process.go:105-110), in whatever order trackers end.
THEOREM PeakAlwaysWithinMax == StatsSpec => []PeakWithinMax
<1>1. StatsInv => PeakWithinMax
  BY DEF StatsInv, StatsTypeOK, PeakWithinMax
<1> QED
  BY <1>1, StatsInvariant, PTL

\* A fold does not overflow an int64, for the decays StatsAssumption allows.
LEMMA InvFits == StatsInv => FoldFits
<1> SUFFICES ASSUME StatsInv PROVE FoldFits
  OBVIOUS
<1>1. cfg.decay \in Nat \ {0} /\ cfg \in LimiterConfigs
  BY StatsAssumption DEF StatsInv, StatsTypeOK, RateLimitConfig
<1>2. PeakMemory \in Nat /\ MaxMemory \in Nat /\ PeakMemory <= MaxMemory
  BY DEF StatsInv, StatsTypeOK
<1>3. MaxMemory * cfg.decay <= MaxInt64
  <2>1. CASE MaxMemory \in Samples
    BY <1>1, <2>1, StatsAssumption
  <2>2. CASE MaxMemory = 0
    BY <1>1, <2>2, StatsAssumption
  <2> QED
    BY <2>1, <2>2 DEF StatsInv
<1>4. PeakMemory * (cfg.decay - 1) <= MaxMemory * (cfg.decay - 1)
  <2>1. \A x, y, z \in Nat : x <= y => x * z <= y * z
    OBVIOUS
  <2> QED
    BY <1>1, <1>2, <2>1
<1>5. MaxMemory * (cfg.decay - 1) + MaxMemory = MaxMemory * cfg.decay
  BY <1>1, <1>2
<1>6. MaxInt64 \in Nat
  BY StatsAssumption
<1> QED
  BY <1>1, <1>2, <1>3, <1>4, <1>5, <1>6 DEF FoldFits

\* The weighted sum of a fold never overflows, for those decays.
THEOREM FoldAlwaysFits == StatsSpec => []FoldFits
<1> QED
  BY InvFits, StatsInvariant, PTL

-----------------------------------------------------------------------------
\* Every fold moves the average towards the new peak and not past it.
THEOREM FoldAlwaysMovesTowardsPeak == StatsSpec => FoldMovesTowardsPeak
<1> DEFINE Moves(t) ==
      tracker[t] = "folding" /\ tracker'[t] = "free" =>
        IF PeakMemory = 0 THEN PeakMemory' = peakMemory[t]
        ELSE IF peakMemory[t] >= PeakMemory
        THEN PeakMemory' \in PeakMemory..peakMemory[t]
        ELSE PeakMemory' \in peakMemory[t]..PeakMemory
<1>1. StatsInv /\ [StatsNext]_statsVars => [\A t \in Trackers : Moves(t)]_statsVars
  <2> SUFFICES ASSUME StatsInv, StatsNext, NEW t \in Trackers,
                      tracker[t] = "folding", tracker'[t] = "free"
               PROVE  Moves(t)
    OBVIOUS
  <2>1. Fold(t)
    BY DEF StatsInv, StatsTypeOK, StatsNext, TrackerStep, TrackProcess, FindProcess, Sample,
           StopSampling, Fold, ProcessExits, CancelBrowser
  <2>2. PeakMemory \in Nat /\ peakMemory[t] \in Nat /\ cfg.decay \in Nat \ {0}
    BY InvNumbers DEF StatsInv, StatsTypeOK
  <2> QED
    BY <2>1, <2>2, AverageMoves DEF Fold
<1> QED
  BY <1>1, StatsInvariant, PTL DEF StatsSpec, FoldMovesTowardsPeak

-----------------------------------------------------------------------------
(***************************************************************************)
(* The rate limiter.                                                       *)
(***************************************************************************)

LimiterTyping ==
  /\ totalMemory \in TotalMemories
  /\ running \in Nat
  /\ pc \in [Requests -> {"idle", "loaded", "admitted", "serving", "rejected", "panicked"}]
  /\ seen \in [Requests -> 0..Cardinality(Requests)]
  /\ browser \in [Requests -> Trackers \union {None}]
  /\ mostDeciding \in 0..Cardinality(Requests)

DecidingRecorded == Cardinality(Deciding) <= mostDeciding

\* The requests that are decided on and will be added below ceiling c.
Passing(c) == {r \in Requests : pc[r] = "admitted" \/ (pc[r] = "loaded" /\ seen[r] < c)}

Bound(c) == IF mostDeciding = 0 THEN 0 ELSE c + mostDeciding - 1

PassingBounded == \A c \in Ceilings : running + Cardinality(Passing(c)) <= Bound(c)

LimiterInv == /\ StatsInv
              /\ LimiterTyping
              /\ RunningMatches
              /\ DecidingRecorded
              /\ PassingBounded

-----------------------------------------------------------------------------
(* Arithmetic of the counter.                                              *)

\* Adding one below the modulus, or the modulus less one above zero, does
\* what the code means by it.
LEMMA Uint32Steps ==
  /\ \A n \in Nat : n + 1 < Uint32 => (n + 1) % Uint32 = n + 1
  /\ \A n \in Nat : 0 < n /\ n <= Uint32 => (n + (Uint32 - 1)) % Uint32 = n - 1
<1>1. Uint32 \in Nat /\ Uint32 > 0
  BY LimiterAssumption, FS_CardinalityType
<1>2. \A n \in Nat : n < Uint32 => n % Uint32 = n
  BY <1>1
<1>3. \A n \in Nat : n < Uint32 => (n + Uint32) % Uint32 = n
  BY <1>1
<1>4. ASSUME NEW n \in Nat, 0 < n, n <= Uint32
      PROVE  (n + (Uint32 - 1)) % Uint32 = n - 1
  <2>1. n - 1 \in Nat /\ n - 1 < Uint32 /\ n + (Uint32 - 1) = (n - 1) + Uint32
    BY <1>1, <1>4
  <2> QED
    BY <2>1, <1>3
<1> QED
  BY <1>1, <1>2, <1>4

\* A set of requests and a request outside it: cardinalities and their bound.
LEMMA RequestsCount ==
  ASSUME NEW S \in SUBSET Requests
  PROVE  /\ Cardinality(S) \in 0..Cardinality(Requests)
         /\ Cardinality(Requests) \in Nat
         /\ \A r \in Requests \ S : /\ Cardinality(S \union {r}) = Cardinality(S) + 1
                                    /\ Cardinality(S) + 1 <= Cardinality(Requests)
         /\ \A r \in S : Cardinality(S \ {r}) = Cardinality(S) - 1 /\ Cardinality(S) >= 1
         /\ \A T \in SUBSET S : Cardinality(T) <= Cardinality(S)
<1>1. IsFiniteSet(Requests) /\ Cardinality(Requests) \in Nat
  BY LimiterAssumption, FS_CardinalityType
<1>2. IsFiniteSet(S) /\ Cardinality(S) \in Nat /\ Cardinality(S) <= Cardinality(Requests)
  BY <1>1, FS_Subset, FS_CardinalityType
<1>3. ASSUME NEW r \in Requests \ S
      PROVE  /\ Cardinality(S \union {r}) = Cardinality(S) + 1
             /\ Cardinality(S) + 1 <= Cardinality(Requests)
  <2>1. Cardinality(S \union {r}) = Cardinality(S) + 1
    BY <1>2, <1>3, FS_AddElement
  <2>2. S \union {r} \in SUBSET Requests
    BY <1>3
  <2>3. Cardinality(S \union {r}) <= Cardinality(Requests)
    BY <1>1, <2>2, FS_Subset
  <2> QED
    BY <2>1, <2>3
<1>4. ASSUME NEW r \in S
      PROVE  Cardinality(S \ {r}) = Cardinality(S) - 1 /\ Cardinality(S) >= 1
  <2>1. Cardinality(S \ {r}) = Cardinality(S) - 1
    BY <1>2, <1>4, FS_RemoveElement
  <2>2. Cardinality(S) # 0
    BY <1>2, <1>4, FS_EmptySet
  <2> QED
    BY <1>2, <2>1, <2>2
<1>5. \A T \in SUBSET S : Cardinality(T) <= Cardinality(S)
  BY <1>2, FS_Subset
<1> QED
  BY <1>1, <1>2, <1>3, <1>4, <1>5

\* The slots of the total memory are a natural number.
LEMMA CeilingsSlots ==
  ASSUME StatsInv, totalMemory \in TotalMemories, cfg.minMemory > 0
  PROVE  TotalSlots \in Nat
<1>1. /\ cfg \in RateLimitConfig /\ TotalMemories \subseteq Nat
      /\ Uint32 \in Nat /\ Uint32 > 0
  BY StatsAssumption, LimiterAssumption, FS_CardinalityType DEF StatsInv, StatsTypeOK
<1>2. cfg.maxAvailable \in Nat /\ cfg.minMemory \in Nat
  BY <1>1 DEF RateLimitConfig
<1>3. CappedTotal \in Nat
  BY <1>1, <1>2 DEF CappedTotal
<1>4. \A a, b \in Nat : b > 0 => a \div b \in Nat
  OBVIOUS
<1>5. \A a \in Nat : a % Uint32 \in Nat
  BY <1>1
<1> QED
  BY <1>2, <1>3, <1>4, <1>5 DEF TotalSlots

\* Ceilings are natural numbers; a request that the limiter lets through had
\* loaded a count below every one of them.
LEMMA CeilingsNat ==
  ASSUME StatsInv, totalMemory \in TotalMemories
  PROVE  \A c \in Ceilings : c \in Nat
<1>1. cfg \in RateLimitConfig
  BY StatsAssumption DEF StatsInv, StatsTypeOK
<1>2. cfg.minLimit \in Nat /\ cfg.maxLimit \in Nat
  BY <1>1 DEF RateLimitConfig
<1>3. cfg.minMemory > 0 => TotalSlots \in Nat
  BY CeilingsSlots
<1> QED
  BY <1>2, <1>3 DEF Ceilings, Larger

LEMMA FitsBelowCeilings ==
  ASSUME StatsInv, totalMemory \in TotalMemories,
         NEW n \in Nat, NEW free, ~DivisionPanics(n), Fits(n, free), NEW c \in Ceilings
  PROVE  n < c
<1>1. cfg \in RateLimitConfig
  BY StatsAssumption DEF StatsInv, StatsTypeOK
<1>2. cfg.minLimit \in Nat /\ cfg.maxLimit \in Nat
  BY <1>1 DEF RateLimitConfig
<1>3. c \in Nat
  BY CeilingsNat
<1>4. PICK k : /\ c = Larger(cfg.minLimit, k)
               /\ \/ cfg.maxLimit > 0 /\ k = cfg.maxLimit
                  \/ Divides /\ cfg.minMemory > 0 /\ k = TotalSlots
  BY DEF Ceilings
<1>5. k \in Nat
  BY <1>2, <1>4, CeilingsSlots DEF Larger
<1>6. CASE BelowMinimum(n)
  BY <1>2, <1>4, <1>5, <1>6 DEF BelowMinimum, Larger
<1>7. CASE ~HitMaximum(n) /\ ~NoSlot(n)
  BY <1>2, <1>4, <1>5, <1>7 DEF HitMaximum, NoSlot, Larger
<1> QED
  BY <1>6, <1>7 DEF Fits

-----------------------------------------------------------------------------
(* The inductive invariant, one lemma per step.                            *)

LEMMA LimiterInitInv == Init => LimiterInv
<1> SUFFICES ASSUME Init PROVE LimiterInv
  OBVIOUS
<1>1. Cardinality(Requests) \in Nat
  BY LimiterAssumption, FS_CardinalityType
<1>2. StatsInv
  BY StatsInitInv DEF Init
<1>3. LimiterTyping
  BY <1>1 DEF Init, LimiterTyping
<1>4. Serving = {} /\ Deciding = {} /\ \A c \in Ceilings : Passing(c) = {}
  BY DEF Init, Serving, Deciding, Passing
<1>5. RunningMatches /\ DecidingRecorded
  BY <1>4, FS_EmptySet DEF Init, RunningMatches, DecidingRecorded
<1>6. PassingBounded
  BY <1>4, FS_EmptySet DEF Init, PassingBounded, Bound
<1> QED
  BY <1>2, <1>3, <1>5, <1>6 DEF LimiterInv

\* No step moves a ceiling.
LEMMA CeilingsFixed == ASSUME UNCHANGED <<cfg, totalMemory>> PROVE Ceilings' = Ceilings
BY DEF Ceilings, Divides, TotalSlots, CappedTotal

\* A load: the only step that can raise a sum, and only from below c.
LEMMA LoadInv ==
  ASSUME LimiterInv, NEW r \in Requests, LoadRunning(r)
  PROVE  LimiterInv'
<1> USE DEF LimiterInv
<1>0. /\ Cardinality(Requests) \in Nat /\ running \in Nat
      /\ mostDeciding \in 0..Cardinality(Requests)
      /\ r \notin Deciding /\ Deciding \in SUBSET Requests
      /\ running \in 0..Cardinality(Requests)
  <2>1. Serving \in SUBSET Requests
    BY DEF Serving
  <2> QED
    BY <2>1, RequestsCount DEF LimiterTyping, LoadRunning, Deciding, RunningMatches
<1>1. Deciding' = Deciding \union {r} /\ Serving' = Serving
  BY DEF LimiterTyping, LoadRunning, Becomes, Deciding, Serving
<1>2. /\ Cardinality(Deciding') = Cardinality(Deciding) + 1
      /\ Cardinality(Deciding) \in Nat
      /\ Cardinality(Deciding) + 1 <= Cardinality(Requests)
  BY <1>0, <1>1, RequestsCount
<1>3. /\ mostDeciding' \in 0..Cardinality(Requests)
      /\ mostDeciding' >= mostDeciding
      /\ mostDeciding' >= Cardinality(Deciding')
      /\ mostDeciding' > 0
  BY <1>0, <1>2 DEF LoadRunning, Larger
<1>4. StatsInv'
  BY StatsNextInv DEF LoadRunning
<1>5. LimiterTyping'
  BY <1>0, <1>3 DEF LimiterTyping, LoadRunning, Becomes
<1>6. RunningMatches' /\ DecidingRecorded'
  BY <1>1, <1>2, <1>3 DEF RunningMatches, DecidingRecorded, LoadRunning
<1>7. ASSUME NEW c \in Ceilings
      PROVE  running' + Cardinality(Passing(c)') <= Bound(c)'
  <2>1. c \in Nat
    BY CeilingsNat DEF LimiterTyping
  <2>2. Passing(c) \in SUBSET Requests /\ Passing(c)' \in SUBSET Deciding' /\ Deciding' \in SUBSET Requests
    BY <1>0, <1>1 DEF Passing, Deciding
  <2>3. /\ Cardinality(Passing(c)) \in Nat
        /\ Cardinality(Passing(c)') \in Nat
        /\ Cardinality(Passing(c)') <= Cardinality(Deciding')
    <3>1. Passing(c)' \in SUBSET Requests
      BY <2>2
    <3> QED
      BY <2>2, <3>1, RequestsCount
  <2>4. running' = running /\ Bound(c)' = c + mostDeciding' - 1
    BY <1>3 DEF LoadRunning, Bound
  <2>5. CASE running < c
    BY <1>0, <1>2, <1>3, <2>1, <2>3, <2>4, <2>5
  <2>6. CASE ~(running < c)
    <3>1. Passing(c)' = Passing(c)
      BY <1>0, <2>1, <2>6 DEF Passing, LoadRunning, Becomes, LimiterTyping
    <3>2. running + Cardinality(Passing(c)) <= Bound(c)
      BY DEF PassingBounded
    <3> QED
      BY <1>0, <1>3, <2>1, <2>3, <2>4, <2>6, <3>1, <3>2 DEF Bound
  <2> QED
    BY <2>5, <2>6
<1>8. PassingBounded'
  BY <1>7, CeilingsFixed DEF PassingBounded, LoadRunning, statsVars
<1> QED
  BY <1>4, <1>5, <1>6, <1>8

\* A step that takes nobody into service and lets nobody more pass keeps
\* every sum.
LEMMA QuietStepInv ==
  ASSUME LimiterInv, UNCHANGED <<cfg, totalMemory, running, seen, mostDeciding>>,
         StatsInv', LimiterTyping', Serving' = Serving, Deciding' \subseteq Deciding,
         \A c \in Ceilings : Passing(c)' \subseteq Passing(c)
  PROVE  LimiterInv'
<1> USE DEF LimiterInv
<1>1. RunningMatches'
  BY DEF RunningMatches
<1>2. DecidingRecorded'
  <2>1. Deciding \in SUBSET Requests /\ Deciding' \in SUBSET Deciding /\ Deciding' \in SUBSET Requests
    BY DEF Deciding
  <2>2. /\ Cardinality(Deciding') <= Cardinality(Deciding)
        /\ Cardinality(Deciding) \in Nat /\ Cardinality(Deciding') \in Nat
    BY <2>1, RequestsCount
  <2>3. mostDeciding \in Nat
    BY DEF LimiterTyping
  <2> QED
    BY <2>2, <2>3 DEF DecidingRecorded
<1>3. ASSUME NEW c \in Ceilings
      PROVE  running' + Cardinality(Passing(c)') <= Bound(c)'
  <2>1. Passing(c) \in SUBSET Requests /\ Passing(c)' \in SUBSET Passing(c) /\ Passing(c)' \in SUBSET Requests
    BY DEF Passing
  <2>2. /\ Cardinality(Passing(c)') <= Cardinality(Passing(c))
        /\ Cardinality(Passing(c)) \in Nat /\ Cardinality(Passing(c)') \in Nat
    BY <2>1, RequestsCount
  <2>3. running \in Nat /\ mostDeciding \in Nat /\ c \in Nat
    BY CeilingsNat DEF LimiterTyping
  <2>4. running + Cardinality(Passing(c)) <= Bound(c)
    BY DEF PassingBounded
  <2>5. Bound(c)' = Bound(c) /\ Bound(c) \in Int
    BY <2>3 DEF Bound
  <2> QED
    BY <2>2, <2>3, <2>4, <2>5
<1>4. PassingBounded'
  BY <1>3, CeilingsFixed DEF PassingBounded
<1> QED
  BY <1>1, <1>2, <1>4

\* A decision turns a load into an admission only below every ceiling.
LEMMA DecideInv ==
  ASSUME LimiterInv, NEW r \in Requests, Decide(r)
  PROVE  LimiterInv'
<1> USE DEF LimiterInv
<1>1. StatsInv'
  BY StatsNextInv DEF Decide
<1>2. PICK state \in {"admitted", "rejected", "panicked"} :
        /\ Becomes(r, state)
        /\ state = "admitted" => \E free \in FreeMemories :
                                   ~DivisionPanics(seen[r]) /\ Fits(seen[r], free)
  BY DEF Decide
<1>3. LimiterTyping'
  BY <1>2 DEF LimiterTyping, Decide, Becomes
<1>4. Serving' = Serving /\ Deciding' \subseteq Deciding
  BY <1>2 DEF LimiterTyping, Decide, Becomes, Serving, Deciding
<1>5. ASSUME NEW c \in Ceilings PROVE Passing(c)' \subseteq Passing(c)
  <2>1. CASE state = "admitted"
    <3>1. seen[r] \in Nat
      BY DEF LimiterTyping
    <3>2. seen[r] < c
      BY <1>2, <2>1, <3>1, FitsBelowCeilings DEF LimiterTyping
    <3> QED
      BY <1>2, <3>2 DEF Passing, Decide, Becomes, LimiterTyping
  <2>2. CASE state # "admitted"
    BY <1>2, <2>2 DEF Passing, Decide, Becomes, LimiterTyping
  <2> QED
    BY <2>1, <2>2
<1> QED
  BY <1>1, <1>3, <1>4, <1>5, QuietStepInv DEF Decide, statsVars

\* An add takes a slot for a request that has none.
LEMMA SlotTaken ==
  ASSUME LimiterInv, NEW r \in Requests, Admit(r)
  PROVE  /\ running \in Nat /\ running' = running + 1
         /\ Cardinality(Serving \union {r}) = running + 1
         /\ r \notin Serving /\ Serving' = Serving \union {r}
<1> USE DEF LimiterInv
<1>0. /\ Serving \in SUBSET Requests /\ r \in Requests \ Serving
      /\ running = Cardinality(Serving) /\ running \in Nat
  BY DEF Serving, Admit, RunningMatches, LimiterTyping
<1>1. /\ Cardinality(Serving \union {r}) = running + 1
      /\ running + 1 <= Cardinality(Requests)
      /\ Cardinality(Requests) \in Nat
  BY <1>0, RequestsCount
<1>2. running' = running + 1
  <2>1. Uint32 \in Nat /\ running + 1 < Uint32
    BY <1>0, <1>1, LimiterAssumption
  <2> QED
    BY <1>0, <2>1, Uint32Steps DEF Admit
<1>3. Serving' = Serving \union {r}
  BY DEF LimiterTyping, Admit, Becomes, Serving
<1> QED
  BY <1>0, <1>1, <1>2, <1>3

\* An add turns a passing request into a serving one: every sum stays.
LEMMA AdmitInv ==
  ASSUME LimiterInv, NEW r \in Requests, Admit(r)
  PROVE  LimiterInv'
<1> USE DEF LimiterInv
<1>0. running \in Nat
  BY DEF LimiterTyping
<1>1. Cardinality(Serving \union {r}) = running + 1
  BY SlotTaken
<1>2. running' = running + 1
  BY SlotTaken
<1>3. Serving' = Serving \union {r} /\ Deciding' = Deciding \ {r}
  BY SlotTaken DEF LimiterTyping, Admit, Becomes, Deciding
<1>4. StatsInv'
  BY StatsNextInv DEF Admit
<1>5. LimiterTyping'
  BY <1>0, <1>2 DEF LimiterTyping, Admit, Becomes
<1>6. RunningMatches'
  BY <1>1, <1>2, <1>3 DEF RunningMatches
<1>7. DecidingRecorded'
  <2>1. Deciding \in SUBSET Requests /\ r \in Deciding
    BY DEF Deciding, Admit
  <2>2. Cardinality(Deciding') = Cardinality(Deciding) - 1 /\ Cardinality(Deciding) \in Nat
    BY <1>3, <2>1, RequestsCount
  <2> QED
    BY <2>2 DEF DecidingRecorded, Admit, LimiterTyping
<1>8. ASSUME NEW c \in Ceilings
      PROVE  running' + Cardinality(Passing(c)') <= Bound(c)'
  <2>1. Passing(c) \in SUBSET Requests /\ r \in Passing(c)
    BY DEF Passing, Admit
  <2>2. Passing(c)' = Passing(c) \ {r}
    BY DEF Passing, Admit, Becomes, LimiterTyping
  <2>3. Cardinality(Passing(c)') = Cardinality(Passing(c)) - 1 /\ Cardinality(Passing(c)) \in Nat
    BY <2>1, <2>2, RequestsCount
  <2>4. running + Cardinality(Passing(c)) <= Bound(c) /\ Bound(c)' = Bound(c)
    BY DEF PassingBounded, Bound, Admit
  <2> QED
    BY <1>0, <1>2, <2>3, <2>4
<1>9. PassingBounded'
  BY <1>8, CeilingsFixed DEF PassingBounded, Admit, statsVars
<1> QED
  BY <1>4, <1>5, <1>6, <1>7, <1>9

\* The statistics' part of a request's end is a step of the statistics.
LEMMA LeaveStats ==
  ASSUME LimiterTyping, NEW r \in Requests, CancelOwnBrowser(r)
  PROVE  [StatsNext]_statsVars
<1>1. CASE browser[r] = None
  BY <1>1 DEF CancelOwnBrowser
<1>2. CASE browser[r] # None
  <2>1. browser[r] \in Trackers
    BY <1>2 DEF LimiterTyping
  <2> QED
    BY <1>2, <2>1 DEF CancelOwnBrowser, StatsNext
<1> QED
  BY <1>1, <1>2

\* A request's end gives back the slot it had.
LEMMA SlotGivenBack ==
  ASSUME LimiterInv, NEW r \in Requests, NEW state \in {"idle", "panicked"}, Leave(r, state)
  PROVE  /\ running \in Nat /\ running' = running - 1 /\ running' \in Nat
         /\ Cardinality(Serving \ {r}) = running - 1
         /\ r \in Serving /\ Serving' = Serving \ {r}
<1> USE DEF LimiterInv
<1>0. /\ Serving \in SUBSET Requests /\ r \in Serving
      /\ running = Cardinality(Serving) /\ running \in Nat
  BY DEF Serving, Leave, RunningMatches, LimiterTyping
<1>1. /\ Cardinality(Serving \ {r}) = running - 1 /\ running >= 1
      /\ running <= Cardinality(Requests) /\ Cardinality(Requests) \in Nat
  BY <1>0, RequestsCount
<1>2. running' = running - 1 /\ running' \in Nat
  <2>1. Uint32 \in Nat /\ running <= Uint32
    BY <1>0, <1>1, LimiterAssumption
  <2> QED
    BY <1>0, <1>1, <2>1, Uint32Steps DEF Leave, Decremented
<1>3. Serving' = Serving \ {r}
  BY DEF LimiterTyping, Leave, Becomes, Serving
<1> QED
  BY <1>0, <1>1, <1>2, <1>3

\* It lowers every sum.
LEMMA LeaveInv ==
  ASSUME LimiterInv, NEW r \in Requests, NEW state \in {"idle", "panicked"}, Leave(r, state)
  PROVE  LimiterInv'
<1> USE DEF LimiterInv
<1>0. running \in Nat
  BY DEF LimiterTyping
<1>1. Cardinality(Serving \ {r}) = running - 1
  BY SlotGivenBack
<1>2. running' = running - 1 /\ running' \in Nat
  BY SlotGivenBack
<1>3. Serving' = Serving \ {r} /\ Deciding' = Deciding
  BY SlotGivenBack DEF LimiterTyping, Leave, Becomes, Deciding
<1>4. StatsInv' /\ cfg' = cfg
  <2>1. [StatsNext]_statsVars
    BY LeaveStats DEF Leave
  <2>2. cfg' = cfg
    BY DEF Leave, CancelOwnBrowser, CancelBrowser, statsVars
  <2> QED
    BY <2>1, <2>2, StatsNextInv
<1>5. LimiterTyping'
  BY <1>2 DEF LimiterTyping, Leave, Becomes
<1>6. RunningMatches' /\ DecidingRecorded'
  BY <1>1, <1>2, <1>3 DEF RunningMatches, DecidingRecorded, Leave
<1>7. ASSUME NEW c \in Ceilings
      PROVE  running' + Cardinality(Passing(c)') <= Bound(c)'
  <2>1. Passing(c)' = Passing(c)
    BY DEF Passing, Leave, Becomes, LimiterTyping
  <2>2. Cardinality(Passing(c)) \in Nat
    <3>1. Passing(c) \in SUBSET Requests
      BY DEF Passing
    <3> QED
      BY <3>1, RequestsCount
  <2>3. running + Cardinality(Passing(c)) <= Bound(c) /\ Bound(c)' = Bound(c)
    BY DEF PassingBounded, Bound, Leave
  <2>4. Bound(c) \in Int
    <3>1. c \in Nat /\ mostDeciding \in Nat
      BY CeilingsNat DEF LimiterTyping
    <3> QED
      BY <3>1 DEF Bound
  <2> QED
    BY <1>0, <1>2, <2>1, <2>2, <2>3, <2>4
<1>8. PassingBounded'
  BY <1>4, <1>7, CeilingsFixed DEF PassingBounded, Leave
<1> QED
  BY <1>4, <1>5, <1>6, <1>8

\* The start of a browser and a response leave the count alone.
LEMMA LaunchInv ==
  ASSUME LimiterInv, NEW r \in Requests, NEW t \in Trackers, LaunchBrowser(r, t)
  PROVE  LimiterInv'
<1> USE DEF LimiterInv
<1>1. StatsInv' /\ cfg' = cfg
  BY StatsNextInv DEF LaunchBrowser, StatsNext, TrackProcess
<1>2. LimiterTyping'
  BY DEF LimiterTyping, LaunchBrowser
<1>3. Serving' = Serving /\ Deciding' = Deciding /\ \A c \in Ceilings : Passing(c)' = Passing(c)
  BY DEF LaunchBrowser, Serving, Deciding, Passing
<1> QED
  BY <1>1, <1>2, <1>3, QuietStepInv DEF LaunchBrowser

LEMMA RespondInv ==
  ASSUME LimiterInv, NEW r \in Requests, Respond(r)
  PROVE  LimiterInv'
<1> USE DEF LimiterInv
<1>1. StatsInv'
  BY StatsNextInv DEF Respond
<1>2. LimiterTyping'
  BY DEF LimiterTyping, Respond, Becomes
<1>3. Serving' = Serving /\ Deciding' = Deciding /\ \A c \in Ceilings : Passing(c)' = Passing(c)
  BY DEF LimiterTyping, Respond, Becomes, Serving, Deciding, Passing
<1> QED
  BY <1>1, <1>2, <1>3, QuietStepInv DEF Respond, statsVars

\* So does everything the trackers and their processes do.
LEMMA TrackersInv ==
  ASSUME LimiterInv, NEW t \in Trackers, TrackerStep(t) \/ ProcessExits(t), UNCHANGED limiterVars
  PROVE  LimiterInv'
<1> USE DEF LimiterInv
<1>1. StatsInv' /\ cfg' = cfg
  BY StatsNextInv DEF StatsNext, TrackerStep, FindProcess, Sample, StopSampling, Fold, ProcessExits
<1>2. LimiterTyping'
  BY DEF LimiterTyping, limiterVars
<1>3. Serving' = Serving /\ Deciding' = Deciding /\ \A c \in Ceilings : Passing(c)' = Passing(c)
  BY DEF limiterVars, Serving, Deciding, Passing
<1> QED
  BY <1>1, <1>2, <1>3, QuietStepInv DEF limiterVars

LEMMA LimiterNextInv == LimiterInv /\ [Next]_vars => LimiterInv'
<1> SUFFICES ASSUME LimiterInv, [Next]_vars PROVE LimiterInv'
  OBVIOUS
<1>1. ASSUME NEW r \in Requests, LoadRunning(r) PROVE LimiterInv'
  BY <1>1, LoadInv
<1>2. ASSUME NEW r \in Requests, Decide(r) PROVE LimiterInv'
  BY <1>2, DecideInv
<1>3. ASSUME NEW r \in Requests, Admit(r) PROVE LimiterInv'
  BY <1>3, AdmitInv
<1>4. ASSUME NEW r \in Requests, NEW t \in Trackers, LaunchBrowser(r, t) PROVE LimiterInv'
  BY <1>4, LaunchInv
<1>5. ASSUME NEW r \in Requests, HandlerReturns(r) PROVE LimiterInv'
  BY <1>5, LeaveInv DEF HandlerReturns
<1>6. ASSUME NEW r \in Requests, HandlerPanics(r) PROVE LimiterInv'
  BY <1>6, LeaveInv DEF HandlerPanics
<1>7. ASSUME NEW r \in Requests, Respond(r) PROVE LimiterInv'
  BY <1>7, RespondInv
<1>8. ASSUME NEW t \in Trackers, TrackerStep(t) \/ ProcessExits(t), UNCHANGED limiterVars
      PROVE  LimiterInv'
  BY <1>8, TrackersInv
<1>9. CASE UNCHANGED vars
  <2>1. UNCHANGED statsVars /\ UNCHANGED limiterVars
    BY <1>9 DEF vars
  <2>2. StatsInv' /\ LimiterTyping'
    BY <2>1, StatsNextInv DEF LimiterInv, LimiterTyping, limiterVars
  <2>3. Serving' = Serving /\ Deciding' = Deciding /\ \A c \in Ceilings : Passing(c)' = Passing(c)
    BY <2>1 DEF limiterVars, Serving, Deciding, Passing
  <2> QED
    BY <2>1, <2>2, <2>3, QuietStepInv DEF limiterVars, statsVars
<1> QED
  BY <1>1, <1>2, <1>3, <1>4, <1>5, <1>6, <1>7, <1>8, <1>9 DEF Next, Handle

\* The limiter, composed with the statistics, always satisfies its invariant.
THEOREM LimiterInvariant == Spec => []LimiterInv
<1> QED
  BY LimiterInitInv, LimiterNextInv, PTL DEF Spec

-----------------------------------------------------------------------------
(* What follows.                                                           *)

\* Type correctness: the count never wraps, it is at most the number of
\* requests.
THEOREM LimiterTypeCorrect == Spec => []TypeOK
<1>1. LimiterInv => TypeOK
  <2> SUFFICES ASSUME LimiterInv PROVE TypeOK
    OBVIOUS
  <2>1. Serving \in SUBSET Requests
    BY DEF Serving
  <2>2. running \in 0..Cardinality(Requests)
    BY <2>1, RequestsCount DEF LimiterInv, RunningMatches
  <2> QED
    BY <2>2 DEF LimiterInv, StatsInv, LimiterTyping, TypeOK
<1> QED
  BY <1>1, LimiterInvariant, PTL

\* The count is the number of requests being served, through rejections,
\* panics and cancellations (ratelimiter.go:66-76).
THEOREM RunningAlwaysMatches == Spec => []RunningMatches
<1>1. LimiterInv => RunningMatches
  BY DEF LimiterInv
<1> QED
  BY <1>1, LimiterInvariant, PTL

\* The overshoot of the check-then-add is at most the number of requests ever
\* decided at once, less one; requests decided one by one respect MaxLimit and
\* the slots of the total memory (ratelimiter.go:91, :66).
THEOREM OvershootAlwaysBounded == Spec => []OvershootBounded
<1>1. LimiterInv => OvershootBounded
  <2> SUFFICES ASSUME LimiterInv, NEW c \in Ceilings
               PROVE  running <= Bound(c)
    BY DEF OvershootBounded, Bound
  <2>1. running + Cardinality(Passing(c)) <= Bound(c)
    BY DEF LimiterInv, PassingBounded
  <2>2. Cardinality(Passing(c)) \in Nat
    <3>1. Passing(c) \in SUBSET Requests
      BY DEF Passing
    <3> QED
      BY <3>1, RequestsCount
  <2>3. running \in Nat /\ c \in Nat /\ mostDeciding \in Nat
    BY CeilingsNat DEF LimiterInv, LimiterTyping
  <2> QED
    BY <2>1, <2>2, <2>3 DEF Bound
<1> QED
  BY <1>1, LimiterInvariant, PTL

\* config.go:959-962 is right as long as requests are decided one at a time,
\* whatever the memory and however they end: only the gap between the load and
\* the add lets the count past the maximum.
THEOREM AloneNeverAboveMaxLimit == Spec => [](mostDeciding <= 1 => NeverAboveMaxLimit)
<1>1. LimiterInv /\ OvershootBounded => (mostDeciding <= 1 => NeverAboveMaxLimit)
  <2> SUFFICES ASSUME LimiterInv, OvershootBounded, mostDeciding <= 1,
                      cfg.maxLimit > 0, cfg.minLimit <= cfg.maxLimit
               PROVE  running <= cfg.maxLimit
    BY DEF NeverAboveMaxLimit
  <2>1. cfg.minLimit \in Nat /\ cfg.maxLimit \in Nat
    BY StatsAssumption DEF LimiterInv, StatsInv, StatsTypeOK, RateLimitConfig
  <2>2. Larger(cfg.minLimit, cfg.maxLimit) = cfg.maxLimit
    BY <2>1 DEF Larger
  <2>3. cfg.maxLimit \in Ceilings
    BY <2>2 DEF Ceilings
  <2>4. running <= IF mostDeciding = 0 THEN 0 ELSE cfg.maxLimit + mostDeciding - 1
    BY <2>3 DEF OvershootBounded
  <2>5. running \in Nat /\ mostDeciding \in Nat
    BY DEF LimiterInv, LimiterTyping
  <2> QED
    BY <2>1, <2>4, <2>5
<1> QED
  BY <1>1, LimiterInvariant, OvershootAlwaysBounded, PTL

-----------------------------------------------------------------------------
(***************************************************************************)
(* What safety owes to the two liveness properties.                        *)
(***************************************************************************)

\* Whose browsers the trackers watch: that of a request being served, or one
\* whose context was cancelled.
Owned ==
  /\ \A r \in Requests : browser[r] # None => pc[r] = "serving"
  /\ \A t \in Trackers :
       tracker[t] # "free" => cancelled[t] \/ \E r \in Requests : browser[r] = t

LEMMA OwnedStep ==
  ASSUME LimiterInv, Owned, [Next]_vars
  PROVE  Owned'
<1> USE DEF LimiterInv, LimiterTyping, StatsInv, StatsTypeOK
<1>1. ASSUME NEW r \in Requests, LoadRunning(r) \/ Decide(r) \/ Admit(r) \/ Respond(r)
      PROVE  Owned'
  <2>1. UNCHANGED <<statsVars, browser>> /\ pc[r] # "serving"
    BY <1>1 DEF LoadRunning, Decide, Admit, Respond
  <2>2. \A s \in Requests : s # r => pc'[s] = pc[s]
    BY <1>1 DEF LoadRunning, Decide, Admit, Respond, Becomes
  <2> QED
    BY <2>1, <2>2 DEF Owned, statsVars
<1>2. ASSUME NEW r \in Requests, NEW t \in Trackers, LaunchBrowser(r, t) PROVE Owned'
  <2>1. /\ browser[r] = None /\ pc[r] = "serving" /\ pc' = pc
        /\ browser' = [browser EXCEPT ![r] = t]
    BY <1>2 DEF LaunchBrowser
  <2>2. \A u \in Trackers : u # t => tracker'[u] = tracker[u] /\ cancelled'[u] = cancelled[u]
    BY <1>2 DEF LaunchBrowser, TrackProcess
  <2>3. ASSUME NEW u \in Trackers, tracker'[u] # "free"
        PROVE  cancelled'[u] \/ \E s \in Requests : browser'[s] = u
    <3>1. CASE u = t
      BY <2>1, <3>1
    <3>2. CASE u # t
      <4>1. cancelled[u] \/ \E s \in Requests : browser[s] = u
        BY <2>2, <2>3, <3>2 DEF Owned
      <4>2. ASSUME NEW s \in Requests, browser[s] = u, u # None PROVE browser'[s] = u
        BY <2>1, <4>2
      <4> QED
        BY <2>2, <3>2, <4>1, <4>2, NoneIsNoTracker
    <3> QED
      BY <3>1, <3>2
  <2> QED
    BY <2>1, <2>3 DEF Owned
<1>3. ASSUME NEW r \in Requests, HandlerReturns(r) \/ HandlerPanics(r) PROVE Owned'
  <2>1. /\ CancelOwnBrowser(r)
        /\ browser' = [browser EXCEPT ![r] = None]
        /\ \A s \in Requests : s # r => pc'[s] = pc[s]
    BY <1>3 DEF HandlerReturns, HandlerPanics, Leave, Becomes
  <2>2. /\ tracker' = tracker
        /\ \A u \in Trackers : cancelled[u] \/ u = browser[r] => cancelled'[u]
    BY <2>1, NoneIsNoTracker DEF CancelOwnBrowser, CancelBrowser, statsVars
  <2>3. \A s \in Requests : browser'[s] # None => pc'[s] = "serving"
    BY <2>1 DEF Owned
  <2>4. ASSUME NEW u \in Trackers, tracker'[u] # "free"
        PROVE  cancelled'[u] \/ \E s \in Requests : browser'[s] = u
    BY <2>1, <2>2, <2>4 DEF Owned
  <2> QED
    BY <2>3, <2>4 DEF Owned
<1>4. ASSUME NEW t \in Trackers, TrackerStep(t) \/ ProcessExits(t), UNCHANGED limiterVars
      PROVE  Owned'
  <2>1. /\ UNCHANGED <<browser, pc, cancelled>>
        /\ \A u \in Trackers : tracker'[u] # "free" => tracker[u] # "free"
    BY <1>4 DEF limiterVars, TrackerStep, FindProcess, Sample, StopSampling, Fold, ProcessExits
  <2> QED
    BY <2>1 DEF Owned
<1>5. CASE UNCHANGED vars
  BY <1>5 DEF vars, statsVars, limiterVars, Owned
<1> QED
  BY <1>1, <1>2, <1>3, <1>4, <1>5 DEF Next, Handle

\* No tracker is left behind: one that still runs is that of a request being
\* served, or its context was cancelled and it will find so, however requests
\* end and trackers interleave (process.go:87-131).  What fairness adds to this
\* is TrackersFollowRequests.
THEOREM NoTrackerLeftBehind == Spec => []Owned
<1>1. Init => Owned
  BY DEF Init, StatsInit, Owned
<1> QED
  BY <1>1, OwnedStep, LimiterInvariant, PTL DEF Spec

\* A request is turned away, or its handler panics, only if at least as many
\* requests as the minimum limit were being served when the limiter counted
\* them, whatever the memory, the average and the maximum (ratelimiter.go:91-94):
\* with a minimum limit, a limiter that serves nobody admits.  What fairness
\* adds to this is SomeoneGetsThrough.
THEOREM TurnedAwayOnlyAboveMinimum ==
  Spec => [][\A r \in Requests :
               /\ pc[r] = "idle" /\ pc'[r] = "loaded" => seen'[r] = Cardinality(Serving)
               /\ pc[r] = "loaded" /\ pc'[r] \notin {"loaded", "admitted"} =>
                    seen[r] >= cfg.minLimit]_vars
<1>1. LimiterInv /\ [Next]_vars =>
        [\A r \in Requests :
           /\ pc[r] = "idle" /\ pc'[r] = "loaded" => seen'[r] = Cardinality(Serving)
           /\ pc[r] = "loaded" /\ pc'[r] \notin {"loaded", "admitted"} =>
                seen[r] >= cfg.minLimit]_vars
  <2> SUFFICES ASSUME LimiterInv, Next, NEW r \in Requests
               PROVE  /\ pc[r] = "idle" /\ pc'[r] = "loaded" => seen'[r] = Cardinality(Serving)
                      /\ pc[r] = "loaded" /\ pc'[r] \notin {"loaded", "admitted"} =>
                           seen[r] >= cfg.minLimit
    OBVIOUS
  <2> USE DEF LimiterInv, LimiterTyping
  <2>1. CASE \E t \in Trackers : (TrackerStep(t) \/ ProcessExits(t)) /\ UNCHANGED limiterVars
    BY <2>1 DEF limiterVars
  <2>2. ASSUME NEW s \in Requests,
               LoadRunning(s) \/ Handle(s) \/ \E t \in Trackers : LaunchBrowser(s, t)
        PROVE  /\ pc[r] = "idle" /\ pc'[r] = "loaded" => LoadRunning(r)
               /\ pc[r] = "loaded" /\ pc'[r] # "loaded" => Decide(r)
    BY <2>2 DEF Handle, LoadRunning, Decide, Admit, HandlerReturns, HandlerPanics, Leave, Respond,
       LaunchBrowser, Becomes
  <2>3. LoadRunning(r) => seen'[r] = Cardinality(Serving)
    BY DEF LoadRunning, RunningMatches
  <2>4. Decide(r) /\ pc'[r] # "admitted" => ~BelowMinimum(seen[r])
    BY DEF Decide, DivisionPanics, Fits, Becomes
  <2>5. seen[r] \in Int /\ cfg.minLimit \in Int
    BY StatsAssumption DEF StatsInv, StatsTypeOK, RateLimitConfig
  <2>6. ~BelowMinimum(seen[r]) => seen[r] >= cfg.minLimit
    BY <2>5 DEF BelowMinimum
  <2> QED
    BY <2>1, <2>2, <2>3, <2>4, <2>6 DEF Next
<1> QED
  BY <1>1, LimiterInvariant, PTL DEF Spec

-----------------------------------------------------------------------------
\* The count, as the counter of InflightCounter.
Slots == INSTANCE InflightCounter WITH outstanding <- Serving, count <- running

\* The atomic counter, with its wrapping arithmetic and its deferred decrement,
\* implements the counter of InflightCounter: one step up for each request that
\* is admitted and one down when it leaves, however it leaves.
THEOREM LimiterImplementsCounter == Spec => Slots!Spec
<1>1. Init => Slots!Init
  BY DEF Init, Slots!Init, Serving
<1>2. LimiterInv /\ [Next]_vars => [Slots!Next]_Slots!vars
  <2> SUFFICES ASSUME LimiterInv, [Next]_vars PROVE [Slots!Next]_Slots!vars
    OBVIOUS
  <2>1. ASSUME NEW r \in Requests,
               \/ LoadRunning(r) \/ Decide(r) \/ Respond(r)
               \/ \E t \in Trackers : LaunchBrowser(r, t)
        PROVE  UNCHANGED Slots!vars
    <3>1. running' = running /\ Serving' = Serving
      BY <2>1 DEF LoadRunning, Decide, Respond, LaunchBrowser, Becomes, Serving, LimiterInv,
         LimiterTyping
    <3> QED
      BY <3>1 DEF Slots!vars
  <2>2. ASSUME NEW r \in Requests, Admit(r) PROVE Slots!Begin(r)
    BY <2>2, SlotTaken DEF Slots!Begin
  <2>3. ASSUME NEW r \in Requests, HandlerReturns(r) \/ HandlerPanics(r) PROVE Slots!End(r)
    BY <2>3, SlotGivenBack DEF Slots!End, HandlerReturns, HandlerPanics
  <2>4. CASE UNCHANGED limiterVars
    BY <2>4 DEF limiterVars, Slots!vars, Serving
  <2> QED
    BY <2>1, <2>2, <2>3, <2>4 DEF Next, Handle, vars, Slots!Next
<1> QED
  BY <1>1, <1>2, LimiterInvariant, PTL DEF Spec, Slots!Spec

\* Composed with the limiter and the requests, the statistics still behave as
\* ProcessStats says, so all that is proved of StatsSpec holds here as well.
THEOREM ComposedStats == Spec => StatsSpec
<1>1. Init => StatsInit
  BY DEF Init
<1>2. LimiterInv /\ [Next]_vars => [StatsNext]_statsVars
  <2> SUFFICES ASSUME LimiterInv, [Next]_vars PROVE [StatsNext]_statsVars
    OBVIOUS
  <2>1. ASSUME NEW r \in Requests,
               LoadRunning(r) \/ Decide(r) \/ Admit(r) \/ Respond(r)
        PROVE  UNCHANGED statsVars
    BY <2>1 DEF LoadRunning, Decide, Admit, Respond
  <2>2. ASSUME NEW r \in Requests, NEW t \in Trackers, LaunchBrowser(r, t)
        PROVE  StatsNext
    BY <2>2 DEF LaunchBrowser, StatsNext
  <2>3. ASSUME NEW r \in Requests, HandlerReturns(r) \/ HandlerPanics(r)
        PROVE  [StatsNext]_statsVars
    BY <2>3, LeaveStats DEF LimiterInv, HandlerReturns, HandlerPanics, Leave
  <2>4. ASSUME NEW t \in Trackers, TrackerStep(t) \/ ProcessExits(t)
        PROVE  StatsNext
    BY <2>4 DEF StatsNext
  <2>5. CASE UNCHANGED vars
    BY <2>5 DEF vars
  <2> QED
    BY <2>1, <2>2, <2>3, <2>4, <2>5 DEF Next, Handle
<1> QED
  BY <1>1, <1>2, LimiterInvariant, PTL DEF Spec, StatsSpec
=============================================================================
