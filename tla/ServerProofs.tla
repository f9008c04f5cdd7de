----------------------------- MODULE ServerProofs -----------------------------
(***************************************************************************)
(* For any set of requests, any directories of the host, any bind mounts   *)
(* and any number of overrides: a sandboxed command is confined, the gauge *)
(* of requests is exact, a process that ends well has abandoned nothing,   *)
(* and a service that namespaces has seen the sandbox work.                *)
(*                                                                         *)
(* The sandbox's invariant says what each point of SetupFS has behind it.  *)
(* The server's joins the stages of the process to it: who the sandbox     *)
(* runs for, and that nothing is left once the shutdown has drained.       *)
(***************************************************************************)
EXTENDS Server, FiniteSetTheorems, TLAPS

-----------------------------------------------------------------------------
(* The sandbox.                                                            *)

Early == {"start", "base", "binds", "bind self"}
Unrooted == {"make old root", "pivot", "undo", "chroot"}
Rooted == {"chdir", "detach", "remove old root", "command", "running"}

Fresh == root = "host" /\ inside = FALSE /\ oldRoot = "none"

SandboxTyping ==
  /\ bootstrap \in {"off", "waiting", "exited", "killed"}
  /\ inner \in {"none"} \union Early \union Unrooted \union Rooted \union Ended
  /\ root \in {"host", "pivot", "chroot"}

\* What is mounted, and what lies over it.
Mounts ==
  /\ bootstrap = "waiting" => binds \in BindLists
  /\ inner = "binds" => todo \in Seq(STRING) /\ todo # <<>> /\ todo[Len(todo)] = "tmp"
  /\ inner \in {"bind self"} \union Unrooted \union Rooted => "tmp" \in mounted
  /\ inner \in {"none"} \union Early => copy = NoCopy
  /\ inner \in Unrooted \union Rooted => copy = NoCopy \/ copy = mounted

\* Where the inner process has its root.
Roots ==
  /\ bootstrap = "off" => inner = "none"
  /\ inner \in {"none"} \union Early \union Unrooted => Fresh
  /\ inner = "chdir" => \/ root = "pivot" /\ oldRoot = "attached"
                        \/ root = "chroot" /\ oldRoot = "none"
  /\ inner = "detach" => root = "pivot" /\ inside = TRUE
  /\ inner = "remove old root" => root = "pivot" /\ inside = TRUE
  /\ inner \in {"command", "running"} => root # "host" /\ inside = TRUE /\ oldRoot = "none"
  /\ inner = "succeeded" => root # "host"

SandboxInv == SandboxTyping /\ Mounts /\ Roots

LEMMA SandboxInitInv == SandboxInit => SandboxInv
BY DEF SandboxInit, SandboxInv, SandboxTyping, Mounts, Roots, Early, Unrooted, Rooted, Ended, Fresh

LEMMA ForgottenInv == Forgotten => SandboxInv'
BY DEF Forgotten, SandboxInv, SandboxTyping, Mounts, Roots, Early, Unrooted, Rooted, Ended, Fresh

LEMMA BootstrapInv ==
  ASSUME SandboxInv, Bootstrap
  PROVE  SandboxInv' /\ bootstrap' \in {"waiting", "exited"}
BY DEF Bootstrap, SandboxInv, SandboxTyping, Mounts, Roots, Early, Unrooted, Rooted, Ended, Fresh

LEMMA KilledInv ==
  ASSUME SandboxInv, Killed
  PROVE  SandboxInv' /\ bootstrap' = "killed"
BY DEF Killed, SandboxInv, SandboxTyping, Mounts, Roots, Early, Unrooted, Rooted, Ended, Fresh

LEMMA SandboxUnchangedInv ==
  ASSUME SandboxInv, UNCHANGED sandboxVars
  PROVE  SandboxInv'
BY DEF sandboxVars, SandboxInv, SandboxTyping, Mounts, Roots, Early, Unrooted, Rooted, Ended, Fresh

\* A bind mount takes the first of the list; the last one is "tmp".
LEMMA LastOfTail ==
  ASSUME NEW s \in Seq(STRING), s # <<>>, s[Len(s)] = "tmp"
  PROVE  /\ Len(s) = 1 => Head(s) = "tmp"
         /\ Len(s) # 1 => /\ Tail(s) \in Seq(STRING) /\ Tail(s) # <<>>
                          /\ Tail(s)[Len(Tail(s))] = "tmp"
<1>1. PICK n \in Nat \ {0} : n = Len(s)
  OBVIOUS
<1>2. Head(s) = s[1]
  OBVIOUS
<1>3. ASSUME Len(s) # 1
      PROVE  /\ Tail(s) \in Seq(STRING) /\ Tail(s) # <<>>
             /\ Tail(s)[Len(Tail(s))] = "tmp"
  <2>1. Tail(s) \in Seq(STRING) /\ Len(Tail(s)) = n - 1
    BY <1>1
  <2>2. n - 1 \in 1..(n - 1) /\ (n - 1) + 1 = n
    BY <1>1, <1>3
  <2>3. Tail(s)[n - 1] = s[(n - 1) + 1]
    BY <1>1, <2>2
  <2>4. n - 1 # 0 /\ Len(<<>>) = 0
    BY <1>1, <1>3
  <2>5. Tail(s) # <<>>
    BY <2>1, <2>4
  <2> QED
    BY <1>1, <2>1, <2>2, <2>3, <2>5
<1> QED
  BY <1>2, <1>3

LEMMA BindMountInv ==
  ASSUME SandboxInv, BindMount
  PROVE  SandboxInv' /\ bootstrap' = bootstrap
<1>1. CASE Fails
  BY <1>1 DEF BindMount, Mount, Fails, Goes, At, SandboxInv, SandboxTyping, Mounts, Roots,
     Early, Unrooted, Rooted, Ended, Fresh
<1>2. CASE /\ mounted' = mounted \union {Head(todo)}
           /\ todo' = Tail(todo)
           /\ Goes(IF Len(todo) = 1 THEN "bind self" ELSE "binds")
           /\ UNCHANGED <<copy, root, inside, oldRoot>>
  <2>1. /\ Len(todo) = 1 => Head(todo) = "tmp"
        /\ Len(todo) # 1 => /\ Tail(todo) \in Seq(STRING) /\ Tail(todo) # <<>>
                            /\ Tail(todo)[Len(Tail(todo))] = "tmp"
    BY LastOfTail DEF BindMount, At, SandboxInv, Mounts
  <2>2. SandboxTyping' /\ Roots'
    BY <1>2 DEF BindMount, Mount, Goes, At, SandboxInv, SandboxTyping, Roots,
       Early, Unrooted, Rooted, Ended, Fresh
  <2>3. Mounts'
    BY <1>2, <2>1 DEF BindMount, Mount, Goes, At, SandboxInv, Mounts, Early, Unrooted, Rooted
  <2> QED
    BY <2>2, <2>3 DEF SandboxInv, BindMount
<1> QED
  BY <1>1, <1>2 DEF BindMount, Mount

\* The steps before the list of binds, and the start of that list.
LEMMA EarlyInv ==
  ASSUME SandboxInv, MountProc \/ MountBase \/ BaseDone
  PROVE  SandboxInv' /\ bootstrap' = bootstrap
<1>1. CASE MountProc
  BY <1>1 DEF MountProc, MountProcfs, Fails, Goes, At, SandboxInv, SandboxTyping,
     Mounts, Roots, Early, Unrooted, Rooted, Ended, Fresh
<1>2. CASE MountBase
  BY <1>2 DEF MountBase, ReplicateBaseBindMount, Fails, Goes, At, SandboxInv,
     SandboxTyping, Mounts, Roots, Early, Unrooted, Rooted, Ended, Fresh
<1>3. CASE BaseDone
  BY <1>3, SandboxAssumption DEF BaseDone, Goes, At, SandboxInv, SandboxTyping, Mounts, Roots,
     Early, Unrooted, Rooted, Ended, Fresh
<1> QED
  BY <1>1, <1>2, <1>3

\* The change of the root, one lemma for each way.
LEMMA PivotInv ==
  ASSUME SandboxInv, BindSelf \/ MakeOldRoot \/ PivotRoot
  PROVE  SandboxInv' /\ bootstrap' = bootstrap
<1>1. CASE BindSelf
  BY <1>1 DEF BindSelf, Copied, Goes, At, SandboxInv, SandboxTyping, Mounts, Roots,
     Early, Unrooted, Rooted, Ended, Fresh
<1>2. CASE MakeOldRoot
  BY <1>2 DEF MakeOldRoot, Goes, At, SandboxInv, SandboxTyping, Mounts, Roots,
     Early, Unrooted, Rooted, Ended, Fresh
<1>3. CASE PivotRoot
  BY <1>3 DEF PivotRoot, Goes, At, SandboxInv, SandboxTyping, Mounts, Roots,
     Early, Unrooted, Rooted, Ended, Fresh
<1> QED
  BY <1>1, <1>2, <1>3

LEMMA ChrootInv ==
  ASSUME SandboxInv, Undo \/ Chroot \/ Chdir
  PROVE  SandboxInv' /\ bootstrap' = bootstrap
<1>1. CASE Undo
  BY <1>1 DEF Undo, Fails, Goes, At, SandboxInv, SandboxTyping, Mounts, Roots,
     Early, Unrooted, Rooted, Ended, Fresh
<1>2. CASE Chroot
  BY <1>2 DEF Chroot, Fails, Goes, At, SandboxInv, SandboxTyping, Mounts, Roots,
     Early, Unrooted, Rooted, Ended, Fresh
<1>3. CASE Chdir
  BY <1>3 DEF Chdir, AfterChdir, Fails, Goes, At, SandboxInv, SandboxTyping, Mounts, Roots,
     Early, Unrooted, Rooted, Ended, Fresh
<1> QED
  BY <1>1, <1>2, <1>3

LEMMA CommandInv ==
  ASSUME SandboxInv, Detach \/ RemoveOldRoot \/ Exec \/ CommandEnds
  PROVE  SandboxInv' /\ bootstrap' = bootstrap
<1>1. CASE Detach
  BY <1>1 DEF Detach, Fails, Goes, At, SandboxInv, SandboxTyping, Mounts, Roots,
     Early, Unrooted, Rooted, Ended, Fresh
<1>2. CASE RemoveOldRoot
  BY <1>2 DEF RemoveOldRoot, Fails, Goes, At, SandboxInv, SandboxTyping, Mounts, Roots,
     Early, Unrooted, Rooted, Ended, Fresh
<1>3. CASE Exec
  BY <1>3 DEF Exec, At, SandboxInv, SandboxTyping, Mounts, Roots,
     Early, Unrooted, Rooted, Ended, Fresh
<1>4. CASE CommandEnds
  BY <1>4 DEF CommandEnds, At, SandboxInv, SandboxTyping, Mounts, Roots,
     Early, Unrooted, Rooted, Ended, Fresh
<1> QED
  BY <1>1, <1>2, <1>3, <1>4

LEMMA SandboxStepInv ==
  ASSUME SandboxInv, SandboxStep
  PROVE  SandboxInv'
<1>1. CASE Interrupted \/ Remove
  BY <1>1 DEF Interrupted, Remove, SandboxInv, SandboxTyping, Mounts, Roots,
     Early, Unrooted, Rooted, Ended, Fresh
<1> QED
  BY <1>1, EarlyInv, BindMountInv, PivotInv, ChrootInv, CommandInv DEF SandboxStep, SetupFS

LEMMA SandboxConfined == SandboxInv => Confined
BY DEF SandboxInv, Mounts, Roots, Confined, Visible, Rooted

\* In any program that runs a sandbox, its invariant holds throughout.
THEOREM SandboxInvariant == SandboxSpec => []SandboxInv
<1>1. SandboxInv /\ [Bootstrap \/ Killed \/ Forgotten \/ SandboxStep]_sandboxVars => SandboxInv'
  BY BootstrapInv, KilledInv, ForgottenInv, SandboxStepInv, SandboxUnchangedInv
<1> QED
  BY <1>1, SandboxInitInv, PTL DEF SandboxSpec

\* Whoever runs it and whenever it is killed, a sandboxed command is confined.
THEOREM ConfinedAnywhere == SandboxSpec => []Confined
<1> QED
  BY SandboxInvariant, SandboxConfined, PTL

-----------------------------------------------------------------------------
(* The server's invariant.                                                 *)

ServerTyping ==
  /\ stage \in {"flags", "config", "listen", "serving", "exited"}
  /\ probes \in Nat
  /\ serve \in {"off", "starting", "accepting", "closed", "failed", "never"}
  /\ shutdown \in {"off", "waiting", "draining", "drained", "timed out"}
  /\ pc \in [Requests -> {None, "routing", "limiting", "handling"}]
  /\ user \in {None, Probe} \union Requests

\* Who the sandbox runs for: nobody, the probe of a starting process, or a
\* request that is being handled.
Users ==
  /\ user = None => bootstrap = "off"
  /\ user = Probe => stage = "flags" /\ probes > 0
  /\ user \in Requests => pc[user] = "handling"

\* What the stages of the process have behind them.
Stages ==
  /\ stage \in {"flags", "config", "listen"} =>
       serve = "off" /\ shutdown = "off" /\ Active = {}
  /\ stage \in {"config", "listen", "serving"} => probes = 0
  /\ namespaced = TRUE /\ stage # "exited" /\ probes = 0 => provenRoot \in {"pivot", "chroot"}

\* What a shutdown has behind it.
Drains ==
  /\ shutdown \in {"draining", "drained", "timed out"} => signalled = TRUE
  /\ shutdown = "drained" => Active = {}
  /\ stage = "serving" => shutdown # "off"

ServerInv ==
  SandboxInv /\ ServerTyping /\ Users /\ Stages /\ Drains /\ CleanExit /\ GaugeMatches

LEMMA ServerInitInv == Init => ServerInv
<1> SUFFICES ASSUME Init PROVE ServerInv
  OBVIOUS
<1>1. SandboxInv
  BY SandboxInitInv DEF Init
<1>2. ServerTyping /\ Active = {} /\ Handling = {}
  BY ServerAssumption DEF Init, ServerTyping, Active, Handling, None
<1>3. Users
  BY ServerAssumption DEF Init, SandboxInit, Users, None, Probe
<1>4. Stages /\ Drains /\ CleanExit
  BY <1>2, ServerAssumption DEF Init, Stages, Drains, CleanExit
<1>5. GaugeMatches
  BY <1>2, FS_EmptySet DEF Init, GaugeMatches
<1> QED
  BY <1>1, <1>2, <1>3, <1>4, <1>5 DEF ServerInv

-----------------------------------------------------------------------------
(* The steps of the process, which touch neither requests nor the sandbox. *)

Calm == UNCHANGED <<requestVars, user, sandboxVars>>

LEMMA CalmKeeps ==
  ASSUME ServerInv, Calm
  PROVE  SandboxInv' /\ GaugeMatches' /\ Active' = Active
<1>1. SandboxInv'
  BY SandboxUnchangedInv DEF ServerInv, Calm
<1>2. Active' = Active /\ Handling' = Handling
  BY DEF Calm, requestVars, Active, Handling
<1> QED
  BY <1>1, <1>2 DEF ServerInv, GaugeMatches, Calm, requestVars

LEMMA StartsInv ==
  ASSUME ServerInv, Signal \/ FlagsParsed
  PROVE  ServerInv'
<1>1. Calm
  BY DEF Signal, FlagsParsed, Calm
<1>2. SandboxInv' /\ GaugeMatches' /\ Active' = Active
  BY <1>1, CalmKeeps
<1>3. FlagsParsed => user # Probe
  BY DEF FlagsParsed, ServerInv, Users
<1>6. ServerTyping' /\ Users'
  <2>1. CASE Signal
    BY <2>1 DEF Signal, ServerInv, ServerTyping, Users, listenVars, requestVars, sandboxVars
  <2>2. CASE FlagsParsed
    BY <1>3, <2>2 DEF FlagsParsed, ServerInv, ServerTyping, Users, listenVars, requestVars, sandboxVars
  <2> QED
    BY <2>1, <2>2
<1>4. Stages' /\ Drains'
  BY <1>2 DEF Signal, FlagsParsed, ServerInv, Stages, Drains, listenVars, requestVars
<1>5. CleanExit'
  BY <1>2 DEF Signal, FlagsParsed, ServerInv, CleanExit, sandboxVars
<1> QED
  BY <1>2, <1>4, <1>5, <1>6 DEF ServerInv

\* A process that has not served abandons nothing: no request was accepted, and
\* no probe is under way.
LEMMA NothingYet ==
  ASSUME ServerInv, stage \in {"config", "listen"}
  PROVE  Active = {} /\ user = None /\ bootstrap = "off"
<1>1. Active = {}
  BY DEF ServerInv, Stages
<1>2. user \notin Requests
  BY <1>1 DEF ServerInv, Users, Active, None
<1>3. user # Probe
  BY DEF ServerInv, Users
<1> QED
  BY <1>1, <1>2, <1>3 DEF ServerInv, ServerTyping, Users

LEMMA ConfigureInv ==
  ASSUME ServerInv, Configure
  PROVE  ServerInv'
<1>1. Calm
  BY DEF Configure, Calm
<1>2. SandboxInv' /\ GaugeMatches' /\ Active' = Active
  BY <1>1, CalmKeeps
<1>3. Active = {} /\ user = None /\ bootstrap = "off"
  BY NothingYet DEF Configure
<1>4. ServerTyping' /\ Users'
  BY <1>3, ServerAssumption DEF Configure, FailureCodes, ExitWith, ServerInv, ServerTyping, Users,
     listenVars, requestVars, sandboxVars, None, Probe
<1>5. Stages' /\ Drains'
  BY <1>2, <1>3 DEF Configure, ExitWith, ServerInv, Stages, Drains, listenVars, requestVars
<1>6. CleanExit'
  BY <1>2, <1>3 DEF Configure, ExitWith, ServerInv, CleanExit, sandboxVars
<1> QED
  BY <1>2, <1>4, <1>5, <1>6 DEF ServerInv

LEMMA ListenInv ==
  ASSUME ServerInv, Listen
  PROVE  ServerInv'
<1>1. Calm
  BY DEF Listen, Calm
<1>2. SandboxInv' /\ GaugeMatches' /\ Active' = Active
  BY <1>1, CalmKeeps
<1>3. Active = {} /\ user = None /\ bootstrap = "off"
  BY NothingYet DEF Listen
<1>4. ServerTyping' /\ Users'
  BY <1>3, ServerAssumption DEF Listen, FailureCodes, ExitWith, ServerInv, ServerTyping, Users,
     listenVars, requestVars, sandboxVars, None, Probe
<1>5. Stages' /\ Drains'
  BY <1>2, <1>3 DEF Listen, ExitWith, ServerInv, Stages, Drains, listenVars, requestVars
<1>6. CleanExit'
  BY <1>2, <1>3 DEF Listen, ExitWith, ServerInv, CleanExit, sandboxVars
<1> QED
  BY <1>2, <1>4, <1>5, <1>6 DEF ServerInv

LEMMA ServesInv ==
  ASSUME ServerInv, Serve \/ ServeFails \/ Shutdown \/ Drained \/ DrainTimesOut
  PROVE  ServerInv'
<1> USE DEF Serve, ServeFails, Shutdown, ShutdownDue, Drained, DrainTimesOut
<1>1. Calm
  BY DEF Calm
<1>2. SandboxInv' /\ GaugeMatches' /\ Active' = Active
  BY <1>1, CalmKeeps
<1>3. ServerTyping' /\ Users'
  BY DEF ServerInv, ServerTyping, Users, processVars, requestVars, sandboxVars
<1>4. Stages' /\ Drains'
  BY <1>2 DEF ServerInv, Stages, Drains, processVars, requestVars
<1>5. CleanExit'
  BY <1>2 DEF ServerInv, CleanExit, processVars, sandboxVars
<1> QED
  BY <1>2, <1>3, <1>4, <1>5 DEF ServerInv

\* The exit of a served process: with 0 only when the shutdown has drained.
LEMMA ExitInv ==
  ASSUME ServerInv, Exit
  PROVE  ServerInv'
<1>1. Calm
  BY DEF Exit, Calm
<1>2. SandboxInv' /\ GaugeMatches' /\ Active' = Active
  BY <1>1, CalmKeeps
<1>3. user # Probe
  BY DEF Exit, ServerInv, Users
<1>4. ServerTyping' /\ Users'
  BY <1>3 DEF Exit, ExitWith, ServerInv, ServerTyping, Users, listenVars, requestVars, sandboxVars
<1>5. Stages' /\ Drains'
  BY <1>2 DEF Exit, ExitWith, ServerInv, Stages, Drains, listenVars, requestVars
<1>6. CleanExit'
  <2>1. CASE shutdown = "timed out"
    <3>1. Outcome = 1
      BY <2>1 DEF Outcome
    <3>2. exitCode' = 1
      BY <3>1 DEF Exit, ExitWith
    <3> QED
      BY <3>2 DEF CleanExit
  <2>2. CASE shutdown = "drained"
    <3>1. Active = {}
      BY <2>2 DEF ServerInv, Drains
    <3>2. user \notin Requests
      BY <3>1 DEF ServerInv, Users, Active, None
    <3>3. bootstrap = "off"
      BY <1>3, <3>2 DEF ServerInv, ServerTyping, Users
    <3> QED
      BY <1>2, <3>1, <3>3 DEF Exit, CleanExit, sandboxVars
  <2> QED
    BY <2>1, <2>2 DEF Exit
<1> QED
  BY <1>2, <1>4, <1>5, <1>6 DEF ServerInv

-----------------------------------------------------------------------------
(* The probe of the sandbox.                                               *)

LEMMA StartProbeInv ==
  ASSUME ServerInv, StartProbe
  PROVE  ServerInv'
<1>1. SandboxInv' /\ bootstrap' \in {"waiting", "exited"}
  BY BootstrapInv DEF StartProbe, ServerInv
<1>2. Active' = Active /\ GaugeMatches'
  BY DEF StartProbe, ServerInv, requestVars, Active, GaugeMatches, Handling
<1>3. ServerTyping' /\ Users'
  BY ServerAssumption DEF StartProbe, ServerInv, ServerTyping, Users, processVars, listenVars, requestVars,
     None, Probe
<1>4. Stages' /\ Drains'
  BY <1>2 DEF StartProbe, ServerInv, Stages, Drains, processVars, listenVars
<1>5. CleanExit'
  BY DEF StartProbe, CleanExit, processVars
<1> QED
  BY <1>1, <1>2, <1>3, <1>4, <1>5 DEF ServerInv

LEMMA ProbeTimesOutInv ==
  ASSUME ServerInv, ProbeTimesOut
  PROVE  ServerInv'
<1>1. SandboxInv' /\ bootstrap' = "killed"
  BY KilledInv DEF ProbeTimesOut, ServerInv
<1>2. Active' = Active /\ GaugeMatches'
  BY DEF ProbeTimesOut, ServerInv, requestVars, Active, GaugeMatches, Handling
<1>3. ServerTyping' /\ Users'
  BY ServerAssumption DEF ProbeTimesOut, ServerInv, ServerTyping, Users, processVars, listenVars, requestVars,
     None, Probe
<1>4. Stages' /\ Drains'
  BY <1>2 DEF ProbeTimesOut, ServerInv, Stages, Drains, processVars, listenVars
<1>5. CleanExit'
  BY <1>1, <1>2 DEF ProbeTimesOut, ServerInv, CleanExit, processVars
<1> QED
  BY <1>1, <1>2, <1>3, <1>4, <1>5 DEF ServerInv

\* A probe that passed ran in a root of its own; one that failed ends the
\* process with 1.
LEMMA ProbeEndsInv ==
  ASSUME ServerInv, ProbeEnds
  PROVE  ServerInv'
<1>1. SandboxInv' /\ bootstrap' = "off"
  BY ForgottenInv DEF ProbeEnds, Forgotten
<1>2. Active' = Active /\ GaugeMatches'
  BY DEF ProbeEnds, ServerInv, requestVars, Active, GaugeMatches, Handling
<1>3. stage = "flags" /\ probes \in Nat /\ probes > 0
  BY DEF ProbeEnds, ServerInv, Users, ServerTyping
<1>4. Active = {} /\ serve = "off" /\ shutdown = "off"
  BY <1>3 DEF ServerInv, Stages
<1>5. CASE ~ProbePassed
  <2>1. /\ stage' = "exited" /\ exitCode' = 1 /\ user' = None
        /\ UNCHANGED <<signalled, namespaced, probes, provenRoot, listenVars, requestVars>>
    BY <1>5 DEF ProbeEnds, ExitWith
  <2>2. ServerTyping' /\ Users'
    BY <1>1, <2>1, ServerAssumption DEF ServerInv, ServerTyping, Users, listenVars, requestVars, None, Probe
  <2>3. Stages' /\ Drains'
    BY <1>2, <2>1 DEF ServerInv, Stages, Drains, listenVars
  <2>4. CleanExit'
    BY <2>1 DEF CleanExit
  <2> QED
    BY <1>1, <1>2, <2>2, <2>3, <2>4 DEF ServerInv
<1>6. CASE ProbePassed
  <2>1. /\ probes' = probes - 1 /\ provenRoot' = root /\ user' = None
        /\ UNCHANGED <<stage, exitCode, signalled, namespaced, exporter, listenVars, requestVars>>
    BY <1>6 DEF ProbeEnds
  <2>2. root \in {"pivot", "chroot"}
    BY <1>6 DEF ProbePassed, Succeeded, ServerInv, SandboxInv, SandboxTyping, Roots
  <2>3. probes' \in Nat
    BY <1>3, <2>1
  <2>4. ServerTyping' /\ Users'
    BY <1>1, <2>1, <2>3, ServerAssumption DEF ServerInv, ServerTyping, Users, listenVars, requestVars, None, Probe
  <2>5. Stages' /\ Drains'
    BY <1>2, <1>3, <1>4, <2>1, <2>2 DEF ServerInv, Stages, Drains, listenVars
  <2>6. CleanExit'
    BY <1>3, <2>1 DEF CleanExit
  <2> QED
    BY <1>1, <1>2, <2>4, <2>5, <2>6 DEF ServerInv
<1> QED
  BY <1>5, <1>6

-----------------------------------------------------------------------------
(* The requests.                                                           *)

LEMMA HandlingFinite == IsFiniteSet(Handling) /\ Cardinality(Handling) \in Nat
<1>1. Handling \subseteq Requests
  BY DEF Handling
<1> QED
  BY <1>1, ServerAssumption, FS_Subset, FS_CardinalityType

\* Only a request that a serving process handles changes what it holds, and
\* none begins once the shutdown has closed every connection.
LEMMA AcceptInv ==
  ASSUME ServerInv, NEW r \in Requests, NEW q \in Queries, Accept(r, q)
  PROVE  ServerInv'
<1>1. SandboxInv'
  BY SandboxUnchangedInv DEF Accept, ServerInv
<1>2. Handling' = Handling
  BY DEF Accept, Becomes, ServerInv, ServerTyping, Handling, None
<1>3. GaugeMatches'
  BY <1>2 DEF Accept, ServerInv, GaugeMatches
<1>4. ServerTyping' /\ Users'
  BY DEF Accept, Becomes, ServerInv, ServerTyping, Users, processVars, listenVars, sandboxVars, None
<1>5. Stages' /\ Drains'
  BY DEF Accept, Connected, ServerInv, Stages, Drains, processVars, listenVars
<1>6. CleanExit'
  BY DEF Accept, CleanExit, processVars
<1> QED
  BY <1>1, <1>3, <1>4, <1>5, <1>6 DEF ServerInv

LEMMA RouteInv ==
  ASSUME ServerInv, NEW r \in Requests, Route(r)
  PROVE  ServerInv'
<1>1. SandboxInv'
  BY SandboxUnchangedInv DEF Route, ServerInv
<1>2. Handling' = Handling /\ Active' \subseteq Active
  BY DEF Route, Becomes, ServerInv, ServerTyping, Handling, Active, None
<1>3. GaugeMatches'
  BY <1>2 DEF Route, ServerInv, GaugeMatches
<1>4. ServerTyping' /\ Users'
  BY DEF Route, Becomes, ServerInv, ServerTyping, Users, processVars, listenVars, sandboxVars, None
<1>5. Stages' /\ Drains'
  BY <1>2 DEF Route, ServerInv, Stages, Drains, processVars, listenVars
<1>6. CleanExit'
  BY DEF Route, CleanExit, processVars
<1> QED
  BY <1>1, <1>3, <1>4, <1>5, <1>6 DEF ServerInv

\* A request that is admitted counts.
LEMMA LimitInv ==
  ASSUME ServerInv, NEW r \in Requests, Limit(r)
  PROVE  ServerInv'
<1>1. SandboxInv'
  BY SandboxUnchangedInv DEF Limit, ServerInv
<1>2. Active' \subseteq Active
  BY DEF Limit, Becomes, ServerInv, ServerTyping, Active, None
<1>3. GaugeMatches'
  <2>1. CASE Becomes(r, None) /\ inFlight' = inFlight
    <3>1. Handling' = Handling
      BY <2>1 DEF Limit, Becomes, ServerInv, ServerTyping, Handling, None
    <3> QED
      BY <2>1, <3>1 DEF ServerInv, GaugeMatches
  <2>2. CASE Becomes(r, "handling") /\ inFlight' = inFlight + 1
    <3>1. Handling' = Handling \union {r} /\ r \notin Handling
      BY <2>2 DEF Limit, Becomes, ServerInv, ServerTyping, Handling
    <3>2. Cardinality(Handling \union {r}) = Cardinality(Handling) + 1
      BY <3>1, HandlingFinite, FS_AddElement
    <3> QED
      BY <2>2, <3>1, <3>2 DEF ServerInv, GaugeMatches
  <2> QED
    BY <2>1, <2>2 DEF Limit
<1>4. ServerTyping' /\ Users'
  BY DEF Limit, Becomes, ServerInv, ServerTyping, Users, processVars, listenVars, sandboxVars, None
<1>5. Stages' /\ Drains'
  BY <1>2 DEF Limit, ServerInv, Stages, Drains, processVars, listenVars
<1>6. CleanExit'
  BY DEF Limit, CleanExit, processVars
<1> QED
  BY <1>1, <1>3, <1>4, <1>5, <1>6 DEF ServerInv

LEMMA LaunchBrowserInv ==
  ASSUME ServerInv, NEW r \in Requests, LaunchBrowser(r)
  PROVE  ServerInv'
<1>1. SandboxInv' /\ bootstrap' \in {"waiting", "exited"}
  BY BootstrapInv DEF LaunchBrowser, ServerInv
<1>2. Active' = Active /\ GaugeMatches'
  BY DEF LaunchBrowser, ServerInv, requestVars, Active, GaugeMatches, Handling
<1>3. ServerTyping' /\ Users'
  BY ServerAssumption DEF LaunchBrowser, ServerInv, ServerTyping, Users, processVars, listenVars,
     requestVars, None, Probe
<1>4. Stages' /\ Drains'
  BY <1>2 DEF LaunchBrowser, ServerInv, Stages, Drains, processVars, listenVars
<1>5. CleanExit'
  BY DEF LaunchBrowser, CleanExit, processVars
<1> QED
  BY <1>1, <1>2, <1>3, <1>4, <1>5 DEF ServerInv

\* A request that leaves takes its sandbox with it.
LEMMA LeaveInv ==
  ASSUME ServerInv, NEW r \in Requests, Finish(r) \/ Panic(r)
  PROVE  ServerInv'
<1>1. Leave(r) /\ inFlight' = inFlight - 1
  BY DEF Finish, Panic
<1>2. SandboxInv' /\ (user' = None => bootstrap' = "off")
  <2>1. CASE user = r
    BY <1>1, <2>1, ForgottenInv DEF Leave, StopSandbox, Forgotten
  <2>2. CASE user # r
    BY <1>1, <2>2, SandboxUnchangedInv DEF Leave, StopSandbox, ServerInv, Users, sandboxVars
  <2> QED
    BY <2>1, <2>2
<1>3. Handling' = Handling \ {r} /\ r \in Handling /\ Active' \subseteq Active
  BY <1>1 DEF Leave, Becomes, ServerInv, ServerTyping, Handling, Active, None
<1>4. GaugeMatches'
  <2>1. Cardinality(Handling \ {r}) = Cardinality(Handling) - 1
    BY <1>3, HandlingFinite, FS_RemoveElement
  <2> QED
    BY <1>1, <1>3, <2>1 DEF ServerInv, GaugeMatches
<1>5. ServerTyping'
  BY <1>1 DEF Leave, StopSandbox, Becomes, ServerInv, ServerTyping, processVars, listenVars
<1>6. Users'
  <2>1. user' = Probe => stage' = "flags" /\ probes' > 0
    BY <1>1 DEF Leave, StopSandbox, ServerInv, Users, processVars, None, Probe
  <2>2. ASSUME user' \in Requests PROVE pc'[user'] = "handling"
    <3>1. user' = user /\ user # r
      BY <1>1, <2>2, ServerAssumption DEF Leave, StopSandbox
    <3> QED
      BY <1>1, <2>2, <3>1 DEF Leave, Becomes, ServerInv, ServerTyping, Users
  <2> QED
    BY <1>2, <2>1, <2>2 DEF Users
<1>7. Stages' /\ Drains'
  BY <1>1, <1>3 DEF Leave, ServerInv, Stages, Drains, processVars, listenVars
<1>8. CleanExit'
  BY <1>1 DEF Leave, CleanExit, processVars
<1> QED
  BY <1>2, <1>4, <1>5, <1>6, <1>7, <1>8 DEF ServerInv

-----------------------------------------------------------------------------
(* Every step, and the theorems.                                           *)

LEMMA SandboxRunsInv ==
  ASSUME ServerInv, stage # "exited", user # None, SandboxStep,
         UNCHANGED <<processVars, listenVars, requestVars, user>>
  PROVE  ServerInv'
<1>1. SandboxInv'
  BY SandboxStepInv DEF ServerInv
<1>2. Active' = Active /\ GaugeMatches'
  BY DEF ServerInv, requestVars, Active, GaugeMatches, Handling
<1>3. ServerTyping' /\ Users'
  BY DEF ServerInv, ServerTyping, Users, processVars, listenVars, requestVars
<1>4. Stages' /\ Drains' /\ CleanExit'
  BY <1>2 DEF ServerInv, Stages, Drains, CleanExit, processVars, listenVars
<1> QED
  BY <1>1, <1>2, <1>3, <1>4 DEF ServerInv

LEMMA ServerNextInv == ServerInv /\ [Next]_vars => ServerInv'
<1> SUFFICES ASSUME ServerInv, [Next]_vars PROVE ServerInv'
  OBVIOUS
<1>1. CASE Signal \/ Process \/ ProbeTimesOut \/ ServeFails \/ DrainTimesOut
  BY <1>1, StartsInv, ConfigureInv, ListenInv, ServesInv, ExitInv, StartProbeInv, ProbeTimesOutInv,
     ProbeEndsInv DEF Process
<1>2. ASSUME NEW r \in Requests, Handle(r)
      PROVE  ServerInv'
  BY <1>2, RouteInv, LimitInv, LaunchBrowserInv, LeaveInv DEF Handle
<1>3. ASSUME NEW r \in Requests, NEW q \in Queries, Accept(r, q)
      PROVE  ServerInv'
  BY <1>3, AcceptInv
<1>4. CASE /\ stage # "exited" /\ user # None /\ SandboxStep
           /\ UNCHANGED <<processVars, listenVars, requestVars, user>>
  BY <1>4, SandboxRunsInv
<1>5. CASE UNCHANGED vars
  <2>1. Calm /\ UNCHANGED <<processVars, listenVars>>
    BY <1>5 DEF vars, Calm
  <2>2. SandboxInv' /\ GaugeMatches' /\ Active' = Active
    BY <2>1, CalmKeeps
  <2>3. ServerTyping' /\ Users' /\ Stages' /\ Drains' /\ CleanExit'
    BY <2>1, <2>2 DEF ServerInv, ServerTyping, Users, Stages, Drains, CleanExit, Calm, processVars,
       listenVars, requestVars, sandboxVars
  <2> QED
    BY <2>2, <2>3 DEF ServerInv
<1> QED
  BY <1>1, <1>2, <1>3, <1>4, <1>5 DEF Next

\* The service always satisfies its inductive invariant.
THEOREM ServerInvariant == Spec => []ServerInv
<1> QED
  BY ServerInitInv, ServerNextInv, PTL DEF Spec

\* The server runs its sandboxes as SandboxFS says, the probe's and those of the
\* requests, so that what is proved of SandboxSpec holds here.
THEOREM ServerRunsSandbox == Spec => SandboxSpec
<1>1. Init => SandboxInit
  BY DEF Init
<1>2. [Next]_vars => [Bootstrap \/ Killed \/ Forgotten \/ SandboxStep]_sandboxVars
  <2> SUFFICES ASSUME [Next]_vars
               PROVE  Bootstrap \/ Killed \/ Forgotten \/ SandboxStep \/ UNCHANGED sandboxVars
    OBVIOUS
  <2>1. CASE Signal \/ Process \/ ProbeTimesOut \/ ServeFails \/ DrainTimesOut
    BY <2>1 DEF Signal, Process, FlagsParsed, Configure, Listen, Serve, Shutdown, Drained, Exit,
       StartProbe, ProbeEnds, ProbeTimesOut, ServeFails, DrainTimesOut
  <2>2. ASSUME NEW r \in Requests, Handle(r) \/ \E q \in Queries : Accept(r, q)
        PROVE  Bootstrap \/ Forgotten \/ UNCHANGED sandboxVars
    BY <2>2 DEF Handle, Route, Limit, LaunchBrowser, Finish, Panic, Leave, StopSandbox, Accept
  <2>3. CASE UNCHANGED vars
    BY <2>3 DEF vars
  <2> QED
    BY <2>1, <2>2, <2>3 DEF Next
<1> QED
  BY <1>1, <1>2, PTL DEF Spec, SandboxSpec

\* A sandboxed command runs only inside a new root, with the old one gone and
\* every mount in sight, whatever the host's directories, the bind mounts and
\* the calls that fail (sandbox.go:236-297).
THEOREM AlwaysConfined == Spec => []Confined
<1> QED
  BY ServerRunsSandbox, ConfinedAnywhere, PTL

\* A process that ended with 0 has abandoned no request and no sandbox.
THEOREM AlwaysCleanExit == Spec => []CleanExit
<1>1. ServerInv => CleanExit
  BY DEF ServerInv
<1> QED
  BY <1>1, ServerInvariant, PTL

\* The gauge of requests in flight is exact (metrics.go:75-84).
THEOREM GaugeAlwaysMatches == Spec => []GaugeMatches
<1>1. ServerInv => GaugeMatches
  BY DEF ServerInv
<1> QED
  BY <1>1, ServerInvariant, PTL

\* The count, as the counter of InflightCounter.
Gauge == INSTANCE InflightCounter WITH outstanding <- Handling, count <- inFlight

\* The gauge implements the counter of InflightCounter: one step up for each
\* request the limiter lets through, one down when its handler returns or
\* panics, whatever its sandbox does.
THEOREM GaugeImplementsCounter == Spec => Gauge!Spec
<1>1. Init => Gauge!Init
  BY ServerAssumption DEF Init, Gauge!Init, Handling, None
<1>2. ServerInv /\ [Next]_vars => [Gauge!Next]_Gauge!vars
  <2> SUFFICES ASSUME ServerInv, [Next]_vars PROVE [Gauge!Next]_Gauge!vars
    OBVIOUS
  <2>1. CASE UNCHANGED requestVars
    BY <2>1 DEF requestVars, Gauge!vars, Handling
  <2>2. ASSUME NEW r \in Requests, Route(r) \/ \E q \in Queries : Accept(r, q)
        PROVE  UNCHANGED Gauge!vars
    <3>1. inFlight' = inFlight /\ Handling' = Handling
      BY <2>2 DEF Route, Accept, Becomes, ServerInv, ServerTyping, Handling, None
    <3> QED
      BY <3>1 DEF Gauge!vars
  <2>3. ASSUME NEW r \in Requests, Limit(r)
        PROVE  Gauge!Begin(r) \/ UNCHANGED Gauge!vars
    <3>1. CASE Becomes(r, None) /\ inFlight' = inFlight
      <4>1. Handling' = Handling
        BY <2>3, <3>1 DEF Limit, Becomes, ServerInv, ServerTyping, Handling, None
      <4> QED
        BY <3>1, <4>1 DEF Gauge!vars
    <3>2. CASE Becomes(r, "handling") /\ inFlight' = inFlight + 1
      BY <2>3, <3>2 DEF Limit, Becomes, ServerInv, ServerTyping, Handling, Gauge!Begin
    <3> QED
      BY <2>3, <3>1, <3>2 DEF Limit
  <2>4. ASSUME NEW r \in Requests, Finish(r) \/ Panic(r)
        PROVE  Gauge!End(r)
    BY <2>4 DEF Finish, Panic, Leave, Becomes, ServerInv, ServerTyping, Handling, None, Gauge!End
  <2>5. CASE Signal \/ Process \/ ProbeTimesOut \/ ServeFails \/ DrainTimesOut
    BY <2>1, <2>5 DEF Signal, Process, FlagsParsed, Configure, Listen, Serve, Shutdown, Drained,
       Exit, StartProbe, ProbeEnds, ProbeTimesOut, ServeFails, DrainTimesOut
  <2>6. ASSUME NEW r \in Requests, LaunchBrowser(r) PROVE UNCHANGED requestVars
    BY <2>6 DEF LaunchBrowser
  <2>7. CASE UNCHANGED vars
    BY <2>1, <2>7 DEF vars
  <2> QED
    BY <2>1, <2>2, <2>3, <2>4, <2>5, <2>6, <2>7 DEF Next, Handle, Gauge!Next
<1> QED
  BY <1>1, <1>2, ServerInvariant, PTL DEF Spec, Gauge!Spec

\* A service that is to namespace serves only after a probe that ran a command
\* in a root of its own, however many overrides probe again.
THEOREM NamespacedAlwaysSupported == Spec => []NamespacedMeansSupported
<1>1. ServerInv => NamespacedMeansSupported
  BY DEF ServerInv, Stages, NamespacedMeansSupported
<1> QED
  BY <1>1, ServerInvariant, PTL

\* A process that has served exits only after a signal and a shutdown that has
\* drained the requests or given up on them (server.go:19, :70-75).
THEOREM AlwaysReturnsAfterShutdown == Spec => ReturnsAfterShutdown
<1>1. ASSUME ServerInv, [Next]_vars, stage = "serving", stage' = "exited"
      PROVE  signalled /\ shutdown \in {"drained", "timed out"}
  <2>1. Exit
    <3>1. ~(Signal \/ FlagsParsed \/ Configure \/ Listen \/ Serve \/ ServeFails \/ Shutdown
            \/ Drained \/ DrainTimesOut \/ StartProbe \/ ProbeTimesOut)
      BY <1>1 DEF Signal, FlagsParsed, Configure, Listen, Serve, ServeFails, Shutdown, Drained,
         DrainTimesOut, StartProbe, ProbeTimesOut, processVars
    <3>2. ~ProbeEnds
      BY <1>1 DEF ProbeEnds, ServerInv, Users
    <3>3. \A r \in Requests : ~Handle(r) /\ \A q \in Queries : ~Accept(r, q)
      BY <1>1 DEF Handle, Route, Limit, LaunchBrowser, Finish, Panic, Leave, Accept, processVars
    <3>4. ~UNCHANGED processVars /\ ~UNCHANGED vars
      BY <1>1 DEF processVars, vars
    <3> QED
      BY <1>1, <3>1, <3>2, <3>3, <3>4 DEF Next, Process
  <2>2. shutdown \in {"drained", "timed out"}
    BY <2>1 DEF Exit
  <2>3. signalled = TRUE
    BY <1>1, <2>2 DEF ServerInv, Drains
  <2> QED
    BY <2>2, <2>3
<1>2. ServerInv /\ [Next]_vars =>
        [stage = "serving" /\ stage' = "exited" =>
           signalled /\ shutdown \in {"drained", "timed out"}]_vars
  BY <1>1
<1> QED
  BY <1>2, ServerInvariant, PTL DEF Spec, ReturnsAfterShutdown
=============================================================================
