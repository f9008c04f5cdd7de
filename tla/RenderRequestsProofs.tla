------------------------- MODULE RenderRequestsProofs -------------------------
(***************************************************************************)
(* For any command lines, any queries and any number of requests at once:  *)
(* no request changes the configuration the service shares, every          *)
(* configuration it serves with is usable, an override is the service      *)
(* started again with more words, no query leaves the limits of the        *)
(* configuration that matches its url, and what a query asks for is what   *)
(* its browser starts with and what its capture uses.                      *)
(*                                                                         *)
(* The first invariant says whose the map and the array are that a         *)
(* request's configuration points to, and that each of its configurations  *)
(* stays within the one of the service it was cloned from.  The second one *)
(* adds how far the options of the query are applied: its options come in  *)
(* eight sections, and before the k-th is applied the request's            *)
(* configuration is the service's with the first k - 1 sections' settings. *)
(***************************************************************************)
EXTENDS RenderRequests, ConfigurationProofs

-----------------------------------------------------------------------------
(* The options of a request.                                               *)

Settings ==
  UNION {{q.timeZone, q.landscape, q.cookie, q.pdfLandscape, q.language, q.polling} : q \in Queries}

Option == [op : {"viewport"}, width : Int, height : Int]
          \union [op : {"scale"}, value : Int]
          \union [op : {"timeZone", "landscape", "cookie", "language", "polling"}, value : Settings]

LEMMA GivenTyped ==
  ASSUME NEW parameter, NEW o, parameter # Absent => o \in Option
  PROVE  Given(parameter, o) \in Seq(Option)
BY DEF Given

\* Every option of a query that is not refused has a number where one is
\* needed.
LEMMA OptionsTyped ==
  ASSUME NEW q \in Queries, ~q.csv, ~Refused(q)
  PROVE  Options(q) \in Seq(Option)
<1>1. /\ q.width \in Int \union {Absent} /\ q.height \in Int \union {Absent}
      /\ q.scale \in Int \union {Absent}
  BY InputAssumption DEF Refused, RefusedRender
<1>2. Pixels(q.width) \in Int /\ Pixels(q.height) \in Int
  BY <1>1 DEF Pixels
<1>3. (3 * Pixels(q.width)) \div 4 \in Int
  BY <1>2
<1>4. <<Viewport(Pixels(q.width), Pixels(q.height))>> \in Seq(Option)
  BY <1>2 DEF Viewport, Option
<1>5. {q.timeZone, q.landscape, q.cookie, q.pdfLandscape, q.language, q.polling} \subseteq Settings
  BY DEF Settings
<1>6. Given(q.scale, Setting("scale", q.scale)) \in Seq(Option)
  <2>1. q.scale # Absent => Setting("scale", q.scale) \in Option
    BY <1>1 DEF Setting, Option
  <2> QED
    BY <2>1, GivenTyped
<1>7. ASSUME NEW op \in {"timeZone", "landscape", "cookie", "language", "polling"},
             NEW value \in Settings
      PROVE  Setting(op, value) \in Option
  BY DEF Setting, Option
<1>8. /\ Given(q.landscape, Setting("landscape", q.landscape)) \in Seq(Option)
      /\ Given(q.cookie, Setting("cookie", q.cookie)) \in Seq(Option)
      /\ Given(q.pdfLandscape, Setting("landscape", q.pdfLandscape)) \in Seq(Option)
      /\ Given(q.language, Setting("language", q.language)) \in Seq(Option)
      /\ Given(q.polling, Setting("polling", q.polling)) \in Seq(Option)
  BY <1>5, <1>7, GivenTyped
<1>9. (IF q.timeZone \in TimeZones THEN <<Setting("timeZone", q.timeZone)>> ELSE <<>>) \in Seq(Option)
  BY <1>5, <1>7
<1>10. PrinterOptions(q) \in Seq(Option)
  <2>1. <<Viewport(Pixels(q.width), (3 * Pixels(q.width)) \div 4)>> \in Seq(Option)
    BY <1>2, <1>3 DEF Viewport, Option
  <2> QED
    BY <1>8, <2>1 DEF PrinterOptions
<1> QED
  BY <1>4, <1>6, <1>8, <1>9, <1>10 DEF Options

\* Taking the first option leaves the others.
LEMMA NextOption ==
  ASSUME NEW s \in Seq(Option), s # <<>>
  PROVE  Head(s) \in Option /\ Tail(s) \in Seq(Option)
OBVIOUS

-----------------------------------------------------------------------------
(* A configuration within another.                                         *)

\* What a request's configuration keeps of the one it was cloned from.
Within(used, limit) ==
  /\ DOMAIN used = Fields
  /\ used.MinWidth \in Int /\ used.MinHeight \in Int /\ used.PageScaleFactor \in Int
  /\ used.MaxWidth = limit.MaxWidth /\ used.MaxHeight = limit.MaxHeight
  /\ used.MaxPageScaleFactor = limit.MaxPageScaleFactor
  /\ used.MinWidth >= limit.MinWidth /\ used.MinHeight >= limit.MinHeight
  /\ limit.MaxWidth > 0 => used.MinWidth <= limit.MaxWidth
  /\ limit.MaxHeight > 0 => used.MinHeight <= limit.MaxHeight
  /\ used.PageScaleFactor > 0 /\ used.PageScaleFactor <= limit.MaxPageScaleFactor

LEMMA UsableWithinItself ==
  ASSUME NEW c, Usable(c)
  PROVE  Within(c, c)
BY DEF Usable, Within

LEMMA ClampedBounds ==
  ASSUME NEW v \in Int, NEW least \in Int, NEW minimum \in Int, NEW maximum \in Int,
         least <= minimum, maximum > 0 => minimum <= maximum
  PROVE  /\ Clamped(v, minimum, maximum) \in Int
         /\ Clamped(v, minimum, maximum) >= least
         /\ maximum > 0 => Clamped(v, minimum, maximum) <= maximum
BY DEF Clamped

LEMMA FieldsExist ==
  {"MinWidth", "MinHeight", "PageScaleFactor", "MaxWidth", "MaxHeight", "MaxPageScaleFactor",
   "Landscape", "ForcePollingMode"} \subseteq Fields
BY DEF Fields, BrowserFlags

\* Each option that changes a configuration keeps it within its origin.
LEMMA ResizedWithin ==
  ASSUME NEW c, NEW limit, Usable(limit), Within(c, limit),
         NEW o \in Option, o.op = "viewport"
  PROVE  Within(Resized(o, c), limit)
<1>1. o.width \in Int /\ o.height \in Int
  BY DEF Option
<1> DEFINE w == IF o.width = -1 THEN c.MinWidth ELSE Clamped(o.width, c.MinWidth, c.MaxWidth)
           h == IF o.height = -1 THEN c.MinHeight ELSE Clamped(o.height, c.MinHeight, c.MaxHeight)
<1>2. w \in Int /\ w >= limit.MinWidth /\ (limit.MaxWidth > 0 => w <= limit.MaxWidth)
  BY <1>1, ClampedBounds DEF Within, Usable
<1>3. h \in Int /\ h >= limit.MinHeight /\ (limit.MaxHeight > 0 => h <= limit.MaxHeight)
  BY <1>1, ClampedBounds DEF Within, Usable
<1>4. Resized(o, c) = [c EXCEPT !.MinWidth = w, !.MinHeight = h]
  BY DEF Resized
<1> HIDE DEF w, h
<1> QED
  BY <1>2, <1>3, <1>4, FieldsExist DEF Within

LEMMA ScaledWithin ==
  ASSUME NEW c, NEW limit, Usable(limit), Within(c, limit),
         NEW o \in Option, o.op = "scale", o.value > 0
  PROVE  Within(Scaled(o, c), limit)
<1>1. o.value \in Int
  BY DEF Option
<1> QED
  BY <1>1, FieldsExist DEF Scaled, Within, Usable

LEMMA FlippedWithin ==
  ASSUME NEW c, NEW limit, Within(c, limit), NEW v
  PROVE  /\ Within([c EXCEPT !.Landscape = v], limit)
         /\ Within([c EXCEPT !.ForcePollingMode = v], limit)
BY FieldsExist DEF Within

\* An array of overrides whose configurations are within those of another.
Mirrors(array, origin) ==
  /\ DOMAIN array = DOMAIN origin
  /\ \A i \in DOMAIN origin : /\ array[i].pattern = origin[i].pattern
                            /\ Within(array[i].config, origin[i].config)

\* A lookup finds the same override in both.
LEMMA LookupWithin ==
  ASSUME NEW default, NEW array, NEW limit, NEW origin, NEW matching,
         Within(default, limit), Mirrors(array, origin), DOMAIN origin \subseteq Nat
  PROVE  Within(LookupRequestConfig([default |-> default, overrides |-> array], matching),
                LookupRequestConfig([default |-> limit, overrides |-> origin], matching))
<1> DEFINE hits == {i \in DOMAIN origin : origin[i].pattern \in matching}
<1>1. {i \in DOMAIN array : array[i].pattern \in matching} = hits
  BY DEF Mirrors
<1>2. /\ LookupRequestConfig([default |-> default, overrides |-> array], matching)
           = IF hits = {} THEN default ELSE array[FirstOf(hits)].config
      /\ LookupRequestConfig([default |-> limit, overrides |-> origin], matching)
           = IF hits = {} THEN limit ELSE origin[FirstOf(hits)].config
  BY <1>1 DEF LookupRequestConfig
<1>3. hits # {} => FirstOf(hits) \in DOMAIN origin
  BY FirstOfIsIn
<1> HIDE DEF hits
<1> QED
  BY <1>2, <1>3 DEF Mirrors

-----------------------------------------------------------------------------
(* The invariant.                                                          *)

Addresses == Requests \union {Service}
CfgFields == {"timeZone", "cookies", "overrides", "headers", "default"}

Shape ==
  /\ stage \in {"off", "serving", "failed"}
  /\ command \in Commands
  /\ DOMAIN headerMaps = Addresses /\ DOMAIN overrideArrays = Addresses
  /\ pc \in [Requests -> {"idle", "refused", "parsed", "applying", "launched", "captured"}]
  /\ todo \in [Requests -> Seq(Option)]
  /\ DOMAIN query = Requests /\ DOMAIN cfg = Requests
  /\ DOMAIN launched = Requests /\ DOMAIN captured = Requests

\* What the service serves with is what its command line gives.
ServiceOK ==
  stage = "serving" =>
    /\ Starts(command) /\ overrideArrays[Service] = BuildRequestConfigOverrides(command)
    /\ DOMAIN serviceCfg = CfgFields
    /\ serviceCfg.cookies = Nil
    /\ serviceCfg.headers = IF headerMaps[Service] = Nil THEN Nil ELSE Service
    /\ headerMaps[Service] \in {Nil, command.headers}
    /\ serviceCfg.overrides = Service
    /\ Usable(serviceCfg.default)
    /\ DOMAIN overrideArrays[Service] \subseteq Nat
    /\ \A i \in DOMAIN overrideArrays[Service] : Usable(overrideArrays[Service][i].config)

\* What a request writes through its configuration is its own.
Own(r) ==
  /\ DOMAIN cfg[r] = CfgFields
  /\ cfg[r].overrides = r /\ cfg[r].headers \in {Nil, r}
  /\ Within(cfg[r].default, serviceCfg.default)
  /\ Mirrors(overrideArrays[r], overrideArrays[Service])

RequestOK(r) ==
  /\ pc[r] # "idle" => stage = "serving" /\ query[r] \in Queries
  /\ pc[r] \in {"parsed", "applying"} /\ query[r].csv => todo[r] = <<>>
  /\ pc[r] = "applying" /\ query[r].csv => cfg[r] = serviceCfg
  /\ pc[r] = "applying" /\ ~query[r].csv => Own(r)
  /\ launched[r] # Nil => /\ pc[r] \in {"launched", "captured"}
                          /\ Within(launched[r].config, Limits(query[r]))

RenderInv == Shape /\ ServiceOK /\ \A r \in Requests : RequestOK(r)

\* What a step of one request leaves alone.
Frame(r) ==
  /\ UNCHANGED serviceVars
  /\ headerMaps'[Service] = headerMaps[Service]
  /\ overrideArrays'[Service] = overrideArrays[Service]
  /\ \A s \in Requests \ {r} :
       /\ pc'[s] = pc[s] /\ query'[s] = query[s] /\ todo'[s] = todo[s]
       /\ cfg'[s] = cfg[s] /\ launched'[s] = launched[s] /\ captured'[s] = captured[s]
       /\ headerMaps'[s] = headerMaps[s] /\ overrideArrays'[s] = overrideArrays[s]

LEMMA FrameKeeps ==
  ASSUME RenderInv, NEW r \in Requests, Frame(r), Shape', RequestOK(r)'
  PROVE  RenderInv'
<1>1. ServiceOK'
  BY DEF RenderInv, ServiceOK, Frame, serviceVars
<1>2. ASSUME NEW s \in Requests \ {r}
      PROVE  RequestOK(s)'
  <2>1. /\ stage' = stage /\ serviceCfg' = serviceCfg
        /\ overrideArrays'[Service] = overrideArrays[Service]
        /\ pc'[s] = pc[s] /\ query'[s] = query[s] /\ todo'[s] = todo[s]
        /\ cfg'[s] = cfg[s] /\ launched'[s] = launched[s]
        /\ overrideArrays'[s] = overrideArrays[s]
    BY DEF Frame, serviceVars
  <2>2. Own(s) => Own(s)'
    BY <2>1 DEF Own
  <2>3. Limits(query[s])' = Limits(query[s])
    BY <2>1 DEF Limits, SharedConfigs
  <2> QED
    BY <2>1, <2>2, <2>3 DEF RenderInv, RequestOK
<1> QED
  BY <1>1, <1>2 DEF RenderInv

LEMMA RenderInitInv == Init => RenderInv
BY DEF Init, RenderInv, Shape, ServiceOK, RequestOK, Addresses

LEMMA StartInv ==
  ASSUME RenderInv, Start
  PROVE  RenderInv'
<1>1. \A r \in Requests : pc[r] = "idle"
  BY DEF Start, RenderInv, RequestOK, Shape
<1>2. Shape'
  BY DEF Start, RenderInv, Shape, Addresses, heap
<1>3. ServiceOK'
  <2> SUFFICES ASSUME stage' = "serving" PROVE ServiceOK'
    BY DEF ServiceOK
  <2>1. /\ Starts(command)
        /\ serviceCfg' = [timeZone |-> command.timeZone, cookies |-> Nil, overrides |-> Service,
                          headers |-> IF Headers(command) = Nil THEN Nil ELSE Service,
                          default |-> RequestConfigFromCommand(command)]
        /\ overrideArrays' = [overrideArrays EXCEPT ![Service] = BuildRequestConfigOverrides(command)]
    BY DEF Start
  <2>2. DOMAIN serviceCfg' = CfgFields /\ serviceCfg'.overrides = Service
    BY <2>1 DEF CfgFields
  <2>3. Usable(serviceCfg'.default)
    BY <2>1, CommandUsable DEF Starts
  <2>4. overrideArrays'[Service] = BuildRequestConfigOverrides(command)
    BY <2>1 DEF RenderInv, Shape, Addresses
  <2>5. headerMaps'[Service] = Headers(command)
    BY DEF Start, RenderInv, Shape, Addresses
  <2>6. /\ serviceCfg'.cookies = Nil
        /\ serviceCfg'.headers = IF headerMaps'[Service] = Nil THEN Nil ELSE Service
        /\ headerMaps'[Service] \in {Nil, command.headers}
        /\ command' = command
    BY <2>1, <2>5 DEF Headers, Start
  <2>7. DOMAIN overrideArrays'[Service] = DOMAIN command.overrides
    BY <2>4 DEF BuildRequestConfigOverrides
  <2>8. DOMAIN command.overrides \subseteq Nat
    BY InputAssumption DEF RenderInv, Shape
  <2>9. ASSUME NEW i \in DOMAIN command.overrides
        PROVE  Usable(overrideArrays'[Service][i].config)
    <3>1. overrideArrays'[Service][i].config = OverrideConfig(command, command.overrides[i])
      BY <2>4 DEF BuildRequestConfigOverrides
    <3>2. WellFormed(command, command.overrides[i])
      BY <2>1 DEF Starts
    <3> QED
      BY <3>1, <3>2, OverrideUsable
  <2> QED
    BY <2>1, <2>2, <2>3, <2>4, <2>6, <2>7, <2>8, <2>9 DEF ServiceOK
<1>4. ASSUME NEW r \in Requests PROVE RequestOK(r)'
  <2>1. /\ pc'[r] = "idle" /\ launched'[r] = launched[r]
    BY <1>1 DEF Start
  <2>2. launched[r] = Nil
    BY <1>1 DEF RenderInv, RequestOK
  <2> QED
    BY <2>1, <2>2 DEF RequestOK
<1> QED
  BY <1>2, <1>3, <1>4 DEF RenderInv

-----------------------------------------------------------------------------
(* The steps of a request, each within its frame.                          *)

LEMMA ArriveInv ==
  ASSUME RenderInv, NEW r \in Requests, NEW q \in Queries, Arrive(r, q)
  PROVE  RenderInv' /\ Frame(r)
<1>1. Frame(r)
  BY DEF Arrive, Becomes, Frame, serviceVars, heap, RenderInv, Shape
<1>2. Shape'
  BY OptionsTyped DEF Arrive, Becomes, RenderInv, Shape, serviceVars, heap
<1>3. RequestOK(r)'
  <2>1. /\ query'[r] = q /\ stage' = "serving" /\ pc'[r] \in {"refused", "parsed"}
        /\ q.csv => todo'[r] = <<>>
    BY DEF Arrive, Becomes, RenderInv, Shape, serviceVars
  <2>2. launched'[r] = Nil
    BY DEF Arrive, RenderInv, RequestOK
  <2> QED
    BY <2>1, <2>2 DEF RequestOK
<1> QED
  BY <1>1, <1>2, <1>3, FrameKeeps

LEMMA TakeConfigInv ==
  ASSUME RenderInv, NEW r \in Requests, TakeConfig(r)
  PROVE  RenderInv' /\ Frame(r)
<1>0. /\ r # Service /\ r \in Addresses /\ Service \in Addresses
      /\ stage = "serving" /\ query[r] \in Queries
  BY RequestAssumption DEF Addresses, TakeConfig, RenderInv, RequestOK
<1>1. Frame(r)
  <2>1. CASE query[r].csv
    BY <2>1 DEF TakeConfig, Becomes, Frame, serviceVars, heap, RenderInv, Shape
  <2>2. CASE ~query[r].csv
    <3>1. /\ headerMaps' = [headerMaps EXCEPT ![r] = headerMaps[Service]]
          /\ overrideArrays' = [overrideArrays EXCEPT ![r] = overrideArrays[Service]]
          /\ \A s \in Requests \ {r} : cfg'[s] = cfg[s]
      BY <2>2 DEF TakeConfig, DeepClone, RenderInv, Shape
    <3>2. headerMaps'[Service] = headerMaps[Service]
      BY <1>0, <3>1 DEF RenderInv, Shape
    <3>3. \A s \in Addresses \ {r} : overrideArrays'[s] = overrideArrays[s]
      BY <3>1 DEF RenderInv, Shape
    <3> QED
      BY <1>0, <3>1, <3>2, <3>3 DEF TakeConfig, Becomes, Frame, serviceVars, RenderInv, Shape, Addresses
  <2> QED
    BY <2>1, <2>2
<1>2. Shape'
  BY <1>0 DEF TakeConfig, DeepClone, Becomes, RenderInv, Shape, serviceVars, heap
<1>3. /\ pc'[r] = "applying" /\ query'[r] = query[r] /\ todo'[r] = todo[r] /\ launched'[r] = launched[r]
      /\ stage' = stage /\ serviceCfg' = serviceCfg /\ pc[r] = "parsed"
      /\ overrideArrays'[Service] = overrideArrays[Service]
  BY <1>1 DEF TakeConfig, Becomes, RenderInv, Shape, Frame, serviceVars
<1>4. RequestOK(r)'
  <2>1. launched'[r] = Nil
    BY <1>3 DEF RenderInv, RequestOK
  <2>2. CASE query[r].csv
    <3>1. cfg'[r] = serviceCfg
      BY <2>2 DEF TakeConfig, RenderInv, Shape
    <3>2. todo[r] = <<>>
      BY <1>3, <2>2 DEF RenderInv, RequestOK
    <3> QED
      BY <1>0, <1>3, <2>1, <2>2, <3>1, <3>2 DEF RequestOK
  <2>3. CASE ~query[r].csv
    <3>1. /\ cfg'[r] = [serviceCfg EXCEPT !.headers = IF @ = Nil THEN Nil ELSE r, !.overrides = r]
          /\ overrideArrays'[r] = overrideArrays[Service]
      BY <1>0, <2>3 DEF TakeConfig, DeepClone, RenderInv, Shape
    <3>2. DOMAIN serviceCfg = CfgFields /\ Usable(serviceCfg.default)
      BY <1>0 DEF RenderInv, ServiceOK
    <3>3. /\ DOMAIN cfg'[r] = CfgFields /\ cfg'[r].overrides = r /\ cfg'[r].headers \in {Nil, r}
          /\ cfg'[r].default = serviceCfg.default
      BY <3>1, <3>2 DEF CfgFields
    <3>4. Mirrors(overrideArrays[Service], overrideArrays[Service])
      BY <1>0, UsableWithinItself DEF RenderInv, ServiceOK, Mirrors
    <3>5. Own(r)'
      BY <1>3, <3>1, <3>2, <3>3, <3>4, UsableWithinItself DEF Own
    <3> QED
      BY <1>0, <1>3, <2>1, <2>3, <3>5 DEF RequestOK
  <2> QED
    BY <2>2, <2>3
<1> QED
  BY <1>1, <1>2, <1>4, FrameKeeps

\* An option of a configuration of the request's own leaves it its own.
LEMMA OptionKeeps ==
  ASSUME RenderInv, NEW r \in Requests, pc[r] = "applying", todo[r] # <<>>,
         todo' = [todo EXCEPT ![r] = Tail(@)],
         UNCHANGED <<serviceVars, pc, query, launched, captured>>,
         DOMAIN headerMaps' = DOMAIN headerMaps,
         \A s \in Addresses \ {r} : headerMaps'[s] = headerMaps[s],
         DOMAIN overrideArrays' = DOMAIN overrideArrays,
         \A s \in Addresses \ {r} : overrideArrays'[s] = overrideArrays[s],
         DOMAIN cfg' = DOMAIN cfg, \A s \in Requests \ {r} : cfg'[s] = cfg[s],
         Own(r)'
  PROVE  RenderInv' /\ Frame(r)
<1>0. r # Service /\ r \in Addresses /\ Service \in Addresses
  BY RequestAssumption DEF Addresses
<1>1. Frame(r)
  BY <1>0 DEF Frame, RenderInv, Shape, Addresses
<1>2. Tail(todo[r]) \in Seq(Option)
  BY NextOption DEF RenderInv, Shape
<1>3. Shape'
  BY <1>2 DEF RenderInv, Shape, serviceVars
<1>4. ~query[r].csv
  BY DEF RenderInv, RequestOK
<1>5. RequestOK(r)'
  BY <1>4 DEF RenderInv, RequestOK, serviceVars
<1> QED
  BY <1>1, <1>3, <1>5, FrameKeeps

\* An option that changes every configuration of the request alike.
LEMMA ChangeOwns ==
  ASSUME RenderInv, NEW r \in Requests, stage = "serving", Own(r),
         UNCHANGED serviceVars, overrideArrays'[Service] = overrideArrays[Service],
         NEW default, NEW array,
         cfg' = [cfg EXCEPT ![r].default = default], overrideArrays'[r] = array,
         Within(default, serviceCfg.default), Mirrors(array, overrideArrays[Service])
  PROVE  Own(r)' /\ DOMAIN cfg' = DOMAIN cfg /\ \A s \in Requests \ {r} : cfg'[s] = cfg[s]
<1>1. cfg'[r] = [cfg[r] EXCEPT !.default = default]
  BY DEF RenderInv, Shape
<1>2. /\ DOMAIN cfg'[r] = CfgFields /\ cfg'[r].overrides = r /\ cfg'[r].headers \in {Nil, r}
      /\ cfg'[r].default = default
  BY <1>1 DEF Own, CfgFields
<1>3. DOMAIN cfg' = DOMAIN cfg /\ \A s \in Requests \ {r} : cfg'[s] = cfg[s]
  BY DEF RenderInv, Shape
<1> QED
  BY <1>2, <1>3 DEF Own, serviceVars

\* What Apply does to the array, for a change that keeps every configuration
\* within its limit.
LEMMA ArrayMirrors ==
  ASSUME NEW old, NEW new, NEW origin, Mirrors(old, origin), DOMAIN new = DOMAIN old,
         \A i \in DOMAIN old : /\ new[i].pattern = old[i].pattern
                               /\ Within(new[i].config, origin[i].config)
  PROVE  Mirrors(new, origin)
BY DEF Mirrors

LEMMA ApplyInv ==
  ASSUME RenderInv, NEW r \in Requests, ApplyOption(r),
         NEW default, NEW array,
         cfg' = [cfg EXCEPT ![r].default = default],
         overrideArrays' = [overrideArrays EXCEPT ![r] = array],
         UNCHANGED headerMaps,
         Own(r) /\ ServiceOK => /\ Within(default, serviceCfg.default)
                               /\ Mirrors(array, overrideArrays[Service])
  PROVE  RenderInv' /\ Frame(r)
<1>0. /\ r # Service /\ r \in Addresses /\ Service \in Addresses
      /\ stage = "serving" /\ ~query[r].csv /\ pc[r] = "applying" /\ todo[r] # <<>>
      /\ Own(r) /\ ServiceOK
  BY RequestAssumption DEF Addresses, ApplyOption, RenderInv, RequestOK
<1>1. /\ overrideArrays'[r] = array
      /\ \A s \in Addresses \ {r} : overrideArrays'[s] = overrideArrays[s]
      /\ DOMAIN overrideArrays' = DOMAIN overrideArrays
  BY <1>0 DEF RenderInv, Shape
<1>2. overrideArrays'[Service] = overrideArrays[Service]
  BY <1>0, <1>1
<1>3. Within(default, serviceCfg.default) /\ Mirrors(array, overrideArrays[Service])
  BY <1>0
<1>4. /\ todo' = [todo EXCEPT ![r] = Tail(@)]
      /\ UNCHANGED <<serviceVars, pc, query, launched, captured>>
  BY DEF ApplyOption
<1>5. Own(r)' /\ DOMAIN cfg' = DOMAIN cfg /\ \A s \in Requests \ {r} : cfg'[s] = cfg[s]
  BY <1>0, <1>1, <1>2, <1>3, <1>4, ChangeOwns
<1> QED
  BY <1>0, <1>1, <1>4, <1>5, OptionKeeps

LEMMA ViewportInv ==
  ASSUME RenderInv, NEW r \in Requests, ApplyOption(r), WithViewport(r, Head(todo[r]))
  PROVE  RenderInv' /\ Frame(r)
<1> DEFINE o == Head(todo[r])
           array == [i \in DOMAIN overrideArrays[r] |->
                       [pattern |-> overrideArrays[r][i].pattern,
                        config |-> Resized(o, overrideArrays[r][i].config)]]
<1>1. o \in Option
  BY NextOption DEF ApplyOption, RenderInv, Shape
<1>2. cfg[r].overrides = r
  BY DEF ApplyOption, RenderInv, RequestOK, Own
<1>3. /\ cfg' = [cfg EXCEPT ![r].default = Resized(o, cfg[r].default)]
      /\ overrideArrays' = [overrideArrays EXCEPT ![r] = array]
      /\ UNCHANGED headerMaps
      /\ o.op = "viewport"
  BY <1>2 DEF WithViewport, Apply
<1>4. ASSUME Own(r), ServiceOK, stage = "serving"
      PROVE  /\ Within(Resized(o, cfg[r].default), serviceCfg.default)
             /\ Mirrors(array, overrideArrays[Service])
  <2>1. Within(Resized(o, cfg[r].default), serviceCfg.default)
    BY <1>1, <1>3, <1>4, ResizedWithin DEF Own, ServiceOK
  <2>2. ASSUME NEW i \in DOMAIN overrideArrays[r]
        PROVE  /\ array[i].pattern = overrideArrays[r][i].pattern
               /\ Within(array[i].config, overrideArrays[Service][i].config)
    BY <1>1, <1>3, <1>4, ResizedWithin DEF Own, ServiceOK, Mirrors
  <2> QED
    BY <1>4, <2>1, <2>2, ArrayMirrors DEF Own
<1>5. stage = "serving"
  BY DEF ApplyOption, RenderInv, RequestOK
<1> HIDE DEF array, o
<1> QED
  BY <1>3, <1>4, <1>5, ApplyInv


LEMMA ScaleInv ==
  ASSUME RenderInv, NEW r \in Requests, ApplyOption(r), WithPageScaleFactor(r, Head(todo[r]))
  PROVE  RenderInv' /\ Frame(r)
<1> DEFINE o == Head(todo[r])
           array == [i \in DOMAIN overrideArrays[r] |->
                       [pattern |-> overrideArrays[r][i].pattern,
                        config |-> Scaled(o, overrideArrays[r][i].config)]]
<1>1. o \in Option
  BY NextOption DEF ApplyOption, RenderInv, Shape
<1>2. cfg[r].overrides = r
  BY DEF ApplyOption, RenderInv, RequestOK, Own
<1>3. /\ cfg' = [cfg EXCEPT ![r].default = Scaled(o, cfg[r].default)]
      /\ overrideArrays' = [overrideArrays EXCEPT ![r] = array]
      /\ UNCHANGED headerMaps
      /\ o.op = "scale" /\ o.value > 0
  BY <1>2 DEF WithPageScaleFactor, Apply
<1>4. ASSUME Own(r), ServiceOK, stage = "serving"
      PROVE  /\ Within(Scaled(o, cfg[r].default), serviceCfg.default)
             /\ Mirrors(array, overrideArrays[Service])
  <2>1. Within(Scaled(o, cfg[r].default), serviceCfg.default)
    BY <1>1, <1>3, <1>4, ScaledWithin DEF Own, ServiceOK
  <2>2. ASSUME NEW i \in DOMAIN overrideArrays[r]
        PROVE  /\ array[i].pattern = overrideArrays[r][i].pattern
               /\ Within(array[i].config, overrideArrays[Service][i].config)
    BY <1>1, <1>3, <1>4, ScaledWithin DEF Own, ServiceOK, Mirrors
  <2> QED
    BY <1>4, <2>1, <2>2, ArrayMirrors DEF Own
<1>5. stage = "serving"
  BY DEF ApplyOption, RenderInv, RequestOK
<1> HIDE DEF array, o
<1> QED
  BY <1>3, <1>4, <1>5, ApplyInv


LEMMA LandscapeInv ==
  ASSUME RenderInv, NEW r \in Requests, ApplyOption(r), WithLandscape(r, Head(todo[r]))
  PROVE  RenderInv' /\ Frame(r)
<1> DEFINE o == Head(todo[r])
           array == [i \in DOMAIN overrideArrays[r] |->
                       [pattern |-> overrideArrays[r][i].pattern,
                        config |-> [overrideArrays[r][i].config EXCEPT !.Landscape = o.value]]]
<1>1. o \in Option
  BY NextOption DEF ApplyOption, RenderInv, Shape
<1>2. cfg[r].overrides = r
  BY DEF ApplyOption, RenderInv, RequestOK, Own
<1>3. /\ cfg' = [cfg EXCEPT ![r].default = [cfg[r].default EXCEPT !.Landscape = o.value]]
      /\ overrideArrays' = [overrideArrays EXCEPT ![r] = array]
      /\ UNCHANGED headerMaps
  BY <1>2 DEF WithLandscape, Apply
<1>4. ASSUME Own(r), ServiceOK, stage = "serving"
      PROVE  /\ Within([cfg[r].default EXCEPT !.Landscape = o.value], serviceCfg.default)
             /\ Mirrors(array, overrideArrays[Service])
  <2>1. Within([cfg[r].default EXCEPT !.Landscape = o.value], serviceCfg.default)
    BY <1>1, <1>3, <1>4, FlippedWithin DEF Own, ServiceOK
  <2>2. ASSUME NEW i \in DOMAIN overrideArrays[r]
        PROVE  /\ array[i].pattern = overrideArrays[r][i].pattern
               /\ Within(array[i].config, overrideArrays[Service][i].config)
    BY <1>1, <1>3, <1>4, FlippedWithin DEF Own, ServiceOK, Mirrors
  <2> QED
    BY <1>4, <2>1, <2>2, ArrayMirrors DEF Own
<1>5. stage = "serving"
  BY DEF ApplyOption, RenderInv, RequestOK
<1> HIDE DEF array, o
<1> QED
  BY <1>3, <1>4, <1>5, ApplyInv


LEMMA PollingInv ==
  ASSUME RenderInv, NEW r \in Requests, ApplyOption(r), WithForcePolling(r, Head(todo[r]))
  PROVE  RenderInv' /\ Frame(r)
<1> DEFINE o == Head(todo[r])
           array == [i \in DOMAIN overrideArrays[r] |->
                       [pattern |-> overrideArrays[r][i].pattern,
                        config |-> [overrideArrays[r][i].config EXCEPT !.ForcePollingMode = o.value]]]
<1>1. o \in Option
  BY NextOption DEF ApplyOption, RenderInv, Shape
<1>2. cfg[r].overrides = r
  BY DEF ApplyOption, RenderInv, RequestOK, Own
<1>3. /\ cfg' = [cfg EXCEPT ![r].default = [cfg[r].default EXCEPT !.ForcePollingMode = o.value]]
      /\ overrideArrays' = [overrideArrays EXCEPT ![r] = array]
      /\ UNCHANGED headerMaps
  BY <1>2 DEF WithForcePolling, Apply
<1>4. ASSUME Own(r), ServiceOK, stage = "serving"
      PROVE  /\ Within([cfg[r].default EXCEPT !.ForcePollingMode = o.value], serviceCfg.default)
             /\ Mirrors(array, overrideArrays[Service])
  <2>1. Within([cfg[r].default EXCEPT !.ForcePollingMode = o.value], serviceCfg.default)
    BY <1>1, <1>3, <1>4, FlippedWithin DEF Own, ServiceOK
  <2>2. ASSUME NEW i \in DOMAIN overrideArrays[r]
        PROVE  /\ array[i].pattern = overrideArrays[r][i].pattern
               /\ Within(array[i].config, overrideArrays[Service][i].config)
    BY <1>1, <1>3, <1>4, FlippedWithin DEF Own, ServiceOK, Mirrors
  <2> QED
    BY <1>4, <2>1, <2>2, ArrayMirrors DEF Own
<1>5. stage = "serving"
  BY DEF ApplyOption, RenderInv, RequestOK
<1> HIDE DEF array, o
<1> QED
  BY <1>3, <1>4, <1>5, ApplyInv


\* The options that leave the limits alone; the header is written to a map of
\* the request's own.
LEMMA OtherOptionsInv ==
  ASSUME RenderInv, NEW r \in Requests, ApplyOption(r),
         \/ WithTimeZone(r, Head(todo[r])) \/ WithCookie(r, Head(todo[r]))
         \/ WithHeader(r, Head(todo[r]))
  PROVE  RenderInv' /\ Frame(r)
<1>0. /\ r # Service /\ r \in Addresses /\ Service \in Addresses
      /\ stage = "serving" /\ pc[r] = "applying" /\ todo[r] # <<>> /\ Own(r)
  BY RequestAssumption DEF Addresses, ApplyOption, RenderInv, RequestOK
<1>1. /\ DOMAIN headerMaps' = DOMAIN headerMaps
      /\ \A s \in Addresses \ {r} : headerMaps'[s] = headerMaps[s]
      /\ overrideArrays' = overrideArrays
  <2>1. CASE WithTimeZone(r, Head(todo[r])) \/ WithCookie(r, Head(todo[r]))
    BY <2>1 DEF WithTimeZone, WithCookie, heap
  <2>2. CASE WithHeader(r, Head(todo[r]))
    <3> DEFINE a == IF cfg[r].headers = Nil THEN r ELSE cfg[r].headers
    <3>1. a = r
      BY <1>0 DEF Own
    <3>2. PICK x : headerMaps' = [headerMaps EXCEPT ![r] = x]
      BY <2>2, <3>1 DEF WithHeader
    <3> QED
      BY <1>0, <2>2, <3>2 DEF WithHeader, RenderInv, Shape
  <2> QED
    BY <2>1, <2>2
<1>2. \E c : /\ cfg' = [cfg EXCEPT ![r] = c]
             /\ DOMAIN c = CfgFields /\ c.overrides = r /\ c.headers \in {Nil, r}
             /\ c.default = cfg[r].default
  <2> DEFINE o == Head(todo[r])
  <2>1. CASE WithTimeZone(r, o)
    <3> DEFINE c == [cfg[r] EXCEPT !.timeZone = o.value]
    <3>1. cfg' = [cfg EXCEPT ![r] = c]
      BY <2>1 DEF WithTimeZone
    <3>2. /\ DOMAIN c = CfgFields /\ c.overrides = r /\ c.headers \in {Nil, r}
          /\ c.default = cfg[r].default
      BY <1>0 DEF Own, CfgFields
    <3> HIDE DEF c
    <3> WITNESS c
    <3> QED
      BY <3>1, <3>2
  <2>2. CASE WithCookie(r, o)
    <3> DEFINE c == [cfg[r] EXCEPT !.cookies = {Bracketed(o.value)}]
    <3>1. cfg' = [cfg EXCEPT ![r] = c]
      BY <2>2 DEF WithCookie
    <3>2. /\ DOMAIN c = CfgFields /\ c.overrides = r /\ c.headers \in {Nil, r}
          /\ c.default = cfg[r].default
      BY <1>0 DEF Own, CfgFields
    <3> HIDE DEF c
    <3> WITNESS c
    <3> QED
      BY <3>1, <3>2
  <2>3. CASE WithHeader(r, o)
    <3> DEFINE c == [cfg[r] EXCEPT !.headers = r]
    <3>1. cfg' = [cfg EXCEPT ![r] = c]
      BY <1>0, <2>3 DEF WithHeader, Own
    <3>2. /\ DOMAIN c = CfgFields /\ c.overrides = r /\ c.headers \in {Nil, r}
          /\ c.default = cfg[r].default
      BY <1>0 DEF Own, CfgFields
    <3> HIDE DEF c
    <3> WITNESS c
    <3> QED
      BY <3>1, <3>2
  <2> QED
    BY <2>1, <2>2, <2>3
<1>3. /\ DOMAIN cfg' = DOMAIN cfg /\ \A s \in Requests \ {r} : cfg'[s] = cfg[s]
      /\ DOMAIN cfg'[r] = CfgFields /\ cfg'[r].overrides = r /\ cfg'[r].headers \in {Nil, r}
      /\ cfg'[r].default = cfg[r].default
  BY <1>2 DEF RenderInv, Shape
<1>4. /\ todo' = [todo EXCEPT ![r] = Tail(@)]
      /\ UNCHANGED <<serviceVars, pc, query, launched, captured>>
  BY DEF ApplyOption
<1>5. Own(r)'
  BY <1>0, <1>1, <1>3, <1>4 DEF Own, serviceVars
<1> QED
  BY <1>0, <1>1, <1>3, <1>4, <1>5, OptionKeeps

LEMMA ApplyOptionInv ==
  ASSUME RenderInv, NEW r \in Requests, ApplyOption(r)
  PROVE  RenderInv' /\ Frame(r)
BY ViewportInv, ScaleInv, LandscapeInv, PollingInv, OtherOptionsInv DEF ApplyOption

\* A refusal and a capture change only where the request is.
LEMMA RefuseInv ==
  ASSUME RenderInv, NEW r \in Requests, RefuseOption(r) \/ Capture(r)
  PROVE  RenderInv' /\ Frame(r)
<1>1. Frame(r)
  BY DEF RefuseOption, Capture, Becomes, Frame, serviceVars, heap, RenderInv, Shape
<1>2. Shape'
  BY DEF RefuseOption, Capture, Becomes, RenderInv, Shape, serviceVars, heap
<1>3. Limits(query[r])' = Limits(query[r])
  BY DEF RefuseOption, Capture, Limits, SharedConfigs, serviceVars, heap
<1>4. RequestOK(r)'
  BY <1>3 DEF RefuseOption, Capture, Becomes, RenderInv, Shape, RequestOK, serviceVars
<1> QED
  BY <1>1, <1>2, <1>4, FrameKeeps

\* The browser starts with a configuration within the one its url matches.
LEMMA LaunchInv ==
  ASSUME RenderInv, NEW r \in Requests, Launch(r)
  PROVE  RenderInv' /\ Frame(r)
<1>0. /\ stage = "serving" /\ pc[r] = "applying" /\ query[r] \in Queries
      /\ DOMAIN overrideArrays[Service] \subseteq Nat
      /\ serviceCfg.overrides = Service /\ Usable(serviceCfg.default)
      /\ \A i \in DOMAIN overrideArrays[Service] : Usable(overrideArrays[Service][i].config)
  BY DEF Launch, RenderInv, RequestOK, ServiceOK
<1>1. Frame(r)
  BY DEF Launch, Becomes, Frame, serviceVars, heap, RenderInv, Shape
<1>2. Shape'
  BY DEF Launch, Becomes, RenderInv, Shape, serviceVars, heap
<1>3. Within(ConfigNow(r), Limits(query[r]))
  <2>1. /\ Within(cfg[r].default, serviceCfg.default)
        /\ Mirrors(overrideArrays[cfg[r].overrides], overrideArrays[Service])
    <3>1. CASE query[r].csv
      <4>1. cfg[r] = serviceCfg
        BY <1>0, <3>1 DEF RenderInv, RequestOK
      <4> QED
        BY <1>0, <4>1, UsableWithinItself DEF Mirrors
    <3>2. CASE ~query[r].csv
      BY <1>0, <3>2 DEF RenderInv, RequestOK, Own
    <3> QED
      BY <3>1, <3>2
  <2> QED
    BY <1>0, <2>1, LookupWithin DEF ConfigNow, Limits, SharedConfigs
<1>4. launched'[r].config = ConfigNow(r)
  BY DEF Launch, RenderInv, Shape
<1>5. Limits(query[r])' = Limits(query[r])
  BY DEF Launch, Limits, SharedConfigs, serviceVars, heap
<1>6. RequestOK(r)'
  BY <1>0, <1>3, <1>4, <1>5 DEF Launch, Becomes, RenderInv, Shape, RequestOK, serviceVars
<1> QED
  BY <1>1, <1>2, <1>6, FrameKeeps

LEMMA RespondInv ==
  ASSUME RenderInv, NEW r \in Requests, Respond(r)
  PROVE  RenderInv' /\ Frame(r)
<1>0. r # Service /\ r \in Addresses /\ Service \in Addresses
  BY RequestAssumption DEF Addresses
<1>1. Frame(r)
  BY <1>0 DEF Respond, Becomes, Frame, serviceVars, RenderInv, Shape, Addresses
<1>2. Shape'
  BY <1>0 DEF Respond, Becomes, RenderInv, Shape, serviceVars
<1>3. RequestOK(r)'
  BY DEF Respond, Becomes, RenderInv, Shape, RequestOK
<1> QED
  BY <1>1, <1>2, <1>3, FrameKeeps

-----------------------------------------------------------------------------
(* Every step, and the theorems.                                           *)

LEMMA RequestStepInv ==
  ASSUME RenderInv, NEW r \in Requests,
         \/ \E q \in Queries : Arrive(r, q)
         \/ TakeConfig(r) \/ ApplyOption(r) \/ RefuseOption(r)
         \/ Launch(r) \/ Capture(r) \/ Respond(r)
  PROVE  RenderInv' /\ Frame(r)
BY ArriveInv, TakeConfigInv, ApplyOptionInv, RefuseInv, LaunchInv, RespondInv

LEMMA RenderNextInv == RenderInv /\ [Next]_vars => RenderInv'
<1> SUFFICES ASSUME RenderInv, [Next]_vars PROVE RenderInv'
  OBVIOUS
<1>1. CASE Start
  BY <1>1, StartInv
<1>2. CASE \E r \in Requests :
        \/ \E q \in Queries : Arrive(r, q)
        \/ TakeConfig(r) \/ ApplyOption(r) \/ RefuseOption(r)
        \/ Launch(r) \/ Capture(r) \/ Respond(r)
  BY <1>2, RequestStepInv
<1>3. CASE UNCHANGED vars
  BY <1>3 DEF vars, serviceVars, heap, RenderInv, Shape, ServiceOK, RequestOK, Own, Limits, SharedConfigs
<1> QED
  BY <1>1, <1>2, <1>3 DEF Next

\* The requests always satisfy their inductive invariant.
THEOREM RenderInvariant == Spec => []RenderInv
<1> QED
  BY RenderInitInv, RenderNextInv, PTL DEF Spec

\* No request changes the configuration that the service shares, its map of
\* headers or its overrides (browser.go:262, config.go:474-483).
THEOREM ServiceConfigAlwaysUntouched == Spec => ServiceConfigUntouched
<1>1. ASSUME RenderInv, [Next]_vars, stage = "serving"
      PROVE  Shared' = Shared
  <2>1. ASSUME NEW r \in Requests, Frame(r)
        PROVE  Shared' = Shared
    BY <2>1 DEF Frame, serviceVars, Shared
  <2>2. CASE \E r \in Requests :
          \/ \E q \in Queries : Arrive(r, q)
          \/ TakeConfig(r) \/ ApplyOption(r) \/ RefuseOption(r)
          \/ Launch(r) \/ Capture(r) \/ Respond(r)
    BY <1>1, <2>1, <2>2, RequestStepInv
  <2>3. CASE UNCHANGED vars
    BY <2>3 DEF vars, serviceVars, heap, Shared
  <2>4. ~Start
    BY <1>1 DEF Start
  <2> QED
    BY <1>1, <2>2, <2>3, <2>4 DEF Next
<1>2. RenderInv /\ [Next]_vars => [stage = "serving" => Shared' = Shared]_vars
  BY <1>1
<1> QED
  BY <1>2, RenderInvariant, PTL DEF Spec, ServiceConfigUntouched

\* Every configuration a service serves with is usable, whatever the command
\* line and its overrides (config.go:765-773, :901-928).
THEOREM ConfigsAlwaysUsable == Spec => []UsableConfigs
<1>1. RenderInv => UsableConfigs
  BY DEF RenderInv, ServiceOK, UsableConfigs, Configs, Usable
<1> QED
  BY <1>1, RenderInvariant, PTL

\* No query leaves the limits of the configuration that its url matches,
\* whatever it asks for and whatever other requests do (config.go:430-451).
THEOREM AlwaysWithinLimits == Spec => []WithinLimits
<1>1. RenderInv => WithinLimits
  BY DEF RenderInv, RequestOK, WithinLimits, Within
<1> QED
  BY <1>1, RenderInvariant, PTL

\* An override is the service started again with the words of the override at
\* the end of its command line, for any command line (config.go:847-897).
THEOREM OverridesAreRestarts == Spec => []OverrideAsRestart
<1>1. RenderInv => OverrideAsRestart
  <2> SUFFICES ASSUME RenderInv, stage = "serving", NEW i \in DOMAIN command.overrides
               PROVE  overrideArrays[Service][i].config =
                        RequestConfigFromCommand([command EXCEPT !.args =
                          @ \o ParseOverrideFlags(FlagWords(command.overrides[i]))])
    BY DEF OverrideAsRestart
  <2> DEFINE words == ParseOverrideFlags(FlagWords(command.overrides[i]))
  <2>1. /\ Starts(command) /\ command \in Commands
        /\ overrideArrays[Service] = BuildRequestConfigOverrides(command)
    BY DEF RenderInv, Shape, ServiceOK
  <2>2. overrideArrays[Service][i].config = BuildConfigWithOverrides(command, words)
    BY <2>1 DEF BuildRequestConfigOverrides, OverrideConfig
  <2>3. "args" \in DOMAIN command /\ Listed(command.args) /\ Listed(command.overrides[i].words)
    BY <2>1, InputAssumption
  <2>4. Listed(words)
    BY <2>3, FlagWordsListed, FlagsListed
  <2>5. RequestConfigFromCommand(command) # NoConfig
    BY <2>1 DEF Starts
  <2> HIDE DEF words
  <2>6. BuildConfigWithOverrides(command, words)
          = RequestConfigFromCommand([command EXCEPT !.args = command.args \o words])
    BY <2>3, <2>4, <2>5, RestartedOverride
  <2> QED
    BY <2>2, <2>6 DEF words
<1> QED
  BY <1>1, RenderInvariant, PTL

-----------------------------------------------------------------------------
(* What a request asks for, option by option.                              *)

\* The options come in eight sections, each of one option or none.
Section(q, k) ==
  CASE k = 1 -> <<Viewport(Pixels(q.width), Pixels(q.height))>>
    [] k = 2 -> Given(q.scale, Setting("scale", q.scale))
    [] k = 3 -> IF q.timeZone \in TimeZones THEN <<Setting("timeZone", q.timeZone)>> ELSE <<>>
    [] k = 4 -> Given(q.landscape, Setting("landscape", q.landscape))
    [] k = 5 -> Given(q.cookie, Setting("cookie", q.cookie))
    [] k = 6 -> PrinterOptions(q)
    [] k = 7 -> Given(q.language, Setting("language", q.language))
    [] k = 8 -> Given(q.polling, Setting("polling", q.polling))

\* The sections from the k-th on.
Rest8(q) == Section(q, 8)
Rest7(q) == Section(q, 7) \o Rest8(q)
Rest6(q) == Section(q, 6) \o Rest7(q)
Rest5(q) == Section(q, 5) \o Rest6(q)
Rest4(q) == Section(q, 4) \o Rest5(q)
Rest3(q) == Section(q, 3) \o Rest4(q)
Rest2(q) == Section(q, 2) \o Rest3(q)
Rest1(q) == Section(q, 1) \o Rest2(q)
Rest(q, k) ==
  CASE k = 1 -> Rest1(q) [] k = 2 -> Rest2(q) [] k = 3 -> Rest3(q) [] k = 4 -> Rest4(q)
    [] k = 5 -> Rest5(q) [] k = 6 -> Rest6(q) [] k = 7 -> Rest7(q) [] k = 8 -> Rest8(q)
    [] k = 9 -> <<>>

\* The settings options change, in a configuration.
Changed(c, w, h, s, l, p) ==
  [c EXCEPT !.MinWidth = w, !.MinHeight = h, !.PageScaleFactor = s, !.Landscape = l,
            !.ForcePollingMode = p]

\* What a configuration is when the sections before the k-th are applied.
WidthBy(q, k, c) ==
  IF k > 1 THEN Bounded(Pixels(q.width), c.MinWidth, c.MaxWidth) ELSE c.MinWidth
HeightBy(q, k, c) ==
  IF k > 6 THEN Bounded(AskedHeight(q), c.MinHeight, c.MaxHeight)
  ELSE IF k > 1 THEN Bounded(Pixels(q.height), c.MinHeight, c.MaxHeight)
  ELSE c.MinHeight
ScaleBy(q, k, c) ==
  IF k > 2 /\ q.scale # Absent THEN Smaller(q.scale, c.MaxPageScaleFactor) ELSE c.PageScaleFactor
LandscapeBy(q, k, c) ==
  IF k > 6 THEN AskedLandscape(q, c.Landscape)
  ELSE IF k > 4 /\ q.landscape # Absent THEN q.landscape
  ELSE c.Landscape
PollingBy(q, k, c) == IF k > 8 /\ q.polling # Absent THEN q.polling ELSE c.ForcePollingMode

ConfigBy(q, k, c) ==
  Changed(c, WidthBy(q, k, c), HeightBy(q, k, c), ScaleBy(q, k, c), LandscapeBy(q, k, c),
          PollingBy(q, k, c))
TimeZoneBy(q, k, z) == IF k > 3 /\ q.timeZone \in TimeZones THEN q.timeZone ELSE z
CookiesBy(q, k) == IF k > 5 /\ q.cookie # Absent THEN {Bracketed(q.cookie)} ELSE Nil
HeadersBy(q, k, h) == IF k > 7 /\ q.language # Absent THEN WithLanguage(h, q.language) ELSE h

\* A section holds at most one option.
LEMMA SectionSize ==
  ASSUME NEW q, NEW k \in 1..8
  PROVE  Section(q, k) = <<>> \/ \E o : Section(q, k) = <<o>>
<1>1. /\ Section(q, 1) = <<Viewport(Pixels(q.width), Pixels(q.height))>>
      /\ Section(q, 2) = Given(q.scale, Setting("scale", q.scale))
      /\ Section(q, 3) = IF q.timeZone \in TimeZones THEN <<Setting("timeZone", q.timeZone)>> ELSE <<>>
      /\ Section(q, 4) = Given(q.landscape, Setting("landscape", q.landscape))
      /\ Section(q, 5) = Given(q.cookie, Setting("cookie", q.cookie))
      /\ Section(q, 6) = PrinterOptions(q)
      /\ Section(q, 7) = Given(q.language, Setting("language", q.language))
      /\ Section(q, 8) = Given(q.polling, Setting("polling", q.polling))
  BY DEF Section
<1>2. ASSUME NEW parameter, NEW o
      PROVE  Given(parameter, o) = <<>> \/ \E x : Given(parameter, o) = <<x>>
  BY DEF Given
<1>3. PrinterOptions(q) = <<>> \/ \E o : PrinterOptions(q) = <<o>>
  BY <1>2 DEF PrinterOptions
<1>4. Section(q, 1) = <<>> \/ \E o : Section(q, 1) = <<o>>
  BY <1>1
<1>5. Section(q, 3) = <<>> \/ \E o : Section(q, 3) = <<o>>
  BY <1>1
<1>6. \A i \in {2, 4, 5, 7, 8} : Section(q, i) = <<>> \/ \E o : Section(q, i) = <<o>>
  BY <1>1, <1>2
<1> QED
  BY <1>1, <1>3, <1>4, <1>5, <1>6

\* What is left is the next section and what is left after it.
LEMMA RestSteps ==
  ASSUME NEW q
  PROVE  /\ \A k \in 1..8 : Rest(q, k) = Section(q, k) \o Rest(q, k + 1)
         /\ Rest(q, 9) = <<>>
<1>1. /\ Rest(q, 1) = Rest1(q) /\ Rest(q, 2) = Rest2(q) /\ Rest(q, 3) = Rest3(q)
      /\ Rest(q, 4) = Rest4(q) /\ Rest(q, 5) = Rest5(q) /\ Rest(q, 6) = Rest6(q)
      /\ Rest(q, 7) = Rest7(q) /\ Rest(q, 8) = Rest8(q) /\ Rest(q, 9) = <<>>
  BY DEF Rest
<1>2. Rest(q, 8) = Section(q, 8) \o Rest(q, 9)
  <2>1. PICK o : Section(q, 8) = <<>> \/ Section(q, 8) = <<o>>
    BY SectionSize
  <2>2. <<>> \in Seq({o}) /\ <<o>> \in Seq({o})
    OBVIOUS
  <2>3. Section(q, 8) \o <<>> = Section(q, 8)
    BY <2>1, <2>2, ConcatEmptySeq
  <2> QED
    BY <1>1, <2>3 DEF Rest8
<1>3. /\ Rest(q, 1) = Section(q, 1) \o Rest(q, 2)
      /\ Rest(q, 2) = Section(q, 2) \o Rest(q, 3)
      /\ Rest(q, 3) = Section(q, 3) \o Rest(q, 4)
      /\ Rest(q, 4) = Section(q, 4) \o Rest(q, 5)
      /\ Rest(q, 5) = Section(q, 5) \o Rest(q, 6)
      /\ Rest(q, 6) = Section(q, 6) \o Rest(q, 7)
      /\ Rest(q, 7) = Section(q, 7) \o Rest(q, 8)
  BY <1>1 DEF Rest1, Rest2, Rest3, Rest4, Rest5, Rest6, Rest7
<1> SUFFICES ASSUME NEW k \in 1..8 PROVE Rest(q, k) = Section(q, k) \o Rest(q, k + 1)
  BY <1>1
<1>4. \/ (k = 1 /\ k + 1 = 2) \/ (k = 2 /\ k + 1 = 3) \/ (k = 3 /\ k + 1 = 4)
      \/ (k = 4 /\ k + 1 = 5) \/ (k = 5 /\ k + 1 = 6) \/ (k = 6 /\ k + 1 = 7)
      \/ (k = 7 /\ k + 1 = 8) \/ (k = 8 /\ k + 1 = 9)
  OBVIOUS
<1> QED
  BY <1>2, <1>3, <1>4, Zenon

\* Concatenation is associative.
Associate(a, b, c) == a \o (b \o c) = (a \o b) \o c

LEMMA Associative ==
  ASSUME NEW E, NEW a \in Seq(E), NEW b \in Seq(E), NEW c \in Seq(E)
  PROVE  Associate(a, b, c)
BY ConcatAssociative DEF Associate

\* Every section is a sequence, of the parts of the query's options.
Parts(q) == UNION {{Section(q, k)[i] : i \in DOMAIN Section(q, k)} : k \in 1..8}

LEMMA SectionsListed ==
  ASSUME NEW q, NEW k \in 1..8
  PROVE  Section(q, k) \in Seq(Parts(q))
<1>1. CASE Section(q, k) = <<>>
  BY <1>1
<1>2. CASE \E o : Section(q, k) = <<o>>
  <2>1. PICK o : Section(q, k) = <<o>>
    BY <1>2
  <2>2. o \in {Section(q, k)[i] : i \in DOMAIN Section(q, k)}
    BY <2>1
  <2>3. o \in Parts(q)
    BY <2>2 DEF Parts
  <2> QED
    BY <2>1, <2>3
<1> QED
  BY <1>1, <1>2, SectionSize

LEMMA RestListed ==
  ASSUME NEW q, NEW k \in 1..9
  PROVE  Rest(q, k) \in Seq(Parts(q))
<1>1. /\ Section(q, 1) \in Seq(Parts(q)) /\ Section(q, 2) \in Seq(Parts(q))
      /\ Section(q, 3) \in Seq(Parts(q)) /\ Section(q, 4) \in Seq(Parts(q))
      /\ Section(q, 5) \in Seq(Parts(q)) /\ Section(q, 6) \in Seq(Parts(q))
      /\ Section(q, 7) \in Seq(Parts(q)) /\ Section(q, 8) \in Seq(Parts(q))
  BY SectionsListed
<1>2. /\ Rest8(q) \in Seq(Parts(q)) /\ Rest7(q) \in Seq(Parts(q)) /\ Rest6(q) \in Seq(Parts(q))
      /\ Rest5(q) \in Seq(Parts(q)) /\ Rest4(q) \in Seq(Parts(q)) /\ Rest3(q) \in Seq(Parts(q))
      /\ Rest2(q) \in Seq(Parts(q)) /\ Rest1(q) \in Seq(Parts(q))
  BY <1>1, ConcatProperties DEF Rest8, Rest7, Rest6, Rest5, Rest4, Rest3, Rest2, Rest1
<1>3. k = 1 \/ k = 2 \/ k = 3 \/ k = 4 \/ k = 5 \/ k = 6 \/ k = 7 \/ k = 8 \/ k = 9
  OBVIOUS
<1>4. <<>> \in Seq(Parts(q))
  OBVIOUS
<1> QED
  BY <1>2, <1>3, <1>4 DEF Rest

\* Taking the first of the rest leaves the rest of it.
LEMMA BehindIt ==
  ASSUME NEW E, NEW o, NEW t \in Seq(E)
  PROVE  Head(<<o>> \o t) = o /\ Tail(<<o>> \o t) = t
<1> DEFINE F == E \union {o}
           s == <<o>> \o t
<1>1. t \in Seq(F) /\ <<o>> \in Seq(F) /\ Len(<<o>>) = 1
  BY SeqMonotonic
<1>2. /\ s \in Seq(F) /\ Len(s) = 1 + Len(t) /\ Len(t) \in Nat
      /\ \A i \in 1..1 + Len(t) : s[i] = IF i <= 1 THEN <<o>>[i] ELSE t[i - 1]
  BY <1>1, ConcatProperties, LenProperties
<1> HIDE DEF s, F
<1>3. s # <<>> /\ s[1] = o
  BY <1>2
<1>4. /\ Head(s) = o /\ Tail(s) \in Seq(F) /\ Len(Tail(s)) = Len(t)
      /\ \A i \in 1..Len(t) : Tail(s)[i] = t[i]
  BY <1>2, <1>3
<1>5. Tail(s) = t
  BY <1>1, <1>4, SeqEqual
<1> QED
  BY <1>4, <1>5 DEF s

\* Nothing is left out of the options of a query.
LEMMA RestIsAll ==
  ASSUME NEW q
  PROVE  Rest(q, 1) = Options(q)
<1> DEFINE E == Parts(q)
<1>1. \A k \in 1..8 : Section(q, k) \in Seq(E)
  BY SectionsListed
<1> HIDE DEF E
<1> DEFINE s1 == Section(q, 1)  s2 == Section(q, 2)  s3 == Section(q, 3)  s4 == Section(q, 4)
           s5 == Section(q, 5)  s6 == Section(q, 6)  s7 == Section(q, 7)  s8 == Section(q, 8)
<1>2. /\ s1 \in Seq(E) /\ s2 \in Seq(E) /\ s3 \in Seq(E) /\ s4 \in Seq(E)
      /\ s5 \in Seq(E) /\ s6 \in Seq(E) /\ s7 \in Seq(E) /\ s8 \in Seq(E)
  BY <1>1
<1>3. Rest1(q) = s1 \o (s2 \o (s3 \o (s4 \o (s5 \o (s6 \o (s7 \o s8))))))
  BY DEF Rest1, Rest2, Rest3, Rest4, Rest5, Rest6, Rest7, Rest8
<1>4. Rest(q, 1) = Rest1(q)
  BY DEF Rest
<1>5. /\ s1 = <<Viewport(Pixels(q.width), Pixels(q.height))>>
      /\ s2 = Given(q.scale, Setting("scale", q.scale))
      /\ s3 = IF q.timeZone \in TimeZones THEN <<Setting("timeZone", q.timeZone)>> ELSE <<>>
      /\ s4 = Given(q.landscape, Setting("landscape", q.landscape))
      /\ s5 = Given(q.cookie, Setting("cookie", q.cookie))
      /\ s6 = PrinterOptions(q)
      /\ s7 = Given(q.language, Setting("language", q.language))
      /\ s8 = Given(q.polling, Setting("polling", q.polling))
  BY DEF Section
<1> HIDE DEF s1, s2, s3, s4, s5, s6, s7, s8
<1>6. Options(q) = s1 \o s2 \o s3 \o s4 \o s5 \o s6 \o s7 \o s8
  BY <1>5 DEF Options
<1>7. /\ s1 \o s2 \in Seq(E) /\ s1 \o s2 \o s3 \in Seq(E) /\ s1 \o s2 \o s3 \o s4 \in Seq(E)
      /\ s1 \o s2 \o s3 \o s4 \o s5 \in Seq(E) /\ s1 \o s2 \o s3 \o s4 \o s5 \o s6 \in Seq(E)
  BY <1>2, ConcatProperties
<1>8. /\ s7 \o s8 \in Seq(E) /\ s6 \o (s7 \o s8) \in Seq(E) /\ s5 \o (s6 \o (s7 \o s8)) \in Seq(E)
      /\ s4 \o (s5 \o (s6 \o (s7 \o s8))) \in Seq(E)
      /\ s3 \o (s4 \o (s5 \o (s6 \o (s7 \o s8)))) \in Seq(E)
  BY <1>2, ConcatProperties
<1>9. /\ Associate(s1, s2, s3 \o (s4 \o (s5 \o (s6 \o (s7 \o s8)))))
      /\ Associate(s1 \o s2, s3, s4 \o (s5 \o (s6 \o (s7 \o s8))))
      /\ Associate(s1 \o s2 \o s3, s4, s5 \o (s6 \o (s7 \o s8)))
      /\ Associate(s1 \o s2 \o s3 \o s4, s5, s6 \o (s7 \o s8))
      /\ Associate(s1 \o s2 \o s3 \o s4 \o s5, s6, s7 \o s8)
      /\ Associate(s1 \o s2 \o s3 \o s4 \o s5 \o s6, s7, s8)
  BY <1>2, <1>7, <1>8, Associative
<1>10. Rest1(q) = s1 \o s2 \o s3 \o s4 \o s5 \o s6 \o s7 \o s8
  BY <1>3, <1>9 DEF Associate
<1> QED
  BY <1>4, <1>6, <1>10

-----------------------------------------------------------------------------
(* What each option does to a configuration.                               *)

\* Changing the settings to what they are changes nothing.
LEMMA ChangedToItself ==
  ASSUME NEW c, c = [f \in Fields |-> c[f]]
  PROVE  Changed(c, c.MinWidth, c.MinHeight, c.PageScaleFactor, c.Landscape, c.ForcePollingMode) = c
BY FieldsExist DEF Changed

\* Bounding a value that is asked for is clamping it, and clamping the bounded
\* value again changes nothing.
ClampsTo(v, minimum, maximum, bounded) ==
  /\ bounded = Bounded(v, minimum, maximum)
  /\ (IF v = -1 THEN minimum ELSE Clamped(v, minimum, maximum)) = bounded
  /\ (IF v = -1 THEN bounded ELSE Clamped(v, bounded, maximum)) = bounded
  /\ Bounded(-1, minimum, maximum) = minimum

LEMMA ClampedIsBounded ==
  ASSUME NEW v \in Int, NEW minimum \in Int, NEW maximum \in Int,
         maximum > 0 => minimum <= maximum
  PROVE  ClampsTo(v, minimum, maximum, Bounded(v, minimum, maximum))
<1> DEFINE bounded == Bounded(v, minimum, maximum)
<1>1. bounded \in Int /\ bounded >= minimum
  BY DEF Bounded, Larger, Smaller
<1>2. (IF v = -1 THEN minimum ELSE Clamped(v, minimum, maximum)) = bounded
  BY DEF Bounded, Clamped, Larger, Smaller
<1>3. (IF v = -1 THEN bounded ELSE Clamped(v, bounded, maximum)) = bounded
  BY DEF Bounded, Clamped, Larger, Smaller
<1>4. Bounded(-1, minimum, maximum) = minimum
  BY DEF Bounded
<1> QED
  BY <1>1, <1>2, <1>3, <1>4 DEF ClampsTo

\* The numbers of a query that is not refused.
LEMMA QueryTyped ==
  ASSUME NEW q \in Queries, ~q.csv, ~Refused(q)
  PROVE  /\ Pixels(q.width) \in Int /\ Pixels(q.height) \in Int /\ AskedHeight(q) \in Int
         /\ q.scale \in Int \union {Absent}
         /\ FullHeight(q) => AskedHeight(q) = (3 * Pixels(q.width)) \div 4 /\ Pixels(q.height) = -1
         /\ ~FullHeight(q) => AskedHeight(q) = Pixels(q.height)
<1>1. /\ q.width \in Int \union {Absent} /\ q.height \in Int \union {Absent}
      /\ q.scale \in Int \union {Absent}
  BY InputAssumption DEF Refused, RefusedRender
<1>2. Pixels(q.width) \in Int /\ Pixels(q.height) \in Int
  BY <1>1 DEF Pixels
<1>3. Pixels(q.width) # -1 => Pixels(q.width) = q.width
  BY DEF Pixels
<1>4. FullHeight(q) => AskedHeight(q) = (3 * Pixels(q.width)) \div 4 /\ Pixels(q.height) = -1
  <2> SUFFICES ASSUME FullHeight(q)
               PROVE  AskedHeight(q) = (3 * Pixels(q.width)) \div 4 /\ Pixels(q.height) = -1
    OBVIOUS
  <2>1. Pixels(q.height) = -1
    BY DEF FullHeight
  <2>2. CASE Pixels(q.width) = -1
    <3>1. \A x \in Int : x >= -4 /\ x < 0 => x \div 4 = -1
      OBVIOUS
    <3>2. 3 * Pixels(q.width) \in Int /\ 3 * Pixels(q.width) >= -4 /\ 3 * Pixels(q.width) < 0
      BY <2>2
    <3>3. (3 * Pixels(q.width)) \div 4 = -1
      BY <3>1, <3>2
    <3> QED
      BY <2>1, <2>2, <3>3 DEF AskedHeight
  <2>3. CASE Pixels(q.width) # -1
    BY <1>3, <2>1, <2>3 DEF AskedHeight
  <2> QED
    BY <2>2, <2>3
<1>5. ~FullHeight(q) => AskedHeight(q) = Pixels(q.height)
  BY DEF AskedHeight
<1>6. AskedHeight(q) \in Int
  <2>1. (3 * Pixels(q.width)) \div 4 \in Int
    BY <1>2
  <2> QED
    BY <1>2, <1>4, <1>5, <2>1
<1> QED
  BY <1>1, <1>2, <1>4, <1>5, <1>6

\* What an option does to a configuration.
Effect(o, c) ==
  CASE o.op = "viewport" -> Resized(o, c)
    [] o.op = "scale" -> Scaled(o, c)
    [] o.op = "landscape" -> [c EXCEPT !.Landscape = o.value]
    [] o.op = "polling" -> [c EXCEPT !.ForcePollingMode = o.value]
    [] OTHER -> c

\* On a configuration in which other settings are changed already, it changes
\* its own.
ActsOn(o, c, w, h, s, l, p) ==
  LET d == Changed(c, w, h, s, l, p)
  IN  /\ Resized(o, d) = Changed(c, IF o.width = -1 THEN w ELSE Clamped(o.width, w, c.MaxWidth),
                                    IF o.height = -1 THEN h ELSE Clamped(o.height, h, c.MaxHeight),
                                    s, l, p)
      /\ Scaled(o, d) = Changed(c, w, h, IF o.value > c.MaxPageScaleFactor
                                         THEN c.MaxPageScaleFactor ELSE o.value, l, p)
      /\ [d EXCEPT !.Landscape = o.value] = Changed(c, w, h, s, o.value, p)
      /\ [d EXCEPT !.ForcePollingMode = o.value] = Changed(c, w, h, s, l, o.value)

LEMMA EffectOnChanged ==
  ASSUME NEW c, Usable(c), NEW w, NEW h, NEW s, NEW l, NEW p, NEW o
  PROVE  ActsOn(o, c, w, h, s, l, p)
<1> DEFINE d == Changed(c, w, h, s, l, p)
           w2 == IF o.width = -1 THEN w ELSE Clamped(o.width, w, c.MaxWidth)
           h2 == IF o.height = -1 THEN h ELSE Clamped(o.height, h, c.MaxHeight)
           s2 == IF o.value > c.MaxPageScaleFactor THEN c.MaxPageScaleFactor ELSE o.value
<1>1. DOMAIN c = Fields
  BY DEF Usable
<1>2. /\ d.MinWidth = w /\ d.MinHeight = h
      /\ d.MaxWidth = c.MaxWidth /\ d.MaxHeight = c.MaxHeight
      /\ d.MaxPageScaleFactor = c.MaxPageScaleFactor
  BY <1>1, FieldsExist DEF Changed
<1>3. /\ Resized(o, d) = [d EXCEPT !.MinWidth = w2, !.MinHeight = h2]
      /\ Scaled(o, d) = [d EXCEPT !.PageScaleFactor = s2]
  <2> HIDE DEF d
  <2> QED
    BY <1>2 DEF Resized, Scaled
<1> HIDE DEF w2, h2, s2
<1>4. [d EXCEPT !.MinWidth = w2, !.MinHeight = h2] = Changed(c, w2, h2, s, l, p)
  BY <1>1, FieldsExist DEF Changed
<1>5. [d EXCEPT !.PageScaleFactor = s2] = Changed(c, w, h, s2, l, p)
  BY <1>1, FieldsExist DEF Changed
<1>6. /\ [d EXCEPT !.Landscape = o.value] = Changed(c, w, h, s, o.value, p)
      /\ [d EXCEPT !.ForcePollingMode = o.value] = Changed(c, w, h, s, l, o.value)
  BY <1>1, FieldsExist DEF Changed
<1> QED
  BY <1>3, <1>4, <1>5, <1>6 DEF ActsOn, w2, h2, s2

\* What a section that is empty, or is not, says of the query.
LEMMA SectionSays ==
  ASSUME NEW q
  PROVE  /\ Section(q, 1) = <<Viewport(Pixels(q.width), Pixels(q.height))>>
         /\ Section(q, 2) = IF q.scale = Absent THEN <<>> ELSE <<Setting("scale", q.scale)>>
         /\ Section(q, 3) = IF q.timeZone \in TimeZones THEN <<Setting("timeZone", q.timeZone)>> ELSE <<>>
         /\ Section(q, 4) = IF q.landscape = Absent THEN <<>> ELSE <<Setting("landscape", q.landscape)>>
         /\ Section(q, 5) = IF q.cookie = Absent THEN <<>> ELSE <<Setting("cookie", q.cookie)>>
         /\ Section(q, 6) = IF Encoding(q) = "pdf"
                            THEN IF q.pdfLandscape = Absent THEN <<>>
                                 ELSE <<Setting("landscape", q.pdfLandscape)>>
                            ELSE IF FullHeight(q)
                            THEN <<Viewport(Pixels(q.width), (3 * Pixels(q.width)) \div 4)>>
                            ELSE <<>>
         /\ Section(q, 7) = IF q.language = Absent THEN <<>> ELSE <<Setting("language", q.language)>>
         /\ Section(q, 8) = IF q.polling = Absent THEN <<>> ELSE <<Setting("polling", q.polling)>>
<1>1. /\ Section(q, 1) = <<Viewport(Pixels(q.width), Pixels(q.height))>>
      /\ Section(q, 2) = Given(q.scale, Setting("scale", q.scale))
      /\ Section(q, 3) = IF q.timeZone \in TimeZones THEN <<Setting("timeZone", q.timeZone)>> ELSE <<>>
      /\ Section(q, 4) = Given(q.landscape, Setting("landscape", q.landscape))
      /\ Section(q, 5) = Given(q.cookie, Setting("cookie", q.cookie))
      /\ Section(q, 6) = PrinterOptions(q)
      /\ Section(q, 7) = Given(q.language, Setting("language", q.language))
      /\ Section(q, 8) = Given(q.polling, Setting("polling", q.polling))
  BY DEF Section
<1> QED
  BY <1>1 DEF Given, PrinterOptions

\* Without its parameter a section is empty.
LEMMA SectionEmpty ==
  ASSUME NEW q
  PROVE  /\ Section(q, 1) # <<>>
         /\ Section(q, 2) = <<>> => q.scale = Absent
         /\ Section(q, 3) = <<>> => q.timeZone \notin TimeZones
         /\ Section(q, 4) = <<>> => q.landscape = Absent
         /\ Section(q, 5) = <<>> => q.cookie = Absent
         /\ Section(q, 6) = <<>> => ~FullHeight(q) /\ (Encoding(q) = "pdf" => q.pdfLandscape = Absent)
         /\ Section(q, 7) = <<>> => q.language = Absent
         /\ Section(q, 8) = <<>> => q.polling = Absent
<1>1. \A x : <<x>> # <<>>
  OBVIOUS
<1>2. Encoding(q) = "pdf" => ~FullHeight(q)
  BY DEF FullHeight
<1> QED
  BY <1>1, <1>2, SectionSays

\* What is asked for after the next section, in its two cases.
SameAfter(q, k, c) ==
  /\ ConfigBy(q, k + 1, c) = ConfigBy(q, k, c)
  /\ \A z : TimeZoneBy(q, k + 1, z) = TimeZoneBy(q, k, z)
  /\ CookiesBy(q, k + 1) = CookiesBy(q, k)
  /\ \A h : HeadersBy(q, k + 1, h) = HeadersBy(q, k, h)

ChangedAfter(q, k, c, o) ==
  /\ ConfigBy(q, k + 1, c) = Effect(o, ConfigBy(q, k, c))
  /\ \A z : TimeZoneBy(q, k + 1, z) = IF o.op = "timeZone" THEN o.value ELSE TimeZoneBy(q, k, z)
  /\ CookiesBy(q, k + 1) = IF o.op = "cookie" THEN {Bracketed(o.value)} ELSE CookiesBy(q, k)
  /\ \A h : HeadersBy(q, k + 1, h) = IF o.op = "language" THEN WithLanguage(HeadersBy(q, k, h), o.value)
                                     ELSE HeadersBy(q, k, h)

\* Passing over an empty section changes no setting.
LEMMA Skipped ==
  ASSUME NEW q \in Queries, ~q.csv, ~Refused(q), NEW c, NEW k \in 1..8, Section(q, k) = <<>>
  PROVE  SameAfter(q, k, c)
<1>1. /\ k # 1
      /\ k = 2 => q.scale = Absent
      /\ k = 3 => q.timeZone \notin TimeZones
      /\ k = 4 => q.landscape = Absent
      /\ k = 5 => q.cookie = Absent
      /\ k = 6 => ~FullHeight(q) /\ (Encoding(q) = "pdf" => q.pdfLandscape = Absent)
      /\ k = 7 => q.language = Absent
      /\ k = 8 => q.polling = Absent
  BY SectionEmpty, Zenon
<1>2. k = 6 => AskedHeight(q) = Pixels(q.height)
  BY <1>1, QueryTyped
<1>3. WidthBy(q, k + 1, c) = WidthBy(q, k, c)
  BY <1>1 DEF WidthBy
<1>4. HeightBy(q, k + 1, c) = HeightBy(q, k, c)
  BY <1>1, <1>2 DEF HeightBy
<1>5. ScaleBy(q, k + 1, c) = ScaleBy(q, k, c)
  BY <1>1 DEF ScaleBy
<1>6. LandscapeBy(q, k + 1, c) = LandscapeBy(q, k, c)
  BY <1>1 DEF LandscapeBy, AskedLandscape
<1>7. PollingBy(q, k + 1, c) = PollingBy(q, k, c)
  BY <1>1 DEF PollingBy
<1>8. ConfigBy(q, k + 1, c) = ConfigBy(q, k, c)
  BY <1>3, <1>4, <1>5, <1>6, <1>7 DEF ConfigBy
<1>9. /\ \A z : TimeZoneBy(q, k + 1, z) = TimeZoneBy(q, k, z)
      /\ CookiesBy(q, k + 1) = CookiesBy(q, k)
      /\ \A h : HeadersBy(q, k + 1, h) = HeadersBy(q, k, h)
  BY <1>1 DEF TimeZoneBy, CookiesBy, HeadersBy
<1> QED
  BY <1>8, <1>9 DEF SameAfter

\* Applying the option of the next section takes every setting one section on.
LEMMA Applied ==
  ASSUME NEW q \in Queries, ~q.csv, ~Refused(q), NEW c, Usable(c), NEW k \in 1..8,
         NEW o, Section(q, k) = <<o>>
  PROVE  ChangedAfter(q, k, c, o)
<1> DEFINE d == ConfigBy(q, k, c)
           w == WidthBy(q, k, c)
           h == HeightBy(q, k, c)
           s == ScaleBy(q, k, c)
           l == LandscapeBy(q, k, c)
           p == PollingBy(q, k, c)
<1>1. d = Changed(c, w, h, s, l, p)
  BY DEF ConfigBy
<1>2. ConfigBy(q, k + 1, c)
        = Changed(c, WidthBy(q, k + 1, c), HeightBy(q, k + 1, c), ScaleBy(q, k + 1, c),
                  LandscapeBy(q, k + 1, c), PollingBy(q, k + 1, c))
  BY DEF ConfigBy
<1>3. /\ c.MinWidth \in Int /\ c.MinHeight \in Int /\ c.MaxWidth \in Int /\ c.MaxHeight \in Int
      /\ c.MaxPageScaleFactor \in Int
      /\ c.MaxWidth > 0 => c.MinWidth <= c.MaxWidth
      /\ c.MaxHeight > 0 => c.MinHeight <= c.MaxHeight
  BY DEF Usable
<1>4. \A x : <<o>> = <<x>> => o = x
  OBVIOUS
<1>5. <<o>> # <<>>
  OBVIOUS
<1>6. /\ Pixels(q.width) \in Int /\ Pixels(q.height) \in Int /\ AskedHeight(q) \in Int
      /\ q.scale \in Int \union {Absent}
      /\ FullHeight(q) => AskedHeight(q) = (3 * Pixels(q.width)) \div 4 /\ Pixels(q.height) = -1
      /\ ~FullHeight(q) => AskedHeight(q) = Pixels(q.height)
  BY QueryTyped
<1>7. /\ Resized(o, d) = Changed(c, IF o.width = -1 THEN w ELSE Clamped(o.width, w, c.MaxWidth),
                                    IF o.height = -1 THEN h ELSE Clamped(o.height, h, c.MaxHeight),
                                    s, l, p)
      /\ Scaled(o, d) = Changed(c, w, h, IF o.value > c.MaxPageScaleFactor
                                         THEN c.MaxPageScaleFactor ELSE o.value, l, p)
      /\ [d EXCEPT !.Landscape = o.value] = Changed(c, w, h, s, o.value, p)
      /\ [d EXCEPT !.ForcePollingMode = o.value] = Changed(c, w, h, s, l, o.value)
  <2> HIDE DEF w, h, s, l, p, d
  <2>1. ActsOn(o, c, w, h, s, l, p)
    BY EffectOnChanged
  <2> QED
    BY <1>1, <2>1 DEF ActsOn
<1> HIDE DEF d
<1>8. CASE k = 1
  <2>1. o = Viewport(Pixels(q.width), Pixels(q.height))
    BY <1>4, <1>8, SectionSays
  <2>2. o.op = "viewport" /\ o.width = Pixels(q.width) /\ o.height = Pixels(q.height)
    BY <2>1 DEF Viewport
  <2>3. /\ w = c.MinWidth /\ h = c.MinHeight
        /\ WidthBy(q, k + 1, c) = Bounded(Pixels(q.width), c.MinWidth, c.MaxWidth)
        /\ HeightBy(q, k + 1, c) = Bounded(Pixels(q.height), c.MinHeight, c.MaxHeight)
    BY <1>8 DEF WidthBy, HeightBy
  <2>4. /\ ScaleBy(q, k + 1, c) = s /\ LandscapeBy(q, k + 1, c) = l /\ PollingBy(q, k + 1, c) = p
    BY <1>8 DEF ScaleBy, LandscapeBy, PollingBy
  <2>5. /\ (IF o.width = -1 THEN w ELSE Clamped(o.width, w, c.MaxWidth)) = WidthBy(q, k + 1, c)
        /\ (IF o.height = -1 THEN h ELSE Clamped(o.height, h, c.MaxHeight)) = HeightBy(q, k + 1, c)
    <3>1. /\ ClampsTo(Pixels(q.width), c.MinWidth, c.MaxWidth, WidthBy(q, k + 1, c))
          /\ ClampsTo(Pixels(q.height), c.MinHeight, c.MaxHeight, HeightBy(q, k + 1, c))
      BY <1>3, <1>6, <2>3, ClampedIsBounded
    <3> HIDE DEF w, h
    <3> QED
      BY <2>2, <2>3, <3>1 DEF ClampsTo
  <2>6. ConfigBy(q, k + 1, c) = Effect(o, d)
    <3> HIDE DEF w, h, s, l, p
    <3> QED
      BY <1>2, <1>7, <2>2, <2>4, <2>5 DEF Effect
  <2> QED
    BY <1>8, <2>2, <2>6 DEF ChangedAfter, TimeZoneBy, CookiesBy, HeadersBy, d
<1>9. CASE k = 2
  <2>1. q.scale # Absent /\ o = Setting("scale", q.scale)
    BY <1>4, <1>5, <1>9, SectionSays
  <2>2. o.op = "scale" /\ o.value = q.scale
    BY <2>1 DEF Setting
  <2>3. (IF o.value > c.MaxPageScaleFactor THEN c.MaxPageScaleFactor ELSE o.value)
          = ScaleBy(q, k + 1, c)
    BY <1>3, <1>6, <1>9, <2>1, <2>2 DEF ScaleBy, Smaller
  <2>4. /\ WidthBy(q, k + 1, c) = w /\ HeightBy(q, k + 1, c) = h
        /\ LandscapeBy(q, k + 1, c) = l /\ PollingBy(q, k + 1, c) = p
    BY <1>9 DEF WidthBy, HeightBy, LandscapeBy, PollingBy
  <2>5. ConfigBy(q, k + 1, c) = Effect(o, d)
    <3> HIDE DEF w, h, s, l, p
    <3> QED
      BY <1>2, <1>7, <2>2, <2>3, <2>4 DEF Effect
  <2> QED
    BY <1>9, <2>2, <2>5 DEF ChangedAfter, TimeZoneBy, CookiesBy, HeadersBy, d
<1>10. CASE k \in {3, 5, 7}
  <2>1. /\ k = 3 => q.timeZone \in TimeZones /\ o = Setting("timeZone", q.timeZone)
        /\ k = 5 => q.cookie # Absent /\ o = Setting("cookie", q.cookie)
        /\ k = 7 => q.language # Absent /\ o = Setting("language", q.language)
    BY <1>4, <1>5, <1>10, SectionSays
  <2>2. /\ k = 3 => q.timeZone \in TimeZones /\ o.op = "timeZone" /\ o.value = q.timeZone
        /\ k = 5 => q.cookie # Absent /\ o.op = "cookie" /\ o.value = q.cookie
        /\ k = 7 => q.language # Absent /\ o.op = "language" /\ o.value = q.language
    BY <2>1 DEF Setting
  <2>3. ConfigBy(q, k + 1, c) = d
    BY <1>1, <1>2, <1>10 DEF WidthBy, HeightBy, ScaleBy, LandscapeBy, PollingBy
  <2>4. Effect(o, d) = d
    BY <1>10, <2>2 DEF Effect
  <2> QED
    BY <1>10, <2>2, <2>3, <2>4 DEF ChangedAfter, TimeZoneBy, CookiesBy, HeadersBy, d
<1>11. CASE k = 4
  <2>1. q.landscape # Absent /\ o = Setting("landscape", q.landscape)
    BY <1>4, <1>5, <1>11, SectionSays
  <2>2. o.op = "landscape" /\ o.value = q.landscape
    BY <2>1 DEF Setting
  <2>3. /\ LandscapeBy(q, k + 1, c) = o.value
        /\ WidthBy(q, k + 1, c) = w /\ HeightBy(q, k + 1, c) = h
        /\ ScaleBy(q, k + 1, c) = s /\ PollingBy(q, k + 1, c) = p
    BY <1>11, <2>1, <2>2 DEF WidthBy, HeightBy, ScaleBy, LandscapeBy, PollingBy
  <2>4. ConfigBy(q, k + 1, c) = Effect(o, d)
    <3> HIDE DEF w, h, s, l, p
    <3> QED
      BY <1>2, <1>7, <2>2, <2>3 DEF Effect
  <2> QED
    BY <1>11, <2>2, <2>4 DEF ChangedAfter, TimeZoneBy, CookiesBy, HeadersBy, d
<1>12. CASE k = 6 /\ Encoding(q) = "pdf"
  <2>1. q.pdfLandscape # Absent /\ o = Setting("landscape", q.pdfLandscape)
    BY <1>4, <1>5, <1>12, SectionSays
  <2>2. o.op = "landscape" /\ o.value = q.pdfLandscape
    BY <2>1 DEF Setting
  <2>3. AskedHeight(q) = Pixels(q.height)
    BY <1>6, <1>12 DEF FullHeight
  <2>4. /\ LandscapeBy(q, k + 1, c) = o.value
        /\ WidthBy(q, k + 1, c) = w /\ HeightBy(q, k + 1, c) = h
        /\ ScaleBy(q, k + 1, c) = s /\ PollingBy(q, k + 1, c) = p
    BY <1>12, <2>1, <2>2, <2>3 DEF WidthBy, HeightBy, ScaleBy, LandscapeBy, AskedLandscape, PollingBy
  <2>5. ConfigBy(q, k + 1, c) = Effect(o, d)
    <3> HIDE DEF w, h, s, l, p
    <3> QED
      BY <1>2, <1>7, <2>2, <2>4 DEF Effect
  <2> QED
    BY <1>12, <2>2, <2>5 DEF ChangedAfter, TimeZoneBy, CookiesBy, HeadersBy, d
<1>13. CASE k = 6 /\ Encoding(q) # "pdf"
  <2>1. FullHeight(q) /\ o = Viewport(Pixels(q.width), (3 * Pixels(q.width)) \div 4)
    BY <1>4, <1>5, <1>13, SectionSays
  <2>2. o.op = "viewport" /\ o.width = Pixels(q.width) /\ o.height = AskedHeight(q)
    BY <1>6, <2>1 DEF Viewport
  <2>3. /\ w = Bounded(Pixels(q.width), c.MinWidth, c.MaxWidth)
        /\ h = Bounded(-1, c.MinHeight, c.MaxHeight)
        /\ WidthBy(q, k + 1, c) = w
        /\ HeightBy(q, k + 1, c) = Bounded(AskedHeight(q), c.MinHeight, c.MaxHeight)
    BY <1>6, <1>13, <2>1 DEF WidthBy, HeightBy
  <2>4. /\ ScaleBy(q, k + 1, c) = s /\ LandscapeBy(q, k + 1, c) = l /\ PollingBy(q, k + 1, c) = p
    BY <1>13 DEF ScaleBy, LandscapeBy, AskedLandscape, PollingBy
  <2>5. (IF o.width = -1 THEN w ELSE Clamped(o.width, w, c.MaxWidth)) = WidthBy(q, k + 1, c)
    <3>1. ClampsTo(Pixels(q.width), c.MinWidth, c.MaxWidth, Bounded(Pixels(q.width), c.MinWidth, c.MaxWidth))
      BY <1>3, <1>6, ClampedIsBounded
    <3> HIDE DEF w
    <3> QED
      BY <2>2, <2>3, <3>1 DEF ClampsTo
  <2>6. (IF o.height = -1 THEN h ELSE Clamped(o.height, h, c.MaxHeight)) = HeightBy(q, k + 1, c)
    <3>1. ClampsTo(AskedHeight(q), c.MinHeight, c.MaxHeight,
                   Bounded(AskedHeight(q), c.MinHeight, c.MaxHeight))
      BY <1>3, <1>6, ClampedIsBounded
    <3>2. ClampsTo(Pixels(q.height), c.MinHeight, c.MaxHeight,
                   Bounded(Pixels(q.height), c.MinHeight, c.MaxHeight))
      BY <1>3, <1>6, ClampedIsBounded
    <3> HIDE DEF h
    <3> QED
      BY <2>2, <2>3, <3>1, <3>2 DEF ClampsTo
  <2>7. ConfigBy(q, k + 1, c) = Effect(o, d)
    <3> HIDE DEF w, h, s, l, p
    <3> QED
      BY <1>2, <1>7, <2>2, <2>4, <2>5, <2>6 DEF Effect
  <2> QED
    BY <1>13, <2>2, <2>7 DEF ChangedAfter, TimeZoneBy, CookiesBy, HeadersBy, d
<1>14. CASE k = 8
  <2>1. q.polling # Absent /\ o = Setting("polling", q.polling)
    BY <1>4, <1>5, <1>14, SectionSays
  <2>2. o.op = "polling" /\ o.value = q.polling
    BY <2>1 DEF Setting
  <2>3. /\ PollingBy(q, k + 1, c) = o.value
        /\ WidthBy(q, k + 1, c) = w /\ HeightBy(q, k + 1, c) = h
        /\ ScaleBy(q, k + 1, c) = s /\ LandscapeBy(q, k + 1, c) = l
    BY <1>14, <2>1, <2>2 DEF WidthBy, HeightBy, ScaleBy, LandscapeBy, PollingBy
  <2>4. ConfigBy(q, k + 1, c) = Effect(o, d)
    <3> HIDE DEF w, h, s, l, p
    <3> QED
      BY <1>2, <1>7, <2>2, <2>3 DEF Effect
  <2> QED
    BY <1>14, <2>2, <2>4 DEF ChangedAfter, TimeZoneBy, CookiesBy, HeadersBy, d
<1> QED
  BY <1>8, <1>9, <1>10, <1>11, <1>12, <1>13, <1>14

-----------------------------------------------------------------------------
(* The invariant.                                                          *)

\* The sections before the k-th are applied, the others are left.
At(r, k) ==
  LET q == query[r]
  IN  /\ todo[r] = Rest(q, k)
      /\ cfg[r].default = ConfigBy(q, k, serviceCfg.default)
      /\ \A i \in DOMAIN overrideArrays[Service] :
           overrideArrays[r][i].config = ConfigBy(q, k, overrideArrays[Service][i].config)
      /\ cfg[r].timeZone = TimeZoneBy(q, k, serviceCfg.timeZone)
      /\ cfg[r].cookies = CookiesBy(q, k)
      /\ headerMaps[r] = HeadersBy(q, k, headerMaps[Service])
      /\ cfg[r].headers = Nil => headerMaps[r] = Nil

\* What the browser of a request starts with, and what its capture uses.
AsLaunched(r) ==
  /\ launched[r].config = AskedConfig(query[r])
  /\ ~query[r].csv => Sent(launched[r].headers) = AskedHeaders(query[r])
  /\ query[r].csv => Language(query[r]) \subseteq Sent(launched[r].headers)
  /\ launched[r].timeZone = AskedTimeZone(query[r])
  /\ launched[r].cookies = AskedCookies(query[r])
  /\ query[r].timeout # Absent => launched[r].deadline = query[r].timeout * NanosPerSecond

\* What holds of a request at each of its places in the code.
AskedOK(r) ==
  /\ pc[r] \notin {"idle", "refused"} => ~Refused(query[r])
  /\ pc[r] = "parsed" /\ ~query[r].csv => todo[r] = Options(query[r])
  /\ pc[r] = "applying" /\ ~query[r].csv => \E k \in 1..9 : At(r, k)
  /\ pc[r] \in {"launched", "captured"} => /\ cfg[r].overrides \in {r, Service}
                                           /\ ConfigNow(r) = AskedConfig(query[r])
  /\ launched[r] # Nil => AsLaunched(r)
  /\ captured[r] # Nil => /\ pc[r] = "captured"
                          /\ captured[r].config = AskedConfig(query[r])
                          /\ captured[r].printer = AskedPrinter(query[r])

AskedInv == RenderInv /\ \A r \in Requests : AskedOK(r)

\* What a query asks for does not change while the service's configuration and
\* the query do not.
Steady(s, q) ==
  /\ Refused(query[s])' <=> Refused(q)
  /\ Options(query[s])' = Options(q)
  /\ \A k \in 1..9 : Rest(query[s], k)' = Rest(q, k)
  /\ \A k, c : ConfigBy(query[s], k, c)' = ConfigBy(q, k, c)
  /\ AskedConfig(query[s])' = AskedConfig(q)
  /\ AskedHeaders(query[s])' = AskedHeaders(q)
  /\ AskedTimeZone(query[s])' = AskedTimeZone(q)
  /\ AskedPrinter(query[s])' = AskedPrinter(q)

LEMMA AskedSteady ==
  ASSUME NEW s, NEW q, UNCHANGED <<command, serviceCfg>>,
         headerMaps'[Service] = headerMaps[Service],
         overrideArrays'[Service] = overrideArrays[Service],
         query'[s] = q
  PROVE  Steady(s, q)
<1>1. Encoding(query[s])' = Encoding(q)
  BY DEF Encoding
<1>2. (FullHeight(query[s])' <=> FullHeight(q))
  BY <1>1 DEF FullHeight
<1>3. AskedHeight(query[s])' = AskedHeight(q)
  BY <1>2 DEF AskedHeight
<1>4. \A l : AskedLandscape(query[s], l)' = AskedLandscape(q, l)
  BY <1>1 DEF AskedLandscape
<1>5. PrinterOptions(query[s])' = PrinterOptions(q)
  BY <1>1, <1>2 DEF PrinterOptions
<1>6. Refused(query[s])' <=> Refused(q)
  BY <1>1 DEF Refused, RefusedRender, RefusedCSV
<1>7. Options(query[s])' = Options(q)
  BY <1>5 DEF Options
<1>8. Limits(query[s])' = Limits(q)
  BY DEF Limits, SharedConfigs
<1>9. AskedConfig(query[s])' = AskedConfig(q)
  BY <1>3, <1>4, <1>8 DEF AskedConfig
<1>10. AskedHeaders(query[s])' = AskedHeaders(q)
  BY DEF AskedHeaders, Configured
<1>11. AskedTimeZone(query[s])' = AskedTimeZone(q)
  BY DEF AskedTimeZone
<1>12. \A k, c : ConfigBy(query[s], k, c)' = ConfigBy(q, k, c)
  <2>1. \A k, c : HeightBy(query[s], k, c)' = HeightBy(q, k, c)
    BY <1>3 DEF HeightBy
  <2>2. \A k, c : LandscapeBy(query[s], k, c)' = LandscapeBy(q, k, c)
    BY <1>4 DEF LandscapeBy
  <2> QED
    BY <2>1, <2>2 DEF ConfigBy
<1>13. \A k \in 1..9 : Rest(query[s], k)' = Rest(q, k)
  <2>1. \A k \in 1..8 : Section(query[s], k)' = Section(q, k)
    BY <1>5 DEF Section
  <2> QED
    BY <2>1 DEF Rest, Rest1, Rest2, Rest3, Rest4, Rest5, Rest6, Rest7, Rest8
<1>14. AskedPrinter(query[s])' = AskedPrinter(q)
  BY <1>1 DEF AskedPrinter
<1> QED
  BY <1>6, <1>7, <1>9, <1>10, <1>11, <1>12, <1>13, <1>14 DEF Steady

\* A step of one request keeps what the others are asked for.
LEMMA AskedFrame ==
  ASSUME RenderInv, NEW r \in Requests, Frame(r), NEW s \in Requests \ {r}, AskedOK(s)
  PROVE  AskedOK(s)'
<1>1. PICK q : q = query[s]
  OBVIOUS
<1>2. /\ stage' = stage /\ serviceCfg' = serviceCfg /\ command' = command
      /\ headerMaps'[Service] = headerMaps[Service]
      /\ overrideArrays'[Service] = overrideArrays[Service]
      /\ pc'[s] = pc[s] /\ query'[s] = query[s] /\ todo'[s] = todo[s]
      /\ cfg'[s] = cfg[s] /\ launched'[s] = launched[s] /\ captured'[s] = captured[s]
      /\ headerMaps'[s] = headerMaps[s] /\ overrideArrays'[s] = overrideArrays[s]
  BY DEF Frame, serviceVars
<1>3. Steady(s, q)
  BY <1>1, <1>2, AskedSteady
<1>4. ASSUME NEW k \in 1..9, At(s, k) PROVE At(s, k)'
  BY <1>1, <1>2, <1>3, <1>4 DEF At, Steady
<1>5. AsLaunched(s) => AsLaunched(s)'
  BY <1>1, <1>2, <1>3 DEF AsLaunched, Steady
<1>6. cfg[s].overrides \in {s, Service} => ConfigNow(s)' = ConfigNow(s)
  BY <1>2 DEF ConfigNow
<1>7. pc[s] \notin {"idle", "refused"} => ~Refused(query[s])'
  BY <1>1, <1>3 DEF AskedOK, Steady
<1>8. pc[s] = "parsed" /\ ~query[s].csv => todo[s] = Options(query[s])'
  BY <1>1, <1>3 DEF AskedOK, Steady
<1>9. AskedConfig(query[s])' = AskedConfig(query[s])
  BY <1>1, <1>3 DEF Steady
<1>10. AskedPrinter(query[s])' = AskedPrinter(query[s])
  BY <1>1, <1>3 DEF Steady
<1> QED
  BY <1>2, <1>4, <1>5, <1>6, <1>7, <1>8, <1>9, <1>10 DEF AskedOK

\* Sections that are empty are passed over.
Settled(r) == \E k \in 1..9 : At(r, k) /\ (k = 9 \/ Section(query[r], k) # <<>>)

LEMMA PassedOver ==
  ASSUME NEW r, query[r] \in Queries, ~query[r].csv, ~Refused(query[r]),
         NEW k \in 1..8, At(r, k), Section(query[r], k) = <<>>
  PROVE  At(r, k + 1)
<1> DEFINE q == query[r]
<1>1. Rest(q, k + 1) = Rest(q, k)
  <2>1. Rest(q, k) = <<>> \o Rest(q, k + 1)
    BY RestSteps
  <2>2. k + 1 \in 1..9
    OBVIOUS
  <2>3. Rest(q, k + 1) \in Seq(Parts(q))
    BY <2>2, RestListed
  <2> QED
    BY <2>1, <2>3, ConcatEmptySeq
<1>2. \A c : SameAfter(q, k, c)
  BY Skipped
<1> HIDE DEF q
<1>3. /\ todo[r] = Rest(q, k + 1)
      /\ cfg[r].default = ConfigBy(q, k + 1, serviceCfg.default)
      /\ \A i \in DOMAIN overrideArrays[Service] :
           overrideArrays[r][i].config = ConfigBy(q, k + 1, overrideArrays[Service][i].config)
      /\ cfg[r].timeZone = TimeZoneBy(q, k + 1, serviceCfg.timeZone)
      /\ cfg[r].cookies = CookiesBy(q, k + 1)
      /\ headerMaps[r] = HeadersBy(q, k + 1, headerMaps[Service])
      /\ cfg[r].headers = Nil => headerMaps[r] = Nil
  BY <1>1, <1>2 DEF At, SameAfter, q
<1> QED
  BY <1>3 DEF At, q

LEMMA Settles ==
  ASSUME NEW r, query[r] \in Queries, ~query[r].csv, ~Refused(query[r]),
         \E k \in 1..9 : At(r, k)
  PROVE  Settled(r)
<1>1. ASSUME NEW k \in 1..8, At(r, k), At(r, k + 1) => Settled(r)
      PROVE  Settled(r)
  BY <1>1, PassedOver DEF Settled
<1>2. At(r, 9) => Settled(r)
  BY DEF Settled
<1>3. At(r, 8) => Settled(r)
  BY <1>1, <1>2
<1>4. At(r, 7) => Settled(r)
  BY <1>1, <1>3
<1>5. At(r, 6) => Settled(r)
  BY <1>1, <1>4
<1>6. At(r, 5) => Settled(r)
  BY <1>1, <1>5
<1>7. At(r, 4) => Settled(r)
  BY <1>1, <1>6
<1>8. At(r, 3) => Settled(r)
  BY <1>1, <1>7
<1>9. At(r, 2) => Settled(r)
  BY <1>1, <1>8
<1>10. At(r, 1) => Settled(r)
  BY <1>1, <1>9
<1>11. \A k \in 1..9 : k = 1 \/ k = 2 \/ k = 3 \/ k = 4 \/ k = 5 \/ k = 6 \/ k = 7 \/ k = 8 \/ k = 9
  OBVIOUS
<1> QED
  BY <1>2, <1>3, <1>4, <1>5, <1>6, <1>7, <1>8, <1>9, <1>10, <1>11, Zenon

\* Nothing is asked for while the service starts.
LEMMA StartAsked ==
  ASSUME AskedInv, Start
  PROVE  \A r \in Requests : AskedOK(r)'
<1>1. ASSUME NEW r \in Requests
      PROVE  pc'[r] = "idle" /\ launched'[r] = Nil /\ captured'[r] = Nil
  <2>1. pc[r] = "idle"
    BY DEF Start, AskedInv, RenderInv, RequestOK, Shape
  <2>2. launched[r] = Nil /\ captured[r] = Nil
    BY <2>1 DEF AskedInv, RenderInv, RequestOK, AskedOK
  <2> QED
    BY <2>1, <2>2 DEF Start
<1> QED
  BY <1>1 DEF AskedOK

-----------------------------------------------------------------------------
(* The steps of a request.                                                 *)

\* An arriving request has nothing launched and nothing captured.
LEMMA ArriveAsked ==
  ASSUME AskedInv, NEW r \in Requests, NEW q \in Queries, Arrive(r, q), Frame(r)
  PROVE  AskedOK(r)'
<1>1. /\ pc[r] = "idle" /\ query'[r] = q
      /\ todo'[r] = IF q.csv \/ Refused(q) THEN <<>> ELSE Options(q)
      /\ pc'[r] = IF Refused(q) THEN "refused" ELSE "parsed"
      /\ launched' = launched /\ captured' = captured
  BY DEF Arrive, Becomes, AskedInv, RenderInv, Shape
<1>2. launched[r] = Nil /\ captured[r] = Nil
  BY <1>1 DEF AskedInv, RenderInv, RequestOK, AskedOK
<1>3. Steady(r, q)
  BY <1>1, AskedSteady DEF Frame, serviceVars
<1> QED
  BY <1>1, <1>2, <1>3 DEF AskedOK, Steady

\* The first section, before any option is applied.
LEMMA NothingApplied ==
  ASSUME NEW q, NEW c, Usable(c)
  PROVE  ConfigBy(q, 1, c) = c
<1>1. /\ WidthBy(q, 1, c) = c.MinWidth /\ HeightBy(q, 1, c) = c.MinHeight
      /\ ScaleBy(q, 1, c) = c.PageScaleFactor /\ LandscapeBy(q, 1, c) = c.Landscape
      /\ PollingBy(q, 1, c) = c.ForcePollingMode
  BY DEF WidthBy, HeightBy, ScaleBy, LandscapeBy, PollingBy
<1>2. c = [f \in Fields |-> c[f]]
  BY DEF Usable
<1> QED
  BY <1>1, <1>2, ChangedToItself DEF ConfigBy

\* A request's copy of the service's configuration, before its options.
LEMMA TakeConfigAsked ==
  ASSUME AskedInv, NEW r \in Requests, TakeConfig(r), Frame(r)
  PROVE  AskedOK(r)'
<1>1. PICK q : q = query[r]
  OBVIOUS
<1>2. /\ pc[r] = "parsed" /\ pc'[r] = "applying" /\ query'[r] = q /\ todo'[r] = todo[r]
      /\ launched' = launched /\ captured' = captured
      /\ stage = "serving" /\ ~Refused(q) /\ (~q.csv => todo[r] = Options(q))
  BY <1>1 DEF TakeConfig, Becomes, AskedInv, RenderInv, Shape, RequestOK, AskedOK
<1>3. launched[r] = Nil /\ captured[r] = Nil
  BY <1>2 DEF AskedInv, RenderInv, RequestOK, AskedOK
<1>4. Steady(r, q)
  BY <1>2, AskedSteady DEF Frame, serviceVars
<1>5. ASSUME ~q.csv PROVE At(r, 1)'
  <2>1. /\ r # Service /\ r # Nil /\ Service # Nil /\ r \in Addresses /\ Service \in Addresses
    BY RequestAssumption DEF Addresses
  <2>2. /\ DOMAIN serviceCfg = CfgFields /\ serviceCfg.cookies = Nil
        /\ serviceCfg.headers = IF headerMaps[Service] = Nil THEN Nil ELSE Service
        /\ Usable(serviceCfg.default)
        /\ \A i \in DOMAIN overrideArrays[Service] : Usable(overrideArrays[Service][i].config)
    BY <1>2 DEF AskedInv, RenderInv, ServiceOK
  <2>3. /\ cfg'[r] = [serviceCfg EXCEPT !.headers = IF @ = Nil THEN Nil ELSE r, !.overrides = r]
        /\ headerMaps'[r] = headerMaps[Service] /\ overrideArrays'[r] = overrideArrays[Service]
    BY <1>1, <1>5, <2>1 DEF TakeConfig, DeepClone, AskedInv, RenderInv, Shape
  <2>4. /\ cfg'[r].default = serviceCfg.default /\ cfg'[r].timeZone = serviceCfg.timeZone
        /\ cfg'[r].cookies = Nil
        /\ cfg'[r].headers = IF serviceCfg.headers = Nil THEN Nil ELSE r
    BY <2>2, <2>3 DEF CfgFields
  <2>5. /\ serviceCfg' = serviceCfg /\ headerMaps'[Service] = headerMaps[Service]
        /\ overrideArrays'[Service] = overrideArrays[Service]
    BY DEF Frame, serviceVars
  <2>6. todo'[r] = Rest(q, 1)
    BY <1>2, <1>5, RestIsAll
  <2>7. /\ ConfigBy(q, 1, serviceCfg.default) = serviceCfg.default
        /\ \A i \in DOMAIN overrideArrays[Service] :
             ConfigBy(q, 1, overrideArrays[Service][i].config) = overrideArrays[Service][i].config
    BY <2>2, NothingApplied
  <2>8. /\ TimeZoneBy(q, 1, serviceCfg.timeZone) = serviceCfg.timeZone /\ CookiesBy(q, 1) = Nil
        /\ HeadersBy(q, 1, headerMaps[Service]) = headerMaps[Service]
    BY DEF TimeZoneBy, CookiesBy, HeadersBy
  <2>9. cfg'[r].headers = Nil => headerMaps'[r] = Nil
    BY <2>1, <2>2, <2>3, <2>4
  <2> QED
    BY <1>2, <1>4, <2>3, <2>4, <2>5, <2>6, <2>7, <2>8, <2>9 DEF At, Steady
<1> QED
  BY <1>2, <1>3, <1>4, <1>5 DEF AskedOK, Steady

\* What applying an option does to the configuration and the headers of a
\* request.
Did(r, o) ==
  /\ cfg'[r].default = Effect(o, cfg[r].default)
  /\ \A i \in DOMAIN overrideArrays[r] :
       overrideArrays'[r][i].config = Effect(o, overrideArrays[r][i].config)
  /\ cfg'[r].timeZone = IF o.op = "timeZone" THEN o.value ELSE cfg[r].timeZone
  /\ cfg'[r].cookies = IF o.op = "cookie" THEN {Bracketed(o.value)} ELSE cfg[r].cookies
  /\ headerMaps'[r] = IF o.op = "language" THEN WithLanguage(headerMaps[r], o.value) ELSE headerMaps[r]
  /\ cfg'[r].headers = IF o.op = "language" THEN r ELSE cfg[r].headers

\* The options that change every configuration alike.
LEMMA AppliedToAll ==
  ASSUME RenderInv, NEW r \in Requests, Own(r), NEW o,
         o.op \notin {"timeZone", "cookie", "language"},
         cfg' = [cfg EXCEPT ![r].default = Effect(o, cfg[r].default)],
         overrideArrays' = [overrideArrays EXCEPT ![r] =
           [i \in DOMAIN overrideArrays[r] |-> [pattern |-> overrideArrays[r][i].pattern,
                                                config |-> Effect(o, overrideArrays[r][i].config)]]],
         UNCHANGED headerMaps
  PROVE  Did(r, o)
<1>1. r \in DOMAIN cfg /\ r \in DOMAIN overrideArrays
  BY DEF RenderInv, Shape, Addresses
<1>2. /\ "default" \in DOMAIN cfg[r] /\ "timeZone" \in DOMAIN cfg[r]
      /\ "cookies" \in DOMAIN cfg[r] /\ "headers" \in DOMAIN cfg[r]
  BY DEF Own, CfgFields
<1> DEFINE c == Effect(o, cfg[r].default)
           config(i) == Effect(o, overrideArrays[r][i].config)
<1>3. cfg'[r] = [cfg[r] EXCEPT !.default = c]
  BY <1>1
<1>4. \A i \in DOMAIN overrideArrays[r] : overrideArrays'[r][i].config = config(i)
  <2> HIDE DEF config
  <2>1. overrideArrays'[r] = [i \in DOMAIN overrideArrays[r] |->
                                [pattern |-> overrideArrays[r][i].pattern, config |-> config(i)]]
    BY <1>1 DEF config
  <2> QED
    BY <2>1
<1> HIDE DEF c
<1>5. /\ cfg'[r].default = c /\ cfg'[r].timeZone = cfg[r].timeZone
      /\ cfg'[r].cookies = cfg[r].cookies /\ cfg'[r].headers = cfg[r].headers
  BY <1>2, <1>3
<1> QED
  BY <1>4, <1>5 DEF Did, c

\* An option that is applied has its effect on every configuration.
LEMMA OptionDid ==
  ASSUME RenderInv, NEW r \in Requests, ApplyOption(r)
  PROVE  Did(r, Head(todo[r]))
<1> DEFINE o == Head(todo[r])
<1>1. /\ Own(r) /\ r # Service /\ r \in Addresses
      /\ cfg[r].overrides = r /\ cfg[r].headers \in {Nil, r}
      /\ r \in DOMAIN cfg /\ r \in DOMAIN headerMaps
  BY RequestAssumption DEF Addresses, ApplyOption, RenderInv, RequestOK, Own, Shape
<1>2. \/ WithViewport(r, o) \/ WithPageScaleFactor(r, o) \/ WithLandscape(r, o)
      \/ WithForcePolling(r, o) \/ WithTimeZone(r, o) \/ WithCookie(r, o) \/ WithHeader(r, o)
  BY DEF ApplyOption
<1>3. /\ "default" \in DOMAIN cfg[r] /\ "timeZone" \in DOMAIN cfg[r]
      /\ "cookies" \in DOMAIN cfg[r] /\ "headers" \in DOMAIN cfg[r]
  BY <1>1 DEF Own, CfgFields
<1> HIDE DEF o
<1>4. CASE WithViewport(r, o)
  <2>1. o.op = "viewport" /\ \A c : Effect(o, c) = Resized(o, c)
    BY <1>4 DEF WithViewport, Effect
  <2>2. /\ cfg' = [cfg EXCEPT ![r].default = Effect(o, cfg[r].default)]
        /\ overrideArrays' = [overrideArrays EXCEPT ![r] =
             [i \in DOMAIN overrideArrays[r] |-> [pattern |-> overrideArrays[r][i].pattern,
                                                  config |-> Effect(o, overrideArrays[r][i].config)]]]
        /\ UNCHANGED headerMaps
    BY <1>1, <1>4, <2>1 DEF WithViewport, Apply
  <2> QED
    BY <1>1, <2>1, <2>2, AppliedToAll DEF o
<1>5. CASE WithPageScaleFactor(r, o)
  <2>1. o.op = "scale" /\ \A c : Effect(o, c) = Scaled(o, c)
    BY <1>5 DEF WithPageScaleFactor, Effect
  <2>2. /\ cfg' = [cfg EXCEPT ![r].default = Effect(o, cfg[r].default)]
        /\ overrideArrays' = [overrideArrays EXCEPT ![r] =
             [i \in DOMAIN overrideArrays[r] |-> [pattern |-> overrideArrays[r][i].pattern,
                                                  config |-> Effect(o, overrideArrays[r][i].config)]]]
        /\ UNCHANGED headerMaps
    BY <1>1, <1>5, <2>1 DEF WithPageScaleFactor, Apply
  <2> QED
    BY <1>1, <2>1, <2>2, AppliedToAll DEF o
<1>6. CASE WithLandscape(r, o)
  <2>1. o.op = "landscape" /\ \A c : Effect(o, c) = [c EXCEPT !.Landscape = o.value]
    BY <1>6 DEF WithLandscape, Effect
  <2>2. /\ cfg' = [cfg EXCEPT ![r].default = Effect(o, cfg[r].default)]
        /\ overrideArrays' = [overrideArrays EXCEPT ![r] =
             [i \in DOMAIN overrideArrays[r] |-> [pattern |-> overrideArrays[r][i].pattern,
                                                  config |-> Effect(o, overrideArrays[r][i].config)]]]
        /\ UNCHANGED headerMaps
    BY <1>1, <1>6, <2>1 DEF WithLandscape, Apply
  <2> QED
    BY <1>1, <2>1, <2>2, AppliedToAll DEF o
<1>7. CASE WithForcePolling(r, o)
  <2>1. o.op = "polling" /\ \A c : Effect(o, c) = [c EXCEPT !.ForcePollingMode = o.value]
    BY <1>7 DEF WithForcePolling, Effect
  <2>2. /\ cfg' = [cfg EXCEPT ![r].default = Effect(o, cfg[r].default)]
        /\ overrideArrays' = [overrideArrays EXCEPT ![r] =
             [i \in DOMAIN overrideArrays[r] |-> [pattern |-> overrideArrays[r][i].pattern,
                                                  config |-> Effect(o, overrideArrays[r][i].config)]]]
        /\ UNCHANGED headerMaps
    BY <1>1, <1>7, <2>1 DEF WithForcePolling, Apply
  <2> QED
    BY <1>1, <2>1, <2>2, AppliedToAll DEF o
<1>8. CASE WithTimeZone(r, o)
  <2>1. /\ o.op = "timeZone" /\ cfg' = [cfg EXCEPT ![r].timeZone = o.value]
        /\ headerMaps' = headerMaps /\ overrideArrays' = overrideArrays
    BY <1>8 DEF WithTimeZone, heap
  <2>2. cfg'[r] = [cfg[r] EXCEPT !.timeZone = o.value]
    BY <1>1, <2>1
  <2> QED
    BY <1>3, <2>1, <2>2 DEF Did, Effect, o
<1>9. CASE WithCookie(r, o)
  <2>1. /\ o.op = "cookie" /\ cfg' = [cfg EXCEPT ![r].cookies = {Bracketed(o.value)}]
        /\ headerMaps' = headerMaps /\ overrideArrays' = overrideArrays
    BY <1>9 DEF WithCookie, heap
  <2>2. cfg'[r] = [cfg[r] EXCEPT !.cookies = {Bracketed(o.value)}]
    BY <1>1, <2>1
  <2> QED
    BY <1>3, <2>1, <2>2 DEF Did, Effect, o
<1>10. CASE WithHeader(r, o)
  <2>1. (IF cfg[r].headers = Nil THEN r ELSE cfg[r].headers) = r
    BY <1>1
  <2>2. /\ o.op = "language" /\ cfg' = [cfg EXCEPT ![r].headers = r]
        /\ headerMaps' = [headerMaps EXCEPT ![r] = WithLanguage(headerMaps[r], o.value)]
        /\ overrideArrays' = overrideArrays
    BY <1>10, <2>1 DEF WithHeader
  <2>3. cfg'[r] = [cfg[r] EXCEPT !.headers = r]
    BY <1>1, <2>2
  <2> QED
    BY <1>1, <1>3, <2>2, <2>3 DEF Did, Effect, o
<1> QED
  BY <1>2, <1>4, <1>5, <1>6, <1>7, <1>8, <1>9, <1>10 DEF o

\* Applying the next option takes the request on by a section.
LEMMA ApplyOptionAsked ==
  ASSUME AskedInv, NEW r \in Requests, ApplyOption(r), Frame(r)
  PROVE  AskedOK(r)'
<1>1. PICK q : q = query[r]
  OBVIOUS
<1>2. /\ pc[r] = "applying" /\ pc'[r] = "applying" /\ query'[r] = q /\ todo[r] # <<>>
      /\ todo'[r] = Tail(todo[r])
      /\ launched' = launched /\ captured' = captured
      /\ stage = "serving" /\ q \in Queries /\ ~q.csv /\ ~Refused(q)
  BY <1>1 DEF ApplyOption, AskedInv, RenderInv, Shape, RequestOK, AskedOK
<1>3. launched[r] = Nil /\ captured[r] = Nil
  BY <1>2 DEF AskedInv, RenderInv, RequestOK, AskedOK
<1>4. Steady(r, q)
  BY <1>2, AskedSteady DEF Frame, serviceVars
<1>5. Settled(r)
  <2>1. \E k \in 1..9 : At(r, k)
    BY <1>1, <1>2 DEF AskedInv, AskedOK
  <2> QED
    BY <1>1, <1>2, <2>1, Settles
<1>6. PICK k \in 1..9 : At(r, k) /\ (k = 9 \/ Section(q, k) # <<>>)
  BY <1>1, <1>5 DEF Settled
<1>7. k \in 1..8 /\ Section(q, k) # <<>>
  <2>1. k # 9
    BY <1>1, <1>2, <1>6, RestSteps DEF At
  <2> QED
    BY <1>6, <2>1
<1>8. PICK o : Section(q, k) = <<o>>
  BY <1>7, SectionSize
<1>9. Head(todo[r]) = o /\ todo'[r] = Rest(q, k + 1)
  <2>1. todo[r] = <<o>> \o Rest(q, k + 1)
    BY <1>1, <1>6, <1>7, <1>8, RestSteps DEF At
  <2>2. Rest(q, k + 1) \in Seq(Parts(q))
    BY <1>7, RestListed
  <2> QED
    BY <1>2, <2>1, <2>2, BehindIt
<1>10. Did(r, o)
  BY <1>9, OptionDid DEF AskedInv
<1>11. \A c : Usable(c) => ChangedAfter(q, k, c, o)
  BY <1>2, <1>7, <1>8, Applied
<1>12. /\ Usable(serviceCfg.default)
       /\ \A i \in DOMAIN overrideArrays[Service] : Usable(overrideArrays[Service][i].config)
       /\ DOMAIN overrideArrays[r] = DOMAIN overrideArrays[Service]
  BY <1>1, <1>2 DEF AskedInv, RenderInv, ServiceOK, RequestOK, Own, Mirrors
<1>13. /\ cfg'[r].default = ConfigBy(q, k + 1, serviceCfg.default)
       /\ cfg'[r].timeZone = TimeZoneBy(q, k + 1, serviceCfg.timeZone)
       /\ cfg'[r].cookies = CookiesBy(q, k + 1)
       /\ headerMaps'[r] = HeadersBy(q, k + 1, headerMaps[Service])
  BY <1>1, <1>6, <1>10, <1>11, <1>12 DEF At, Did, ChangedAfter
<1>14. \A i \in DOMAIN overrideArrays[Service] :
         overrideArrays'[r][i].config = ConfigBy(q, k + 1, overrideArrays[Service][i].config)
  BY <1>1, <1>6, <1>10, <1>11, <1>12 DEF At, Did, ChangedAfter
<1>15. cfg'[r].headers = Nil => headerMaps'[r] = Nil
  <2>1. r # Nil
    BY RequestAssumption
  <2> QED
    BY <1>6, <1>10, <2>1 DEF At, Did
<1>16. At(r, k + 1)'
  <2>1. k + 1 \in 1..9
    BY <1>7
  <2>2. /\ serviceCfg' = serviceCfg /\ headerMaps'[Service] = headerMaps[Service]
        /\ overrideArrays'[Service] = overrideArrays[Service]
    BY DEF Frame, serviceVars
  <2> QED
    BY <1>2, <1>4, <1>9, <1>13, <1>14, <1>15, <2>1, <2>2 DEF At, Steady
<1>17. \E m \in 1..9 : At(r, m)'
  BY <1>7, <1>16
<1> QED
  BY <1>2, <1>3, <1>4, <1>17 DEF AskedOK, Steady

\* A lookup in configurations that were all changed alike finds the changed one.
LEMMA LookupChanged ==
  ASSUME NEW q, NEW k, NEW default, NEW array, NEW limit, NEW origin, NEW matching,
         default = ConfigBy(q, k, limit), DOMAIN origin \subseteq Nat, DOMAIN array = DOMAIN origin,
         \A i \in DOMAIN origin : /\ array[i].pattern = origin[i].pattern
                                  /\ array[i].config = ConfigBy(q, k, origin[i].config)
  PROVE  LookupRequestConfig([default |-> default, overrides |-> array], matching)
           = ConfigBy(q, k, LookupRequestConfig([default |-> limit, overrides |-> origin], matching))
<1> DEFINE hits == {i \in DOMAIN origin : origin[i].pattern \in matching}
<1>1. {i \in DOMAIN array : array[i].pattern \in matching} = hits
  OBVIOUS
<1>2. /\ LookupRequestConfig([default |-> default, overrides |-> array], matching)
           = IF hits = {} THEN default ELSE array[FirstOf(hits)].config
      /\ LookupRequestConfig([default |-> limit, overrides |-> origin], matching)
           = IF hits = {} THEN limit ELSE origin[FirstOf(hits)].config
  BY <1>1 DEF LookupRequestConfig
<1>3. hits # {} => FirstOf(hits) \in DOMAIN origin
  BY FirstOfIsIn
<1> HIDE DEF hits
<1> QED
  BY <1>2, <1>3

\* When every section is applied, the settings are those that are asked for.
LEMMA AllApplied ==
  ASSUME NEW q, ~q.csv
  PROVE  /\ ConfigBy(q, 9, Limits(q)) = AskedConfig(q)
         /\ TimeZoneBy(q, 9, serviceCfg.timeZone) = AskedTimeZone(q)
         /\ CookiesBy(q, 9) = AskedCookies(q)
<1> DEFINE c == Limits(q)
<1>1. /\ WidthBy(q, 9, c) = Bounded(Pixels(q.width), c.MinWidth, c.MaxWidth)
      /\ HeightBy(q, 9, c) = Bounded(AskedHeight(q), c.MinHeight, c.MaxHeight)
      /\ ScaleBy(q, 9, c) = IF q.scale = Absent THEN c.PageScaleFactor
                            ELSE Smaller(q.scale, c.MaxPageScaleFactor)
      /\ LandscapeBy(q, 9, c) = AskedLandscape(q, c.Landscape)
      /\ PollingBy(q, 9, c) = IF q.polling = Absent THEN c.ForcePollingMode ELSE q.polling
  BY DEF WidthBy, HeightBy, ScaleBy, LandscapeBy, PollingBy
<1>2. ConfigBy(q, 9, c) = AskedConfig(q)
  BY <1>1 DEF ConfigBy, Changed, AskedConfig
<1>3. TimeZoneBy(q, 9, serviceCfg.timeZone) = AskedTimeZone(q)
  BY DEF TimeZoneBy, AskedTimeZone
<1>4. CookiesBy(q, 9) = AskedCookies(q)
  BY DEF CookiesBy, AskedCookies
<1> QED
  BY <1>2, <1>3, <1>4

\* The language replaces what is sent for it, and nothing else.
LEMMA LanguageSent ==
  ASSUME NEW headers, NEW language, WithLanguage(headers, language) # Nil
  PROVE  Sent(WithLanguage(headers, language))
           = {<<"Accept-Language", language>>} \union {p \in Sent(headers) : p[1] # "Accept-Language"}
<1> DEFINE given == IF headers = Nil THEN {} ELSE DOMAIN headers
           new == WithLanguage(headers, language)
<1>1. /\ DOMAIN new = given \union {"Accept-Language"}
      /\ new["Accept-Language"] = language
      /\ \A h \in given \ {"Accept-Language"} : new[h] = headers[h]
  BY DEF WithLanguage
<1>2. Sent(new) = {<<h, new[h]>> : h \in given \union {"Accept-Language"}}
  BY <1>1 DEF Sent
<1>3. Sent(headers) = {<<h, headers[h]>> : h \in given}
  BY DEF Sent
<1> HIDE DEF new, given
<1>4. ASSUME NEW p
      PROVE  p \in Sent(new) <=> \/ p = <<"Accept-Language", language>>
                                 \/ p \in Sent(headers) /\ p[1] # "Accept-Language"
  <2>1. ASSUME p \in Sent(new)
        PROVE  \/ p = <<"Accept-Language", language>>
               \/ p \in Sent(headers) /\ p[1] # "Accept-Language"
    <3>1. PICK h \in given \union {"Accept-Language"} : p = <<h, new[h]>>
      BY <1>2, <2>1
    <3>2. CASE h = "Accept-Language"
      BY <1>1, <3>1, <3>2
    <3>3. CASE h # "Accept-Language"
      BY <1>1, <1>3, <3>1, <3>3
    <3> QED
      BY <3>2, <3>3
  <2>2. p = <<"Accept-Language", language>> => p \in Sent(new)
    BY <1>1, <1>2
  <2>3. ASSUME p \in Sent(headers), p[1] # "Accept-Language"
        PROVE  p \in Sent(new)
    <3>1. PICK h \in given : p = <<h, headers[h]>>
      BY <1>3, <2>3
    <3>2. h # "Accept-Language" /\ p = <<h, new[h]>>
      BY <1>1, <2>3, <3>1
    <3> QED
      BY <1>2, <3>1, <3>2
  <2> QED
    BY <2>1, <2>2, <2>3
<1> QED
  BY <1>4 DEF new

\* The headers of the copy, with the language, are those that are sent.
LEMMA HeadersAsked ==
  ASSUME RenderInv, stage = "serving", NEW q \in Queries
  PROVE  /\ q.csv => Language(q) \subseteq Sent(LanguageOnly(q))
         /\ ~q.csv => Sent(HeadersBy(q, 9, headerMaps[Service])) = AskedHeaders(q)
<1>1. headerMaps[Service] \in {Nil} \union {c.headers : c \in Commands}
  BY DEF RenderInv, Shape, ServiceOK
<1>2. WithLanguage(Nil, q.language) # Nil /\ WithLanguage(headerMaps[Service], q.language) # Nil
  BY <1>1, MapAssumption
<1>3. Sent(Nil) = {} /\ Configured = Sent(headerMaps[Service])
  BY DEF Sent, Configured
<1>4. CASE q.csv
  <2>1. CASE q.language = Absent
    <3>1. Language(q) = {}
      BY <2>1 DEF Language
    <3> QED
      BY <1>4, <3>1
  <2>2. CASE q.language # Absent
    <3>1. Sent(WithLanguage(Nil, q.language)) = {<<"Accept-Language", q.language>>}
      BY <1>2, <1>3, LanguageSent
    <3> QED
      BY <1>4, <2>2, <3>1 DEF LanguageOnly, Language
  <2> QED
    BY <1>4, <2>1, <2>2
<1>5. CASE ~q.csv
  <2>1. CASE q.language = Absent
    <3>1. HeadersBy(q, 9, headerMaps[Service]) = headerMaps[Service]
      BY <2>1 DEF HeadersBy
    <3>2. AskedHeaders(q) = Configured
      BY <1>5, <2>1 DEF AskedHeaders, Language
    <3> QED
      BY <1>3, <1>5, <3>1, <3>2
  <2>2. CASE q.language # Absent
    <3>1. HeadersBy(q, 9, headerMaps[Service]) = WithLanguage(headerMaps[Service], q.language)
      BY <2>2 DEF HeadersBy
    <3>2. AskedHeaders(q) = {<<"Accept-Language", q.language>>}
                              \union {p \in Configured : p[1] # "Accept-Language"}
      BY <1>5, <2>2 DEF AskedHeaders, Language
    <3> QED
      BY <1>2, <1>3, <1>5, <3>1, <3>2, LanguageSent
  <2> QED
    BY <1>5, <2>1, <2>2
<1> QED
  BY <1>4, <1>5

\* A timeout that fits is not wrapped.
LEMMA NotWrapped ==
  ASSUME NEW n \in Int, TimeoutFits(n)
  PROVE  ParseTimeout(n) = n * NanosPerSecond
<1>1. NanosPerSecond \in Nat \ {0} /\ MaxDuration \in Nat
  BY RequestAssumption
<1>2. n \in Nat /\ n <= MaxDuration \div NanosPerSecond
  BY DEF TimeoutFits
<1>3. ASSUME NEW N \in Nat \ {0}, NEW D \in Nat, n <= D \div N
      PROVE  n * N \in Nat /\ n * N <= D
  <2>1. (D \div N) * N <= D /\ D \div N \in Nat
    BY <1>3
  <2>2. \A a \in Nat : n <= a => n * N <= a * N
    BY <1>2
  <2> QED
    BY <1>2, <1>3, <2>1, <2>2
<1>4. n * NanosPerSecond \in Nat /\ n * NanosPerSecond <= MaxDuration
  BY <1>1, <1>2, <1>3
<1>5. ASSUME NEW m \in Nat \ {0}, NEW a \in Nat, a < m PROVE a % m = a
  BY <1>5
<1> DEFINE x == n * NanosPerSecond
<1>6. x + MaxDuration + 1 \in Nat /\ 2 * (MaxDuration + 1) \in Nat \ {0}
      /\ x + MaxDuration + 1 < 2 * (MaxDuration + 1)
  <2> HIDE DEF x
  <2> QED
    BY <1>1, <1>4 DEF x
<1>7. (x + MaxDuration + 1) % (2 * (MaxDuration + 1)) = x + MaxDuration + 1
  BY <1>5, <1>6
<1> HIDE DEF x
<1>8. Wrapped(x) = x
  BY <1>1, <1>4, <1>7 DEF Wrapped, x
<1> QED
  BY <1>8 DEF ParseTimeout, x

\* A browser starts with what is asked for.
LEMMA LaunchAsked ==
  ASSUME AskedInv, NEW r \in Requests, Launch(r), Frame(r)
  PROVE  AskedOK(r)'
<1>1. PICK q : q = query[r]
  OBVIOUS
<1>2. /\ pc[r] = "applying" /\ pc'[r] = "launched" /\ query' = query /\ todo[r] = <<>>
      /\ captured' = captured /\ cfg' = cfg /\ UNCHANGED heap
      /\ stage = "serving" /\ q \in Queries /\ ~Refused(q)
  BY <1>1 DEF Launch, Becomes, AskedInv, RenderInv, Shape, RequestOK, AskedOK
<1>3. captured[r] = Nil
  BY <1>2 DEF AskedInv, AskedOK
<1>4. Steady(r, q)
  BY <1>1, <1>2, AskedSteady DEF Frame, serviceVars
<1>5. launched'[r] = [config |-> ConfigNow(r), timeZone |-> cfg[r].timeZone, deadline |-> Deadline(q),
                      headers |-> IF q.csv THEN LanguageOnly(q) ELSE HeadersNow(r),
                      cookies |-> IF q.csv THEN {q.cookie} ELSE cfg[r].cookies]
  BY <1>1 DEF Launch, AskedInv, RenderInv, Shape
<1>6. /\ serviceCfg.overrides = Service /\ DOMAIN overrideArrays[Service] \subseteq Nat
  BY <1>2 DEF AskedInv, RenderInv, ServiceOK
<1>7. q.timeout # Absent => Deadline(q) = q.timeout * NanosPerSecond
  <2> SUFFICES ASSUME q.timeout # Absent PROVE Deadline(q) = q.timeout * NanosPerSecond
    OBVIOUS
  <2>1. q.timeout # Garbage /\ TimeoutFits(q.timeout)
    BY <1>2 DEF Refused, RefusedRender, RefusedCSV
  <2>2. q.timeout \in Int
    BY <1>2, <2>1, InputAssumption
  <2> QED
    BY <2>1, <2>2, NotWrapped DEF Deadline
<1>8. /\ ConfigNow(r) = AskedConfig(q)
      /\ ~q.csv => Sent(HeadersNow(r)) = AskedHeaders(q)
      /\ q.csv => Language(q) \subseteq Sent(LanguageOnly(q))
      /\ cfg[r].timeZone = AskedTimeZone(q)
      /\ (IF q.csv THEN {q.cookie} ELSE cfg[r].cookies) = AskedCookies(q)
      /\ cfg[r].overrides \in {r, Service}
  <2>1. CASE q.csv
    <3>1. cfg[r] = serviceCfg
      BY <1>1, <1>2, <2>1 DEF AskedInv, RenderInv, RequestOK
    <3>2. ConfigNow(r) = AskedConfig(q)
      BY <1>1, <1>6, <2>1, <3>1 DEF ConfigNow, AskedConfig, Limits, SharedConfigs
    <3>3. Language(q) \subseteq Sent(LanguageOnly(q))
      BY <1>2, <2>1, HeadersAsked DEF AskedInv
    <3> QED
      BY <1>6, <2>1, <3>1, <3>2, <3>3 DEF AskedTimeZone, AskedCookies
  <2>2. CASE ~q.csv
    <3>1. At(r, 9)
      <4>1. \E k \in 1..9 : At(r, k)
        BY <1>1, <1>2, <2>2 DEF AskedInv, AskedOK
      <4>2. PICK k \in 1..9 : At(r, k) /\ (k = 9 \/ Section(q, k) # <<>>)
        BY <1>1, <1>2, <2>2, <4>1, Settles DEF Settled
      <4>3. ASSUME k # 9 PROVE FALSE
        <5>1. k \in 1..8 /\ Section(q, k) # <<>>
          BY <4>2, <4>3
        <5>2. <<>> = Section(q, k) \o Rest(q, k + 1)
          BY <1>1, <1>2, <4>2, <5>1, RestSteps DEF At
        <5>3. Section(q, k) \in Seq(Parts(q)) /\ Rest(q, k + 1) \in Seq(Parts(q))
          BY <5>1, SectionsListed, RestListed
        <5>4. Len(<<>>) = Len(Section(q, k)) + Len(Rest(q, k + 1))
          BY <5>2, <5>3, ConcatProperties
        <5>5. Len(Section(q, k)) > 0 /\ Len(Rest(q, k + 1)) >= 0 /\ Len(<<>>) = 0
          BY <5>1, <5>3, LenProperties, EmptySeq
        <5> QED
          BY <5>3, <5>4, <5>5, LenProperties
      <4> QED
        BY <4>2, <4>3
    <3>2. /\ Own(r) /\ cfg[r].overrides = r /\ cfg[r].headers \in {Nil, r}
          /\ DOMAIN overrideArrays[r] = DOMAIN overrideArrays[Service]
          /\ \A i \in DOMAIN overrideArrays[Service] :
               overrideArrays[r][i].pattern = overrideArrays[Service][i].pattern
      BY <1>1, <1>2, <2>2 DEF AskedInv, RenderInv, RequestOK, Own, Mirrors
    <3>3. /\ cfg[r].default = ConfigBy(q, 9, serviceCfg.default)
          /\ \A i \in DOMAIN overrideArrays[Service] :
               overrideArrays[r][i].config = ConfigBy(q, 9, overrideArrays[Service][i].config)
          /\ cfg[r].timeZone = TimeZoneBy(q, 9, serviceCfg.timeZone)
          /\ cfg[r].cookies = CookiesBy(q, 9)
          /\ headerMaps[r] = HeadersBy(q, 9, headerMaps[Service])
          /\ cfg[r].headers = Nil => headerMaps[r] = Nil
      BY <1>1, <3>1 DEF At
    <3>4. ConfigNow(r) = ConfigBy(q, 9, Limits(q))
      BY <1>1, <1>6, <3>2, <3>3, LookupChanged DEF ConfigNow, Limits, SharedConfigs
    <3>5. HeadersNow(r) = HeadersBy(q, 9, headerMaps[Service])
      BY <3>2, <3>3 DEF HeadersNow
    <3>6. Sent(HeadersNow(r)) = AskedHeaders(q)
      BY <1>2, <2>2, <3>5, HeadersAsked DEF AskedInv
    <3> QED
      BY <2>2, <3>2, <3>3, <3>4, <3>6, AllApplied
  <2> QED
    BY <2>1, <2>2
<1>9. AsLaunched(r)'
  BY <1>1, <1>2, <1>4, <1>5, <1>7, <1>8 DEF AsLaunched, Steady
<1>10. ConfigNow(r)' = ConfigNow(r)
  BY <1>2 DEF ConfigNow, heap
<1> QED
  BY <1>1, <1>2, <1>3, <1>4, <1>8, <1>9, <1>10 DEF AskedOK, Steady

\* The capture uses what was asked for; the other steps end the request.
LEMMA OtherStepsAsked ==
  ASSUME AskedInv, NEW r \in Requests, RefuseOption(r) \/ Capture(r) \/ Respond(r), Frame(r)
  PROVE  AskedOK(r)'
<1>1. PICK q : q = query[r]
  OBVIOUS
<1>2. CASE RefuseOption(r)
  <2>1. pc'[r] = "refused" /\ launched'[r] = Nil /\ captured'[r] = Nil
    BY <1>2 DEF RefuseOption, Becomes, AskedInv, RenderInv, Shape, RequestOK, AskedOK
  <2> QED
    BY <2>1 DEF AskedOK
<1>3. CASE Capture(r)
  <2>1. /\ pc[r] = "launched" /\ pc'[r] = "captured" /\ query' = query /\ cfg' = cfg
        /\ launched' = launched /\ UNCHANGED heap
        /\ captured'[r] = [config |-> ConfigNow(r), printer |-> Printer(query[r])]
    BY <1>3 DEF Capture, Becomes, AskedInv, RenderInv, Shape
  <2>2. Steady(r, q)
    BY <1>1, <2>1, AskedSteady DEF Frame, serviceVars
  <2>3. /\ ~Refused(q) /\ cfg[r].overrides \in {r, Service} /\ ConfigNow(r) = AskedConfig(q)
        /\ launched[r] # Nil => AsLaunched(r)
    BY <1>1, <2>1 DEF AskedInv, AskedOK
  <2>4. AsLaunched(r) => AsLaunched(r)'
    BY <1>1, <2>1, <2>2 DEF AsLaunched, Steady
  <2>5. ConfigNow(r)' = ConfigNow(r)
    BY <2>1 DEF ConfigNow, heap
  <2>6. captured'[r].config = AskedConfig(q) /\ captured'[r].printer = AskedPrinter(q)
    <3>1. FullHeight(q) = (Encoding(q) = "png" /\ q.height \in {Absent, -1})
      BY DEF FullHeight, Pixels
    <3>2. Printer(q) = AskedPrinter(q)
      BY <3>1, Zenon DEF Printer, AskedPrinter
    <3> QED
      BY <1>1, <2>1, <2>3, <3>2
  <2> QED
    BY <1>1, <2>1, <2>2, <2>3, <2>4, <2>5, <2>6 DEF AskedOK, Steady
<1>4. CASE Respond(r)
  <2>1. pc'[r] = "idle" /\ launched'[r] = Nil /\ captured'[r] = Nil
    BY <1>4 DEF Respond, Becomes, AskedInv, RenderInv, Shape
  <2> QED
    BY <2>1 DEF AskedOK
<1> QED
  BY <1>2, <1>3, <1>4

\* Every step keeps the invariant.
LEMMA AskedNextInv == AskedInv /\ [Next]_vars => AskedInv'
<1> SUFFICES ASSUME AskedInv, [Next]_vars PROVE AskedInv'
  OBVIOUS
<1>1. RenderInv'
  BY RenderNextInv DEF AskedInv
<1>2. CASE Start
  BY <1>1, <1>2, StartAsked DEF AskedInv
<1>3. ASSUME NEW r \in Requests,
             \/ \E q \in Queries : Arrive(r, q)
             \/ TakeConfig(r) \/ ApplyOption(r) \/ RefuseOption(r)
             \/ Launch(r) \/ Capture(r) \/ Respond(r)
      PROVE  AskedInv'
  <2>1. Frame(r)
    BY <1>3, RequestStepInv DEF AskedInv
  <2>2. AskedOK(r)'
    BY <1>3, <2>1, ArriveAsked, TakeConfigAsked, ApplyOptionAsked, LaunchAsked, OtherStepsAsked
  <2>3. \A s \in Requests \ {r} : AskedOK(s)'
    BY <2>1, AskedFrame DEF AskedInv
  <2> QED
    BY <1>1, <2>2, <2>3 DEF AskedInv
<1>4. CASE UNCHANGED vars
  <2>1. ASSUME NEW r \in Requests PROVE AskedOK(r)'
    <3>1. PICK q : q = query[r]
      OBVIOUS
    <3>2. /\ stage' = stage /\ serviceCfg' = serviceCfg /\ command' = command
          /\ headerMaps' = headerMaps /\ overrideArrays' = overrideArrays
          /\ pc' = pc /\ query' = query /\ todo' = todo /\ cfg' = cfg
          /\ launched' = launched /\ captured' = captured
      BY <1>4 DEF vars, serviceVars, heap
    <3>3. Steady(r, q)
      BY <3>1, <3>2, AskedSteady
    <3>4. ASSUME NEW k \in 1..9, At(r, k) PROVE At(r, k)'
      BY <3>1, <3>2, <3>3, <3>4 DEF At, Steady
    <3>5. AsLaunched(r) => AsLaunched(r)'
      BY <3>1, <3>2, <3>3 DEF AsLaunched, Steady
    <3>6. ConfigNow(r)' = ConfigNow(r)
      BY <3>2 DEF ConfigNow
    <3> QED
      BY <3>1, <3>2, <3>3, <3>4, <3>5, <3>6 DEF AskedInv, AskedOK, Steady
  <2> QED
    BY <1>1, <2>1 DEF AskedInv
<1> QED
  BY <1>2, <1>3, <1>4 DEF Next

\* What is asked for is what a browser starts with and what the capture and its
\* printer use, whatever the other requests do (render.go:54-228, browser.go:258-315).
THEOREM AlwaysRenderedAsAsked == Spec => []RenderedAsAsked
<1>1. Init => AskedInv
  BY RenderInitInv DEF Init, AskedInv, AskedOK
<1>2. AskedInv => RenderedAsAsked
  BY DEF AskedInv, AskedOK, AsLaunched, RenderedAsAsked
<1> QED
  BY <1>1, <1>2, AskedNextInv, PTL DEF Spec
=============================================================================
