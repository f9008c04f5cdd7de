---------------------------- MODULE RenderRequests ---------------------------
(***************************************************************************)
(* From a request to the settings its browser gets: the query is parsed    *)
(* into an encoding and a list of options (pkg/api/render.go), the         *)
(* service's configuration is cloned, and the options are applied to the   *)
(* clone one after the other (pkg/service/browser.go).  Requests run at    *)
(* the same time and share the service's configuration; a CSV download     *)
(* uses it as it is.                                                       *)
(*                                                                         *)
(* A configuration holds pointers: its map of headers and its array of     *)
(* overrides live at an address, the one of the service or the one of the  *)
(* request that made them, and a copy of the configuration copies the      *)
(* pointer alone.  What happens in the browser between its launch and the  *)
(* capture is BrowserSession's.                                            *)
(***************************************************************************)
EXTENDS Configuration

CONSTANTS Requests,           \* requests that may be handled at the same time
          Service,            \* the address of what the service made at its start
          Commands,           \* the command lines it may be started with
          Queries,            \* the queries a request may have
          Absent,             \* a parameter that is not there
          Matching,           \* for each url, the patterns that match it
          NanosPerSecond,     \* nanoseconds of a second
          MaxDuration         \* the largest time.Duration

ASSUME RequestAssumption ==
  /\ Service \notin Requests /\ Nil \notin Requests \union {Service}
  /\ NanosPerSecond \in Nat \ {0} /\ MaxDuration \in Nat

ASSUME InputAssumption ==
  /\ \A c \in Commands :
       /\ "args" \in DOMAIN c /\ Listed(c.args)
       /\ DOMAIN c.overrides \subseteq Nat
       /\ \A i \in DOMAIN c.overrides : Listed(c.overrides[i].words)
  /\ \A q \in Queries :
       /\ q.csv \in BOOLEAN
       /\ {q.width, q.height, q.scale, q.timeout} \subseteq Int \union {Absent, Garbage}

VARIABLES stage,          \* "off", "serving" or "failed"
          command,        \* the command line
          serviceCfg,     \* the service's configuration
          headerMaps,     \* the map of headers at each address, or Nil
          overrideArrays, \* the array of overrides at each address
          pc, query, todo, \* per request: where it is, its query, its options left
          cfg,            \* per request: its configuration
          launched,       \* per request: the settings its browser started with
          captured        \* per request: the settings of its capture

serviceVars == <<stage, command, serviceCfg>>
heap == <<headerMaps, overrideArrays>>
vars == <<serviceVars, heap, pc, query, todo, cfg, launched, captured>>

Init ==
  /\ stage = "off"
  /\ command \in Commands
  /\ serviceCfg = Nil
  /\ headerMaps = [a \in Requests \union {Service} |-> Nil]
  /\ overrideArrays = [a \in Requests \union {Service} |-> <<>>]
  /\ pc = [r \in Requests |-> "idle"]
  /\ query = [r \in Requests |-> Absent]
  /\ todo = [r \in Requests |-> <<>>]
  /\ cfg = [r \in Requests |-> Nil]
  /\ launched = [r \in Requests |-> Nil]
  /\ captured = [r \in Requests |-> Nil]

\* The configuration is read once.  Cookies of the service are always nil.
Start ==
  /\ stage = "off"
  /\ IF Starts(command)
     THEN /\ stage' = "serving"
          /\ serviceCfg' = [timeZone |-> command.timeZone, cookies |-> Nil, overrides |-> Service,
                            headers |-> IF Headers(command) = Nil THEN Nil ELSE Service,
                            default |-> RequestConfigFromCommand(command)]
          /\ headerMaps' = [headerMaps EXCEPT ![Service] = Headers(command)]
          /\ overrideArrays' = [overrideArrays EXCEPT ![Service] = BuildRequestConfigOverrides(command)]
     ELSE stage' = "failed" /\ UNCHANGED <<serviceCfg, heap>>
  /\ UNCHANGED <<command, pc, query, todo, cfg, launched, captured>>

-----------------------------------------------------------------------------
(* The query.  A parameter that does not parse is Garbage.                 *)

\* parseTimeout: a number is in seconds, and refused when its nanoseconds
\* would not fit; an int64 wraps.
Wrapped(n) == ((n + MaxDuration + 1) % (2 * (MaxDuration + 1))) - (MaxDuration + 1)
TimeoutFitsFault(seconds) == seconds >= 0
TimeoutFits(seconds) == seconds >= 0 /\ seconds <= MaxDuration \div NanosPerSecond
ParseTimeout(seconds) == Wrapped(seconds * NanosPerSecond)
Deadline(q) == IF q.timeout = Absent THEN 0 ELSE ParseTimeout(q.timeout)

Encoding(q) == IF q.encoding = Absent THEN command.encoding ELSE q.encoding

\* The names of paper sizes, which a query may write in any case.
Papers == {"letter", "legal", "tabloid", "ledger", "a0", "a1", "a2", "a3", "a4", "a5", "a6"}

\* What the handlers answer with 400 themselves.
RefusedRender(q) ==
  \/ q.url = Absent \/ q.url = Garbage
  \/ q.width = Garbage \/ q.height = Garbage \/ q.scale = Garbage
  \/ q.timeout = Garbage \/ (q.timeout # Absent /\ ~TimeoutFits(q.timeout))
  \/ Encoding(q) \notin {"pdf", "png"}
  \/ Encoding(q) = "pdf" /\ q.paper \notin Papers \union {Absent}

RefusedCSV(q) ==
  \/ q.url = Absent
  \/ q.timeout = Garbage \/ (q.timeout # Absent /\ ~TimeoutFits(q.timeout))
  \/ q.encoding \notin {Absent, "csv"}

Refused(q) == IF q.csv THEN RefusedCSV(q) ELSE RefusedRender(q)

Given(parameter, option) == IF parameter = Absent THEN <<>> ELSE <<option>>
Pixels(parameter) == IF parameter = Absent THEN -1 ELSE parameter

Viewport(w, h) == [op |-> "viewport", width |-> w, height |-> h]
Setting(op, value) == [op |-> op, value |-> value]

\* Without a height a PNG is of the full page, and starts from a viewport with
\* the aspect ratio 4:3, rounded down.
FullHeight(q) == Encoding(q) = "png" /\ Pixels(q.height) = -1
PrinterOptions(q) ==
  IF Encoding(q) = "pdf" THEN Given(q.pdfLandscape, Setting("landscape", q.pdfLandscape))
  ELSE IF FullHeight(q) THEN <<Viewport(Pixels(q.width), (3 * Pixels(q.width)) \div 4)>>
  ELSE <<>>

\* The options in the order HandleGetRender appends them; an unknown time zone
\* is ignored.
Options(q) ==
  <<Viewport(Pixels(q.width), Pixels(q.height))>>
  \o Given(q.scale, Setting("scale", q.scale))
  \o (IF q.timeZone \in TimeZones THEN <<Setting("timeZone", q.timeZone)>> ELSE <<>>)
  \o Given(q.landscape, Setting("landscape", q.landscape))
  \o Given(q.cookie, Setting("cookie", q.cookie))
  \o PrinterOptions(q)
  \o Given(q.language, Setting("language", q.language))
  \o Given(q.polling, Setting("polling", q.polling))

\* The printer a request asks for: its paper, A4 if it names none.
Printer(q) ==
  IF Encoding(q) = "pdf"
  THEN [encoding |-> "pdf", paper |-> IF q.paper = Absent THEN "a4" ELSE q.paper]
  ELSE [encoding |-> Encoding(q), fullHeight |-> FullHeight(q)]

-----------------------------------------------------------------------------
Becomes(r, state) == pc' = [pc EXCEPT ![r] = state]

Arrive(r, q) ==
  /\ stage = "serving" /\ pc[r] = "idle"
  /\ query' = [query EXCEPT ![r] = q]
  /\ todo' = [todo EXCEPT ![r] = IF q.csv \/ Refused(q) THEN <<>> ELSE Options(q)]
  /\ Becomes(r, IF Refused(q) THEN "refused" ELSE "parsed")
  /\ UNCHANGED <<serviceVars, heap, cfg, launched, captured>>

\* DeepClone: the structure is copied, the map and the array are made anew.
DeepCloneFault(r) ==              \* the overrides are not cloned
  /\ cfg' = [cfg EXCEPT ![r] = [serviceCfg EXCEPT !.headers = IF @ = Nil THEN Nil ELSE r]]
  /\ headerMaps' = [headerMaps EXCEPT ![r] = headerMaps[Service]]
  /\ UNCHANGED overrideArrays
DeepClone(r) ==
  /\ cfg' = [cfg EXCEPT ![r] = [serviceCfg EXCEPT !.headers = IF @ = Nil THEN Nil ELSE r,
                                                  !.overrides = r]]
  /\ headerMaps' = [headerMaps EXCEPT ![r] = headerMaps[Service]]
  /\ overrideArrays' = [overrideArrays EXCEPT ![r] = overrideArrays[Service]]

\* Render clones the configuration; RenderCSV uses the service's.
TakeConfig(r) ==
  /\ pc[r] = "parsed"
  /\ IF query[r].csv
     THEN cfg' = [cfg EXCEPT ![r] = serviceCfg] /\ UNCHANGED heap
     ELSE DeepClone(r)
  /\ Becomes(r, "applying")
  /\ UNCHANGED <<serviceVars, query, todo, launched, captured>>

\* ApplyAll: the default configuration is part of the structure, those of the
\* overrides are in the array it points to.
Apply(r, Change(_)) ==
  /\ cfg' = [cfg EXCEPT ![r].default = Change(@)]
  /\ overrideArrays' = [overrideArrays EXCEPT
       ![cfg[r].overrides] = [i \in DOMAIN @ |-> [pattern |-> @[i].pattern,
                                                  config |-> Change(@[i].config)]]]
  /\ UNCHANGED headerMaps

ClampedFault(v, minimum, maximum) == IF v < minimum THEN minimum ELSE v  \* no maximum
Clamped(v, minimum, maximum) ==
  IF v < minimum THEN minimum ELSE IF v > maximum /\ maximum > 0 THEN maximum ELSE v

Resized(o, rc) ==
  [rc EXCEPT !.MinWidth = IF o.width = -1 THEN @ ELSE Clamped(o.width, @, rc.MaxWidth),
             !.MinHeight = IF o.height = -1 THEN @ ELSE Clamped(o.height, @, rc.MaxHeight)]
WithViewport(r, o) ==
  LET Change(rc) == Resized(o, rc) IN o.op = "viewport" /\ Apply(r, Change)

Scaled(o, rc) ==
  [rc EXCEPT !.PageScaleFactor =
     IF o.value > rc.MaxPageScaleFactor THEN rc.MaxPageScaleFactor ELSE o.value]
WithPageScaleFactor(r, o) ==
  LET Change(rc) == Scaled(o, rc) IN o.op = "scale" /\ o.value > 0 /\ Apply(r, Change)

WithLandscape(r, o) ==
  LET Change(rc) == [rc EXCEPT !.Landscape = o.value]
  IN  o.op = "landscape" /\ Apply(r, Change)

WithForcePolling(r, o) ==
  LET Change(rc) == [rc EXCEPT !.ForcePollingMode = o.value]
  IN  o.op = "polling" /\ Apply(r, Change)

WithTimeZone(r, o) ==
  /\ o.op = "timeZone"
  /\ cfg' = [cfg EXCEPT ![r].timeZone = o.value]
  /\ UNCHANGED heap

\* The slice of cookies is nil before; an IPv6 address gets its brackets.
Bracketed(domain) == IF domain = "ipv6" THEN "[ipv6]" ELSE domain
WithCookie(r, o) ==
  /\ o.op = "cookie"
  /\ cfg' = [cfg EXCEPT ![r].cookies = {Bracketed(o.value)}]
  /\ UNCHANGED heap

\* A nil map is made before it is written.
WithLanguage(headers, language) ==
  [h \in (IF headers = Nil THEN {} ELSE DOMAIN headers) \union {"Accept-Language"} |->
     IF h = "Accept-Language" THEN language ELSE headers[h]]

\* A map is not nil.
ASSUME MapAssumption ==
  \A q \in Queries : \A headers \in {Nil} \union {c.headers : c \in Commands} :
    WithLanguage(headers, q.language) # Nil

WithHeader(r, o) ==
  LET a == IF cfg[r].headers = Nil THEN r ELSE cfg[r].headers
  IN  /\ o.op = "language"
      /\ cfg' = [cfg EXCEPT ![r].headers = a]
      /\ headerMaps' = [headerMaps EXCEPT ![a] = WithLanguage(@, o.value)]
      /\ UNCHANGED overrideArrays

ApplyOption(r) ==
  /\ pc[r] = "applying" /\ todo[r] # <<>>
  /\ LET o == Head(todo[r])
     IN  \/ WithViewport(r, o) \/ WithPageScaleFactor(r, o) \/ WithLandscape(r, o)
         \/ WithForcePolling(r, o) \/ WithTimeZone(r, o) \/ WithCookie(r, o) \/ WithHeader(r, o)
  /\ todo' = [todo EXCEPT ![r] = Tail(@)]
  /\ UNCHANGED <<serviceVars, pc, query, launched, captured>>

\* A scale that is not positive is an invalid option: 400, but from the service.
RefuseOption(r) ==
  /\ pc[r] = "applying" /\ todo[r] # <<>>
  /\ Head(todo[r]).op = "scale" /\ Head(todo[r]).value <= 0
  /\ Becomes(r, "refused")
  /\ UNCHANGED <<serviceVars, heap, query, todo, cfg, launched, captured>>

-----------------------------------------------------------------------------
\* What the configuration of a request comes to when it is looked up.
ConfigNow(r) ==
  LookupRequestConfig([default |-> cfg[r].default, overrides |-> overrideArrays[cfg[r].overrides]],
                      Matching[query[r].url])
HeadersNow(r) == IF cfg[r].headers = Nil THEN Nil ELSE headerMaps[cfg[r].headers]

LanguageOnly(q) ==
  IF q.language = Absent THEN Nil ELSE WithLanguage(Nil, q.language)

\* createAllocatorOptions and the commands of Render; RenderCSV sends headers
\* and a cookie of its own, the cookie even if it has no name or domain.
Launch(r) ==
  /\ pc[r] = "applying" /\ todo[r] = <<>>
  /\ launched' = [launched EXCEPT ![r] =
       [config |-> ConfigNow(r), timeZone |-> cfg[r].timeZone, deadline |-> Deadline(query[r]),
        headers |-> IF query[r].csv THEN LanguageOnly(query[r]) ELSE HeadersNow(r),
        cookies |-> IF query[r].csv THEN {query[r].cookie} ELSE cfg[r].cookies]]
  /\ Becomes(r, "launched")
  /\ UNCHANGED <<serviceVars, heap, query, todo, cfg, captured>>

\* The printers look the configuration up again, when the page is ready.
Capture(r) ==
  /\ pc[r] = "launched" /\ ~query[r].csv
  /\ captured' = [captured EXCEPT ![r] = [config |-> ConfigNow(r), printer |-> Printer(query[r])]]
  /\ Becomes(r, "captured")
  /\ UNCHANGED <<serviceVars, heap, query, todo, cfg, launched>>

\* The answer, of a capture, a refusal or a session that failed: what the
\* request held is garbage.
Respond(r) ==
  /\ pc[r] \in {"refused", "launched", "captured"}
  /\ Becomes(r, "idle")
  /\ query' = [query EXCEPT ![r] = Absent]
  /\ todo' = [todo EXCEPT ![r] = <<>>]
  /\ cfg' = [cfg EXCEPT ![r] = Nil]
  /\ launched' = [launched EXCEPT ![r] = Nil]
  /\ captured' = [captured EXCEPT ![r] = Nil]
  /\ headerMaps' = [headerMaps EXCEPT ![r] = Nil]
  /\ overrideArrays' = [overrideArrays EXCEPT ![r] = <<>>]
  /\ UNCHANGED serviceVars

Next ==
  \/ Start
  \/ \E r \in Requests :
       \/ \E q \in Queries : Arrive(r, q)
       \/ TakeConfig(r) \/ ApplyOption(r) \/ RefuseOption(r)
       \/ Launch(r) \/ Capture(r) \/ Respond(r)

Spec == Init /\ [][Next]_vars

-----------------------------------------------------------------------------
(* Properties                                                              *)

\* The configuration the service shares, through its pointers.
Shared == [cfg |-> serviceCfg, headers |-> headerMaps[Service],
           overrides |-> overrideArrays[Service]]
SharedConfigs == [default |-> serviceCfg.default, overrides |-> overrideArrays[Service]]

\* No request changes the configuration every other request starts from
\* (browser.go:262, config.go:474): what is written is the request's own.
ServiceConfigUntouched == [][stage = "serving" => Shared' = Shared]_vars

Larger(a, b) == IF a >= b THEN a ELSE b
Smaller(a, b) == IF a <= b THEN a ELSE b

\* What a request asks for, from its own query and the configuration that
\* matches its url alone.
Bounded(asked, minimum, maximum) ==
  IF asked = -1 THEN minimum
  ELSE Larger(minimum, IF maximum > 0 THEN Smaller(asked, maximum) ELSE asked)

AskedHeight(q) ==
  IF FullHeight(q) /\ Pixels(q.width) # -1 THEN (3 * q.width) \div 4 ELSE Pixels(q.height)
AskedLandscape(q, default) ==
  IF Encoding(q) = "pdf" /\ q.pdfLandscape # Absent THEN q.pdfLandscape
  ELSE IF q.landscape # Absent THEN q.landscape ELSE default

Limits(q) == LookupRequestConfig(SharedConfigs, Matching[q.url])
AskedConfig(q) ==
  IF q.csv THEN Limits(q)
  ELSE [Limits(q) EXCEPT
         !.MinWidth = Bounded(Pixels(q.width), @, Limits(q).MaxWidth),
         !.MinHeight = Bounded(AskedHeight(q), @, Limits(q).MaxHeight),
         !.PageScaleFactor = IF q.scale = Absent THEN @ ELSE Smaller(q.scale, Limits(q).MaxPageScaleFactor),
         !.Landscape = AskedLandscape(q, @),
         !.ForcePollingMode = IF q.polling = Absent THEN @ ELSE q.polling]

Language(q) == IF q.language = Absent THEN {} ELSE {<<"Accept-Language", q.language>>}
Configured == IF headerMaps[Service] = Nil THEN {}
              ELSE {<<h, headerMaps[Service][h]>> : h \in DOMAIN headerMaps[Service]}
AskedHeaders(q) ==
  Language(q) \union {p \in Configured : q.language = Absent \/ p[1] # "Accept-Language"}

\* A PDF on the paper that is named, A4 without a name; a PNG of the whole page
\* unless a height is given.
AskedPrinter(q) ==
  IF Encoding(q) = "pdf"
  THEN [encoding |-> "pdf", paper |-> IF q.paper = Absent THEN "a4" ELSE q.paper]
  ELSE [encoding |-> Encoding(q),
        fullHeight |-> Encoding(q) = "png" /\ q.height \in {Absent, -1}]

AskedTimeZone(q) ==
  IF ~q.csv /\ q.timeZone \in TimeZones THEN q.timeZone ELSE serviceCfg.timeZone
AskedCookies(q) ==
  IF q.csv THEN {q.cookie} ELSE IF q.cookie = Absent THEN Nil ELSE {Bracketed(q.cookie)}

Sent(headers) == IF headers = Nil THEN {} ELSE {<<h, headers[h]>> : h \in DOMAIN headers}

\* Whatever other requests do in the meantime, a browser starts with, and the
\* capture uses, what its own query asks for within the limits of the
\* configuration that matches its url: the viewport, the scale, the time zone, a
\* cookie of its own alone, a timeout that is never wrapped into another or into
\* none, and the printer; a render also sends its language and the headers of
\* the configuration, a CSV download its language
\* (render.go:54-228, parse.go:24, browser.go:258-315, :483, :726, :832).
RenderedAsAsked ==
  \A r \in Requests :
    /\ launched[r] # Nil =>
         /\ launched[r].config = AskedConfig(query[r])
         /\ ~query[r].csv => Sent(launched[r].headers) = AskedHeaders(query[r])
         /\ query[r].csv => Language(query[r]) \subseteq Sent(launched[r].headers)
         /\ launched[r].timeZone = AskedTimeZone(query[r])
         /\ launched[r].cookies = AskedCookies(query[r])
         /\ query[r].timeout # Absent =>
              launched[r].deadline = query[r].timeout * NanosPerSecond
    /\ captured[r] # Nil => /\ captured[r].config = AskedConfig(query[r])
                            /\ captured[r].printer = AskedPrinter(query[r])

\* "Headers are set on every request the browser makes" (config.go:410).  Of the
\* browser of a CSV download they are not: its only header is the language of
\* the query (browser.go:374-388).
HeadersOnEveryRequest ==
  \A r \in Requests :
    launched[r] # Nil => AskedHeaders(query[r]) \subseteq Sent(launched[r].headers)

\* No query leaves the limits of the configuration its url matches
\* (config.go:430-451).
WithinLimits ==
  \A r \in Requests :
    launched[r] # Nil =>
      LET limit == Limits(query[r])
          used == launched[r].config
      IN  /\ used.MinWidth >= limit.MinWidth /\ used.MinHeight >= limit.MinHeight
          /\ limit.MaxWidth > 0 => used.MinWidth <= limit.MaxWidth
          /\ limit.MaxHeight > 0 => used.MinHeight <= limit.MaxHeight
          /\ used.PageScaleFactor > 0 /\ used.PageScaleFactor <= limit.MaxPageScaleFactor

\* Every configuration a service serves with, its overrides' too, satisfies
\* what the waiter and the viewport rely on (config.go:765-773, :901-928).
Configs == {serviceCfg.default}
           \union {overrideArrays[Service][i].config : i \in DOMAIN overrideArrays[Service]}
UsableConfigs ==
  stage = "serving" =>
    \A c \in Configs :
      /\ c.MinWidth >= 100 /\ c.MinHeight >= 100
      /\ c.MaxWidth > 0 => c.MinWidth <= c.MaxWidth
      /\ c.MaxHeight > 0 => c.MinHeight <= c.MaxHeight
      /\ c.PageScaleFactor > 0 /\ c.PageScaleFactor <= c.MaxPageScaleFactor
      /\ c.ReadinessIterationInterval > 0 /\ c.ReadinessWaitForNQueryCycles > 0

\* An override is the service restarted with the words of the override at the
\* end of its command line, whatever the sources set (config.go:847-897).
OverrideAsRestart ==
  stage = "serving" =>
    \A i \in DOMAIN command.overrides :
      overrideArrays[Service][i].config =
        RequestConfigFromCommand([command EXCEPT !.args =
          @ \o ParseOverrideFlags(FlagWords(command.overrides[i]))])
=============================================================================
