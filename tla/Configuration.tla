---------------------------- MODULE Configuration ----------------------------
(***************************************************************************)
(* How the settings of a request are made (pkg/config): one table of flags *)
(* read from the command line, the environment and three files; the        *)
(* configuration of the service; and, for every override, a configuration  *)
(* of its own, made by parsing the command line again with the words of    *)
(* the override behind it.  Everything happens once, at start-up.          *)
(*                                                                         *)
(* A flag goes by the field of RequestConfig it fills.  Durations are in   *)
(* milliseconds, scale factors in tenths.  A text no flag of its type can  *)
(* parse is the value Garbage.  The command line library is external: the  *)
(* last occurrence of a flag wins, every occurrence is validated, and a    *)
(* flag that is not on the command line takes the first source that has    *)
(* it.  Overrides set flags of this table only.                            *)
(***************************************************************************)
EXTENDS Integers, Sequences, FiniteSets, Functions

CONSTANTS Garbage,    \* the value of a text that does not parse
          Regexes,    \* the patterns that compile
          UTC,        \* the time zone of an empty name
          TimeZones,  \* the time zones time.LoadLocation knows
          Nil         \* a nil map, slice or pointer

AtLeast(n) == {i \in Int : i >= n}
OffOr(n) == {i \in Int : i < 0 \/ i >= n}
Flag(default, accepts) == [default |-> default, accepts |-> accepts]

\* BrowserFlags: what each flag is when nothing sets it, and what its type and
\* its validator let through.  Landscape is the flag browser.portrait.
BrowserFlags ==
  [TimeBetweenScrolls              |-> Flag(50, Int),
   MinWidth                        |-> Flag(1000, AtLeast(100)),
   MinHeight                       |-> Flag(500, AtLeast(100)),
   MaxWidth                        |-> Flag(3000, OffOr(100)),
   MaxHeight                       |-> Flag(3000, OffOr(100)),
   PageScaleFactor                 |-> Flag(10, AtLeast(1)),
   MaxPageScaleFactor              |-> Flag(40, AtLeast(1)),
   Landscape                       |-> Flag(FALSE, BOOLEAN),
   ReadinessTimeout                |-> Flag(30000, Int),
   ReadinessIterationInterval      |-> Flag(100, AtLeast(1)),
   ReadinessWaitForNQueryCycles    |-> Flag(1, AtLeast(1)),
   ReadinessPriorWait              |-> Flag(1000, Int),
   ReadinessDisableQueryWait       |-> Flag(FALSE, BOOLEAN),
   ReadinessFirstQueryTimeout      |-> Flag(3000, Int),
   ReadinessQueriesTimeout         |-> Flag(0, Int),
   ReadinessDisableNetworkWait     |-> Flag(FALSE, BOOLEAN),
   ReadinessNetworkIdleTimeout     |-> Flag(0, Int),
   ReadinessDisableDOMHashCodeWait |-> Flag(FALSE, BOOLEAN),
   ReadinessDOMHashCodeTimeout     |-> Flag(0, Int),
   ForcePollingMode                |-> Flag(FALSE, BOOLEAN)]

Fields == DOMAIN BrowserFlags

-----------------------------------------------------------------------------
(* A command: its arguments, each a flag and a value, in order, and its    *)
(* sources, each a partial function on the flags, first the environment    *)
(* and then config.yaml, config.yml and config.json.                       *)

\* Arguments, and the words of an override, are a list of any length.
Listed(s) == s \in Seq({s[i] : i \in DOMAIN s})

Occurrences(command, f) == {i \in DOMAIN command.args : command.args[i].flag = f}
Holding(command, f) == {i \in DOMAIN command.sources : f \in DOMAIN command.sources[i]}
IsSet(command, f) == Occurrences(command, f) # {} \/ Holding(command, f) # {}

LastOf(S) == CHOOSE i \in S : \A j \in S : j <= i
FirstOf(S) == CHOOSE i \in S : \A j \in S : i <= j

Value(command, f) ==
  IF Occurrences(command, f) # {} THEN command.args[LastOf(Occurrences(command, f))].value
  ELSE IF Holding(command, f) # {} THEN command.sources[FirstOf(Holding(command, f))][f]
  ELSE BrowserFlags[f].default

Runs(command) ==
  /\ \A i \in DOMAIN command.args :
       command.args[i].value \in BrowserFlags[command.args[i].flag].accepts
  /\ \A f \in Fields : Value(command, f) \in BrowserFlags[f].accepts

\* requestConfigFromCommand refuses minimums above maximums, of any command
\* that ran; NoConfig stands for its error and for that of the command.
NoConfig == [refused |-> TRUE]

ConfigOf(command) ==
  [f \in Fields |-> IF f = "Landscape" THEN ~Value(command, f) ELSE Value(command, f)]

\* A definition whose name ends in Fault is the one that follows it with a
\* mistake in it; nothing uses it.
ConsistentFault(c) == TRUE                              \* minimums and maximums unchecked
Consistent(c) ==
  /\ ~(c.MaxWidth >= 0 /\ c.MinWidth > c.MaxWidth)
  /\ ~(c.MaxHeight >= 0 /\ c.MinHeight > c.MaxHeight)
  /\ c.PageScaleFactor <= c.MaxPageScaleFactor

RequestConfigFromCommand(command) ==
  IF Runs(command) /\ Consistent(ConfigOf(command)) THEN ConfigOf(command) ELSE NoConfig

-----------------------------------------------------------------------------
(* Overrides.  One is a text "pattern=--flag=value --flag=value": its      *)
(* pattern, how many equals signs come before its first flag, and its      *)
(* words.  A word is a flag with its value, or Stray.                      *)

CONSTANT Stray
NoPattern == "no pattern"      \* the pattern of a text with nothing before its "="

\* reconstructFlags: one argument for each flag that was set, wherever it was
\* set; those that were not are left to their defaults.
ReconstructFlags(command) ==
  LET given == {f \in Fields : IsSet(command, f)}
      order == CHOOSE s \in [1..Cardinality(given) -> given] : IsInjective(s)
  IN  [i \in DOMAIN order |-> [flag |-> order[i], value |-> Value(command, order[i])]]

\* The text is cut at its first equals sign.  When the pattern has one, the cut
\* comes too early and the first flag no longer follows a blank: it is a word
\* like any other.
FlagWords(override) ==
  IF override.equals > 1 /\ override.words # <<>>
  THEN <<Stray>> \o Tail(override.words)
  ELSE override.words

\* parseOverrideFlags: what stands before the first flag is dropped, and a word
\* that is not a flag is joined to the value of the flag before it.
ParseOverrideFlags(words) ==
  LET flags == {i \in DOMAIN words : words[i] # Stray}
      nth(k) == CHOOSE i \in flags : Cardinality({j \in flags : j <= i}) = k
      joined(i) == i + 1 \in DOMAIN words /\ words[i + 1] = Stray
  IN  [k \in 1..Cardinality(flags) |->
         IF joined(nth(k)) THEN [words[nth(k)] EXCEPT !.value = Garbage] ELSE words[nth(k)]]

\* buildConfigWithOverrides: the reconstructed flags, then those of the
\* override, which as the last win; the sources are read again.
BuildConfigWithOverridesFault(command, words) ==      \* the other way round
  RequestConfigFromCommand([command EXCEPT !.args = words \o ReconstructFlags(command)])
BuildConfigWithOverrides(command, words) ==
  RequestConfigFromCommand([command EXCEPT !.args = ReconstructFlags(command) \o words])

OverrideConfig(command, override) ==
  BuildConfigWithOverrides(command, ParseOverrideFlags(FlagWords(override)))

WellFormed(command, override) ==
  /\ override.equals > 0
  /\ override.pattern # NoPattern /\ override.pattern \in Regexes
  /\ OverrideConfig(command, override) # NoConfig

BuildRequestConfigOverrides(command) ==
  [i \in DOMAIN command.overrides |->
     [pattern |-> command.overrides[i].pattern,
      config  |-> OverrideConfig(command, command.overrides[i])]]

-----------------------------------------------------------------------------
\* BrowserConfigFromCommand and the validators of the other flags it reads: the
\* command starts a service.
Starts(command) ==
  /\ RequestConfigFromCommand(command) # NoConfig
  /\ command.timeZone \in TimeZones \union {UTC}
  /\ \A i \in DOMAIN command.overrides : WellFormed(command, command.overrides[i])
  /\ command.encoding \in {"pdf", "png"}

\* The value of a header given twice is its last.
Headers(command) == IF DOMAIN command.headers = {} THEN Nil ELSE command.headers

\* A lookup takes the first override whose pattern matches, and the default
\* configuration without one.
LookupRequestConfig(configs, matching) ==
  LET hits == {i \in DOMAIN configs.overrides : configs.overrides[i].pattern \in matching}
  IN  IF hits = {} THEN configs.default ELSE configs.overrides[FirstOf(hits)].config
=============================================================================
