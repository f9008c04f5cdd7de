------------------------- MODULE ConfigurationProofs -------------------------
(***************************************************************************)
(* For any command line, sources and overrides: every configuration the    *)
(* program accepts is usable, and an override gives what the program would *)
(* give if it were started again with the words of the override at the end *)
(* of its command line.                                                    *)
(*                                                                         *)
(* The second is what the reconstruction of the flags is for, and it is    *)
(* not obvious: the override is parsed behind one argument for each flag   *)
(* that was set anywhere, not behind the arguments that were given.        *)
(***************************************************************************)
EXTENDS Configuration, FiniteSetTheorems, SequenceTheorems, TLAPS

Usable(c) ==
  /\ c = [f \in Fields |-> c[f]] /\ DOMAIN c = Fields
  /\ c.MinWidth \in Int /\ c.MinHeight \in Int /\ c.MaxWidth \in Int /\ c.MaxHeight \in Int
  /\ c.PageScaleFactor \in Int /\ c.MaxPageScaleFactor \in Int
  /\ c.MinWidth >= 100 /\ c.MinHeight >= 100
  /\ c.MaxWidth > 0 => c.MinWidth <= c.MaxWidth
  /\ c.MaxHeight > 0 => c.MinHeight <= c.MaxHeight
  /\ c.PageScaleFactor > 0 /\ c.PageScaleFactor <= c.MaxPageScaleFactor
  /\ c.ReadinessIterationInterval > 0 /\ c.ReadinessWaitForNQueryCycles > 0

-----------------------------------------------------------------------------
(* The configuration.                                                      *)

\* The flags the properties are about, and what they let through.
LEMMA FlagsAccept ==
  /\ {"MinWidth", "MinHeight", "MaxWidth", "MaxHeight", "PageScaleFactor", "MaxPageScaleFactor",
      "ReadinessIterationInterval", "ReadinessWaitForNQueryCycles"} \subseteq Fields
  /\ BrowserFlags["MinWidth"].accepts = AtLeast(100)
  /\ BrowserFlags["MinHeight"].accepts = AtLeast(100)
  /\ BrowserFlags["MaxWidth"].accepts = OffOr(100)
  /\ BrowserFlags["MaxHeight"].accepts = OffOr(100)
  /\ BrowserFlags["PageScaleFactor"].accepts = AtLeast(1)
  /\ BrowserFlags["MaxPageScaleFactor"].accepts = AtLeast(1)
  /\ BrowserFlags["ReadinessIterationInterval"].accepts = AtLeast(1)
  /\ BrowserFlags["ReadinessWaitForNQueryCycles"].accepts = AtLeast(1)
BY DEF BrowserFlags, Flag, Fields

\* Any command the program accepts gives a usable configuration, and so does
\* any override, which is another command to it.
LEMMA CommandUsable ==
  ASSUME NEW c, RequestConfigFromCommand(c) # NoConfig
  PROVE  Usable(RequestConfigFromCommand(c))
<1>1. /\ Runs(c) /\ Consistent(ConfigOf(c))
      /\ RequestConfigFromCommand(c) = ConfigOf(c)
  BY DEF RequestConfigFromCommand
<1>2. \A f \in Fields : Value(c, f) \in BrowserFlags[f].accepts
  BY <1>1 DEF Runs
<1>3. /\ Value(c, "MinWidth") \in AtLeast(100) /\ Value(c, "MinHeight") \in AtLeast(100)
      /\ Value(c, "MaxWidth") \in OffOr(100) /\ Value(c, "MaxHeight") \in OffOr(100)
      /\ Value(c, "PageScaleFactor") \in AtLeast(1) /\ Value(c, "MaxPageScaleFactor") \in AtLeast(1)
      /\ Value(c, "ReadinessIterationInterval") \in AtLeast(1)
      /\ Value(c, "ReadinessWaitForNQueryCycles") \in AtLeast(1)
  BY <1>2, FlagsAccept
<1>4. /\ ConfigOf(c) = [f \in Fields |-> ConfigOf(c)[f]] /\ DOMAIN ConfigOf(c) = Fields
      /\ ConfigOf(c)["MinWidth"] = Value(c, "MinWidth")
      /\ ConfigOf(c)["MinHeight"] = Value(c, "MinHeight")
      /\ ConfigOf(c)["MaxWidth"] = Value(c, "MaxWidth")
      /\ ConfigOf(c)["MaxHeight"] = Value(c, "MaxHeight")
      /\ ConfigOf(c)["PageScaleFactor"] = Value(c, "PageScaleFactor")
      /\ ConfigOf(c)["MaxPageScaleFactor"] = Value(c, "MaxPageScaleFactor")
      /\ ConfigOf(c)["ReadinessIterationInterval"] = Value(c, "ReadinessIterationInterval")
      /\ ConfigOf(c)["ReadinessWaitForNQueryCycles"] = Value(c, "ReadinessWaitForNQueryCycles")
  BY FlagsAccept DEF ConfigOf
<1> QED
  BY <1>1, <1>3, <1>4 DEF Usable, Consistent, AtLeast, OffOr

LEMMA OverrideUsable ==
  ASSUME NEW c, NEW override, WellFormed(c, override)
  PROVE  Usable(OverrideConfig(c, override))
BY CommandUsable DEF WellFormed, OverrideConfig, BuildConfigWithOverrides

\* A set of indices that is not empty has a first.
LEMMA FirstOfIsIn ==
  ASSUME NEW S \in SUBSET Nat, S # {}
  PROVE  FirstOf(S) \in S /\ \A j \in S : FirstOf(S) <= j
<1> DEFINE Before == {p \in Nat \X Nat : p[1] < p[2]}
<1>1. IsWellFoundedOn(Before, Nat)
  BY NatLessThanWellFounded, Zenon DEF OpToRel
<1>2. PICK i \in S : \A j \in S : <<j, i>> \notin Before
  BY <1>1, WFMin
<1>3. ASSUME NEW j \in S PROVE i <= j
  <2>1. i \in Nat /\ j \in Nat
    OBVIOUS
  <2>2. <<j, i>> \in Nat \X Nat /\ <<j, i>>[1] = j /\ <<j, i>>[2] = i
    BY <2>1
  <2>3. ~(j < i)
    BY <1>2, <2>2
  <2> QED
    BY <2>1, <2>3
<1> QED
  BY <1>3 DEF FirstOf

\* So has a bounded one a last.
LEMMA LastOfIsLast ==
  ASSUME NEW n \in Nat, NEW S \in SUBSET (1..n), S # {}
  PROVE  LastOf(S) \in S /\ \A j \in S : j <= LastOf(S)
<1> DEFINE T == {n - i : i \in S}
<1>1. T \in SUBSET Nat /\ T # {}
  <2>1. \A i \in S : i \in Int /\ i <= n
    OBVIOUS
  <2>2. \A i \in S : n - i \in Nat
    BY <2>1
  <2> QED
    BY <2>2
<1>2. PICK k \in T : \A j \in T : k <= j
  BY <1>1, FirstOfIsIn
<1>3. PICK i \in S : k = n - i
  BY <1>2
<1>4. ASSUME NEW j \in S PROVE j <= i
  <2>1. n - j \in T
    OBVIOUS
  <2>2. n - i <= n - j /\ i \in Int /\ j \in Int
    BY <1>2, <1>3, <2>1
  <2> QED
    BY <2>2
<1> QED
  BY <1>4 DEF LastOf

-----------------------------------------------------------------------------
(* The last occurrence of a flag.                                          *)

Where(args, f) == {i \in DOMAIN args : args[i].flag = f}

\* Behind other arguments the last occurrence is the same, if there is one;
\* without one the other arguments decide.
LastDecides(s, t, f) ==
  /\ Where(t, f) # {} => /\ Where(s \o t, f) # {}
                         /\ (s \o t)[LastOf(Where(s \o t, f))] = t[LastOf(Where(t, f))]
  /\ Where(t, f) = {} /\ Where(s, f) # {} =>
       /\ Where(s \o t, f) # {}
       /\ (s \o t)[LastOf(Where(s \o t, f))] = s[LastOf(Where(s, f))]
  /\ Where(t, f) = {} /\ Where(s, f) = {} => Where(s \o t, f) = {}

LEMMA LastWins ==
  ASSUME NEW E, NEW s \in Seq(E), NEW t \in Seq(E), NEW f
  PROVE  LastDecides(s, t, f)
<1>1. /\ Len(s) \in Nat /\ Len(t) \in Nat
      /\ DOMAIN s = 1..Len(s) /\ DOMAIN t = 1..Len(t)
      /\ s \o t \in Seq(E) /\ Len(s \o t) = Len(s) + Len(t)
      /\ \A i \in 1..Len(s) + Len(t) : (s \o t)[i] = IF i <= Len(s) THEN s[i] ELSE t[i - Len(s)]
  BY ConcatProperties, LenProperties
<1>2. DOMAIN (s \o t) = 1..(Len(s) + Len(t))
  BY <1>1, LenProperties
<1>3. /\ \A i \in Where(s, f) : i \in Where(s \o t, f) /\ (s \o t)[i] = s[i] /\ i \in 1..Len(s)
      /\ \A i \in Where(t, f) : i + Len(s) \in Where(s \o t, f) /\ (s \o t)[i + Len(s)] = t[i] /\ i \in 1..Len(t)
      /\ \A i \in Where(s \o t, f) :
           \/ i \in Where(s, f)
           \/ i \in Int /\ i > Len(s) /\ i - Len(s) \in Where(t, f)
  BY <1>1, <1>2 DEF Where
<1>4. /\ Where(s, f) \in SUBSET (1..Len(s)) /\ Where(t, f) \in SUBSET (1..Len(t))
      /\ Where(s \o t, f) \in SUBSET (1..(Len(s) + Len(t)))
  BY <1>1, <1>2 DEF Where
<1>5. ASSUME NEW S, NEW n \in Nat, S \in SUBSET (1..n), NEW m \in S, \A j \in S : j <= m
      PROVE  LastOf(S) = m
  <2>1. LastOf(S) \in S /\ \A j \in S : j <= LastOf(S)
    BY <1>5, LastOfIsLast
  <2>2. LastOf(S) <= m /\ m <= LastOf(S)
    BY <1>5, <2>1
  <2>3. m \in 1..n /\ LastOf(S) \in 1..n
    BY <1>5, <2>1
  <2> QED
    BY <2>2, <2>3
<1>6. CASE Where(t, f) # {}
  <2> DEFINE m == LastOf(Where(t, f))
  <2>1. m \in Where(t, f) /\ \A j \in Where(t, f) : j <= m
    BY <1>1, <1>4, <1>6, LastOfIsLast
  <2> HIDE DEF m
  <2>2. m + Len(s) \in Where(s \o t, f)
    BY <1>3, <2>1
  <2>3. \A j \in Where(s \o t, f) : j <= m + Len(s)
    BY <1>1, <1>3, <2>1
  <2>4. LastOf(Where(s \o t, f)) = m + Len(s)
    BY <1>1, <1>4, <1>5, <2>2, <2>3
  <2> QED
    BY <1>3, <1>6, <2>1, <2>2, <2>4 DEF m, LastDecides
<1>7. CASE Where(t, f) = {}
  <2>1. Where(s \o t, f) = Where(s, f)
    BY <1>3, <1>7
  <2>2. Where(s, f) # {} => LastOf(Where(s, f)) \in Where(s, f)
    BY <1>1, <1>4, LastOfIsLast
  <2> QED
    BY <1>3, <1>7, <2>1, <2>2 DEF LastDecides
<1> QED
  BY <1>6, <1>7

-----------------------------------------------------------------------------
(* The reconstruction of the flags.                                        *)

LEMMA FieldsFinite == IsFiniteSet(Fields)
<1> DEFINE names == <<"TimeBetweenScrolls", "MinWidth", "MinHeight", "MaxWidth", "MaxHeight",
                      "PageScaleFactor", "MaxPageScaleFactor", "Landscape", "ReadinessTimeout",
                      "ReadinessIterationInterval", "ReadinessWaitForNQueryCycles",
                      "ReadinessPriorWait", "ReadinessDisableQueryWait",
                      "ReadinessFirstQueryTimeout", "ReadinessQueriesTimeout",
                      "ReadinessDisableNetworkWait", "ReadinessNetworkIdleTimeout",
                      "ReadinessDisableDOMHashCodeWait", "ReadinessDOMHashCodeTimeout",
                      "ForcePollingMode">>
<1>1. Fields = {names[1], names[2], names[3], names[4], names[5], names[6], names[7], names[8],
                names[9], names[10], names[11], names[12], names[13], names[14], names[15],
                names[16], names[17], names[18], names[19], names[20]}
  BY DEF Fields, BrowserFlags
<1>2. DOMAIN names = 1..20 /\ names = [i \in 1..20 |-> names[i]]
  OBVIOUS
<1> HIDE DEF names
<1>3. \A i \in 1..20 : names[i] \in Fields
  BY <1>1
<1>4. \A f \in Fields : \E i \in 1..20 : names[i] = f
  BY <1>1
<1>5. names \in [1..20 -> Fields]
  BY <1>2, <1>3
<1>6. names \in Surjection(1..20, Fields)
  BY <1>4, <1>5 DEF Surjection
<1> QED
  BY <1>6, FS_NatSurjection DEF ExistsSurjection

\* The reconstruction has an argument for every flag that is set, with its
\* value, and for no other.
LEMMA Reconstructed ==
  ASSUME NEW c
  PROVE  LET flags == ReconstructFlags(c)
         IN  /\ flags \in Seq({flags[i] : i \in DOMAIN flags})
             /\ \A i \in DOMAIN flags :
                  /\ flags[i].flag \in Fields /\ IsSet(c, flags[i].flag)
                  /\ flags[i].value = Value(c, flags[i].flag)
             /\ \A f \in Fields : IsSet(c, f) => Where(flags, f) # {}
<1> DEFINE given == {f \in Fields : IsSet(c, f)}
           n == Cardinality(given)
           order == CHOOSE s \in [1..n -> given] : IsInjective(s)
           flags == ReconstructFlags(c)
<1>1. IsFiniteSet(given) /\ n \in Nat
  BY FieldsFinite, FS_Subset, FS_CardinalityType
<1>2. \E s \in [1..n -> given] : IsInjective(s)
  BY <1>1, FS_CardinalityType DEF ExistsBijection, Bijection, Injection
<1>3. order \in [1..n -> given] /\ IsInjective(order)
  BY <1>2
<1>4. IsFiniteSet(1..n) /\ Cardinality(1..n) = n
  BY <1>1, FS_Interval
<1>5. order \in Surjection(1..n, given)
  BY <1>1, <1>3, <1>4, FS_Injection DEF Injection
<1>6. flags = [i \in DOMAIN order |-> [flag |-> order[i], value |-> Value(c, order[i])]]
  BY DEF ReconstructFlags
<1>7. DOMAIN order = 1..n
  BY <1>3
<1> HIDE DEF order
<1>8. /\ DOMAIN flags = 1..n
      /\ \A i \in 1..n : flags[i] = [flag |-> order[i], value |-> Value(c, order[i])]
  BY <1>6, <1>7
<1>9. flags \in Seq({flags[i] : i \in DOMAIN flags})
  <2>1. flags = [i \in 1..n |-> flags[i]]
    BY <1>6, <1>7, <1>8
  <2> HIDE DEF flags, n
  <2>2. \A i \in 1..n : flags[i] \in {flags[j] : j \in DOMAIN flags}
    BY <1>8
  <2> QED
    BY <1>1, <2>1, <2>2, IsASeq
<1>10. \A i \in 1..n : order[i] \in given
  BY <1>3
<1>11. \A f \in given : \E i \in 1..n : order[i] = f
  BY <1>5 DEF Surjection
<1>12. \A i \in DOMAIN flags : /\ flags[i].flag \in Fields
                               /\ IsSet(c, flags[i].flag)
                               /\ flags[i].value = Value(c, flags[i].flag)
  BY <1>8, <1>10
<1>13. \A f \in Fields : IsSet(c, f) => Where(flags, f) # {}
  <2> HIDE DEF flags
  <2> SUFFICES ASSUME NEW f \in Fields, IsSet(c, f) PROVE Where(flags, f) # {}
    OBVIOUS
  <2>1. PICK i \in 1..n : order[i] = f
    BY <1>11
  <2>2. i \in DOMAIN flags /\ flags[i].flag = f
    BY <1>8, <2>1
  <2> QED
    BY <2>2 DEF Where
<1> QED
  BY <1>9, <1>12, <1>13

-----------------------------------------------------------------------------
(* The restart.                                                            *)

\* The words of an override are a sequence, however it is written.
LEMMA FlagsListed ==
  ASSUME NEW words, Listed(words)
  PROVE  Listed(ParseOverrideFlags(words))
<1> DEFINE flags == {i \in DOMAIN words : words[i] # Stray}
           n == Cardinality(flags)
           parsed == ParseOverrideFlags(words)
<1>1. DOMAIN words = 1..Len(words) /\ Len(words) \in Nat
  BY LenProperties DEF Listed
<1>2. IsFiniteSet(flags) /\ n \in Nat
  <2>1. IsFiniteSet(1..Len(words))
    BY <1>1, FS_Interval
  <2>2. flags \in SUBSET (1..Len(words))
    BY <1>1
  <2> HIDE DEF flags
  <2>3. IsFiniteSet(flags)
    BY <2>1, <2>2, FS_Subset
  <2> QED
    BY <2>3, FS_CardinalityType
<1>3. DOMAIN parsed = 1..n /\ parsed = [k \in 1..n |-> parsed[k]]
  BY DEF ParseOverrideFlags
<1> HIDE DEF parsed, n
<1>4. \A k \in 1..n : parsed[k] \in {parsed[j] : j \in DOMAIN parsed}
  BY <1>3
<1>5. parsed \in Seq({parsed[j] : j \in DOMAIN parsed})
  BY <1>2, <1>3, <1>4, IsASeq
<1> QED
  BY <1>5 DEF Listed, parsed

LEMMA FlagWordsListed ==
  ASSUME NEW override, Listed(override.words)
  PROVE  Listed(FlagWords(override))
<1> DEFINE words == override.words
           E == {words[i] : i \in DOMAIN words} \union {Stray}
           cut == <<Stray>> \o Tail(words)
<1>1. CASE override.equals > 1 /\ words # <<>>
  <2>1. words \in Seq(E)
    BY SeqMonotonic DEF Listed
  <2>2. Tail(words) \in Seq(E) /\ <<Stray>> \in Seq(E)
    BY <1>1, <2>1, HeadTailProperties
  <2>3. cut \in Seq(E)
    BY <2>2, ConcatProperties
  <2>4. Listed(cut)
    <3> HIDE DEF cut, E
    <3>1. cut \in [1..Len(cut) -> E] /\ Len(cut) \in Nat
      BY <2>3, LenProperties
    <3>2. cut = [i \in 1..Len(cut) |-> cut[i]] /\ DOMAIN cut = 1..Len(cut)
      BY <3>1
    <3>3. \A i \in 1..Len(cut) : cut[i] \in {cut[j] : j \in DOMAIN cut}
      BY <3>2
    <3> QED
      BY <3>1, <3>2, <3>3, IsASeq DEF Listed
  <2> QED
    BY <1>1, <2>4 DEF FlagWords
<1>2. CASE ~(override.equals > 1 /\ words # <<>>)
  BY <1>2 DEF FlagWords
<1> QED
  BY <1>1, <1>2

\* A flag has the same value behind the reconstruction as behind the arguments
\* it was made from, whatever comes after.
LEMMA SameValue ==
  ASSUME NEW c, Runs(c), "args" \in DOMAIN c, Listed(c.args), NEW t, Listed(t), NEW f \in Fields
  PROVE  Value([c EXCEPT !.args = ReconstructFlags(c) \o t], f)
           = Value([c EXCEPT !.args = c.args \o t], f)
<1> DEFINE s == ReconstructFlags(c)
           E == {s[i] : i \in DOMAIN s} \union {c.args[i] : i \in DOMAIN c.args}
                  \union {t[i] : i \in DOMAIN t}
           A == [c EXCEPT !.args = s \o t]
           B == [c EXCEPT !.args = c.args \o t]
<1>1. s \in Seq(E) /\ c.args \in Seq(E) /\ t \in Seq(E)
  <2>1. /\ s \in Seq({s[i] : i \in DOMAIN s})
        /\ c.args \in Seq({c.args[i] : i \in DOMAIN c.args})
        /\ t \in Seq({t[i] : i \in DOMAIN t})
    BY Reconstructed DEF Listed
  <2> HIDE DEF s
  <2> QED
    BY <2>1, SeqMonotonic
<1>2. /\ A.args = s \o t /\ B.args = c.args \o t
      /\ A.sources = c.sources /\ B.sources = c.sources
  OBVIOUS
<1>3. /\ Occurrences(A, f) = Where(s \o t, f) /\ Occurrences(B, f) = Where(c.args \o t, f)
      /\ Occurrences(c, f) = Where(c.args, f)
      /\ Holding(A, f) = Holding(c, f) /\ Holding(B, f) = Holding(c, f)
  BY <1>2 DEF Occurrences, Where, Holding
<1>4. /\ \A i \in DOMAIN s : /\ s[i].flag \in Fields
                             /\ IsSet(c, s[i].flag)
                             /\ s[i].value = Value(c, s[i].flag)
      /\ IsSet(c, f) => Where(s, f) # {}
  BY Reconstructed
<1>5. Where(s, f) # {} => s[LastOf(Where(s, f))].value = Value(c, f) /\ IsSet(c, f)
  <2>1. /\ DOMAIN s = 1..Len(s) /\ Len(s) \in Nat
    BY <1>1, LenProperties
  <2>2. Where(s, f) # {} => LastOf(Where(s, f)) \in Where(s, f)
    <3>1. Where(s, f) \in SUBSET (1..Len(s))
      BY <2>1 DEF Where
    <3> QED
      BY <2>1, <3>1, LastOfIsLast
  <2> QED
    BY <1>4, <2>2 DEF Where
<1> HIDE DEF s, E, A, B
<1>6. LastDecides(s, t, f) /\ LastDecides(c.args, t, f)
  BY <1>1, LastWins
<1>7. CASE Where(t, f) # {}
  <2>1. /\ Where(s \o t, f) # {} /\ Where(c.args \o t, f) # {}
        /\ (s \o t)[LastOf(Where(s \o t, f))] = t[LastOf(Where(t, f))]
        /\ (c.args \o t)[LastOf(Where(c.args \o t, f))] = t[LastOf(Where(t, f))]
    BY <1>7, <1>6 DEF LastDecides
  <2> QED
    BY <1>2, <1>3, <2>1 DEF Value, A, B, s
<1>8. CASE Where(t, f) = {} /\ ~IsSet(c, f)
  <2>1. Where(s, f) = {} /\ Where(c.args, f) = {}
    BY <1>3, <1>5, <1>8 DEF IsSet
  <2>2. Where(s \o t, f) = {} /\ Where(c.args \o t, f) = {}
    BY <1>8, <1>6, <2>1 DEF LastDecides
  <2>3. Value(A, f) = BrowserFlags[f].default /\ Value(B, f) = BrowserFlags[f].default
    BY <1>3, <1>8, <2>2 DEF Value, IsSet
  <2> QED
    BY <2>3 DEF A, B, s
<1>9. CASE Where(t, f) = {} /\ IsSet(c, f)
  <2>1. /\ Where(s \o t, f) # {}
        /\ (s \o t)[LastOf(Where(s \o t, f))] = s[LastOf(Where(s, f))]
    BY <1>4, <1>9, <1>6 DEF LastDecides
  <2>2. Value(A, f) = Value(c, f)
    <3>1. Value(A, f) = s[LastOf(Where(s, f))].value
      BY <1>2, <1>3, <2>1 DEF Value
    <3> QED
      BY <1>4, <1>5, <1>9, <3>1
  <2>3. Value(B, f) = Value(c, f)
    <3>1. CASE Where(c.args, f) # {}
      <4>1. /\ Where(c.args \o t, f) # {}
            /\ (c.args \o t)[LastOf(Where(c.args \o t, f))] = c.args[LastOf(Where(c.args, f))]
        BY <1>9, <1>6, <3>1 DEF LastDecides
      <4> QED
        BY <1>2, <1>3, <3>1, <4>1 DEF Value
    <3>2. CASE Where(c.args, f) = {}
      <4>1. Where(c.args \o t, f) = {}
        BY <1>9, <1>6, <3>2 DEF LastDecides
      <4> QED
        BY <1>2, <1>3, <3>2, <4>1 DEF Value
    <3> QED
      BY <3>1, <3>2
  <2> QED
    BY <2>2, <2>3 DEF A, B, s
<1> QED
  BY <1>7, <1>8, <1>9

\* Every argument of a concatenation is accepted if those of both parts are.
LEMMA AcceptedParts ==
  ASSUME NEW E, NEW s \in Seq(E), NEW t \in Seq(E),
         \A i \in DOMAIN s : s[i].value \in BrowserFlags[s[i].flag].accepts
  PROVE  (\A i \in DOMAIN (s \o t) : (s \o t)[i].value \in BrowserFlags[(s \o t)[i].flag].accepts)
           <=> \A i \in DOMAIN t : t[i].value \in BrowserFlags[t[i].flag].accepts
<1>1. /\ Len(s) \in Nat /\ Len(t) \in Nat
      /\ DOMAIN s = 1..Len(s) /\ DOMAIN t = 1..Len(t)
      /\ s \o t \in Seq(E) /\ Len(s \o t) = Len(s) + Len(t)
      /\ \A i \in 1..Len(s) + Len(t) : (s \o t)[i] = IF i <= Len(s) THEN s[i] ELSE t[i - Len(s)]
  BY ConcatProperties, LenProperties
<1>2. DOMAIN (s \o t) = 1..(Len(s) + Len(t))
  BY <1>1, LenProperties
<1>3. \A i \in DOMAIN t : i + Len(s) \in DOMAIN (s \o t) /\ (s \o t)[i + Len(s)] = t[i]
  BY <1>1, <1>2
<1>4. \A i \in DOMAIN (s \o t) :
        \/ i \in DOMAIN s /\ (s \o t)[i] = s[i]
        \/ i - Len(s) \in DOMAIN t /\ (s \o t)[i] = t[i - Len(s)]
  BY <1>1, <1>2
<1> QED
  BY <1>3, <1>4

\* An override is the program started again, with its words at the end of the
\* command line (config.go:847-897).
LEMMA RestartedOverride ==
  ASSUME NEW c, RequestConfigFromCommand(c) # NoConfig, "args" \in DOMAIN c, Listed(c.args),
         NEW t, Listed(t)
  PROVE  BuildConfigWithOverrides(c, t)
           = RequestConfigFromCommand([c EXCEPT !.args = c.args \o t])
<1> DEFINE s == ReconstructFlags(c)
           E == {s[i] : i \in DOMAIN s} \union {c.args[i] : i \in DOMAIN c.args}
                  \union {t[i] : i \in DOMAIN t}
           A == [c EXCEPT !.args = s \o t]
           B == [c EXCEPT !.args = c.args \o t]
           accepted(args) == \A i \in DOMAIN args : args[i].value \in BrowserFlags[args[i].flag].accepts
<1>1. Runs(c)
  BY DEF RequestConfigFromCommand
<1>2. s \in Seq(E) /\ c.args \in Seq(E) /\ t \in Seq(E)
  <2>1. /\ s \in Seq({s[i] : i \in DOMAIN s})
        /\ c.args \in Seq({c.args[i] : i \in DOMAIN c.args})
        /\ t \in Seq({t[i] : i \in DOMAIN t})
    BY Reconstructed DEF Listed
  <2> HIDE DEF s
  <2> QED
    BY <2>1, SeqMonotonic
<1>3. accepted(s) /\ accepted(c.args)
  BY <1>1, Reconstructed DEF Runs
<1>4. accepted(s \o t) <=> accepted(t)
  <2> HIDE DEF s, E
  <2> QED
    BY <1>2, <1>3, AcceptedParts
<1>5. accepted(c.args \o t) <=> accepted(t)
  <2> HIDE DEF s, E
  <2> QED
    BY <1>2, <1>3, AcceptedParts
<1>6. \A f \in Fields : Value(A, f) = Value(B, f)
  BY <1>1, SameValue
<1>7. A.args = s \o t /\ B.args = c.args \o t
  OBVIOUS
<1> HIDE DEF s, E, A, B
<1>8. Runs(A) <=> Runs(B)
  BY <1>4, <1>5, <1>6, <1>7 DEF Runs
<1>9. ConfigOf(A) = ConfigOf(B)
  BY <1>6 DEF ConfigOf
<1>10. RequestConfigFromCommand(A) = RequestConfigFromCommand(B)
  BY <1>8, <1>9 DEF RequestConfigFromCommand
<1> QED
  BY <1>10 DEF BuildConfigWithOverrides, A, B, s
=============================================================================
