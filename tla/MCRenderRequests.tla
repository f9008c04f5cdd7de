-------------------------- MODULE MCRenderRequests ---------------------------
(***************************************************************************)
(* Command lines and queries.                                              *)
(***************************************************************************)
EXTENDS RenderRequests, TLC

Word(f, v) == [flag |-> f, value |-> v]
Override(p, n, words) == [pattern |-> p, equals |-> n, words |-> words]

Plain == [args |-> <<>>, sources |-> <<>>, overrides |-> <<>>, headers |-> [h \in {} |-> h],
          timeZone |-> UTC, encoding |-> "pdf"]

\* Two overrides match the same url, the first wins; the second leaves its
\* maximum and resets a scale that the environment sets.
Overridden ==
  [Plain EXCEPT
    !.args = <<Word("MinWidth", 200), Word("MaxWidth", 800), Word("MinWidth", 400)>>,
    !.sources = << [PageScaleFactor |-> 15], <<>>, <<>>, [PageScaleFactor |-> 45, MaxHeight |-> -1] >>,
    !.headers = [h \in {"X-Team"} |-> "a"],
    !.overrides = << Override("dash", 1, <<Stray, Word("MinHeight", 300), Word("MaxWidth", 500)>>),
                     Override("all", 1, <<Word("PageScaleFactor", 10), Word("MaxWidth", -1),
                                          Word("PageScaleFactor", 20)>>) >>]

\* The files only, in their order; the pattern has an equals sign.
Files ==
  [Plain EXCEPT
    !.sources = << <<>>, [MinHeight |-> 600, Landscape |-> TRUE],
                   [MinHeight |-> Garbage, MaxHeight |-> 600], <<>> >>,
    !.headers = [h \in {"Accept-Language"} |-> "en"],
    !.encoding = "png",
    !.overrides = << Override("dash", 2, <<Word("MinHeight", 700), Word("MaxPageScaleFactor", 20)>>) >>]

\* Command lines the program refuses.
Refusals == {
  [Plain EXCEPT !.args = <<Word("MinWidth", 3500)>>],
  [Plain EXCEPT !.args = <<Word("MinWidth", 50), Word("MinWidth", 500)>>],
  [Plain EXCEPT !.sources = << [MinHeight |-> Garbage] >>],
  [Plain EXCEPT !.overrides = << Override("dash", 1, <<Word("PageScaleFactor", 50)>>) >>],
  [Plain EXCEPT !.overrides = << Override("dash", 1, <<Word("ReadinessIterationInterval", 0)>>) >>],
  [Plain EXCEPT !.overrides = << Override("dash", 1, <<Word("MinWidth", 200), Stray>>) >>],
  [Plain EXCEPT !.overrides = << Override("dash", 0, <<>>) >>],
  [Plain EXCEPT !.overrides = << Override("[", 1, <<>>) >>],
  [Plain EXCEPT !.timeZone = Garbage],
  [Plain EXCEPT !.encoding = "gif"] }

AllCommands == {Plain, Overridden, Files} \union Refusals

Empty == [csv |-> FALSE, url |-> "dash", width |-> Absent, height |-> Absent, timeout |-> Absent,
          scale |-> Absent, timeZone |-> Absent, landscape |-> Absent, cookie |-> Absent,
          encoding |-> Absent, paper |-> Absent, pdfLandscape |-> Absent, language |-> Absent,
          polling |-> Absent]

AllQueries == {
  Empty,
  [Empty EXCEPT !.width = 5000, !.height = 50, !.scale = 100, !.landscape = FALSE],
  [Empty EXCEPT !.width = 450, !.encoding = "png", !.language = "fr", !.cookie = "ipv6"],
  [Empty EXCEPT !.width = 900, !.height = 450, !.encoding = "png", !.url = "home", !.polling = TRUE],
  [Empty EXCEPT !.landscape = TRUE, !.encoding = "pdf", !.pdfLandscape = FALSE, !.paper = "a3"],
  [Empty EXCEPT !.timeout = 3, !.timeZone = "Berlin", !.language = "de", !.url = "home"],
  [Empty EXCEPT !.scale = 0, !.language = "de", !.timeZone = Garbage],
  [Empty EXCEPT !.csv = TRUE, !.language = "fr"],
  [Empty EXCEPT !.csv = TRUE, !.cookie = "host", !.timeout = 0, !.encoding = "csv"],
  [Empty EXCEPT !.timeout = 4], [Empty EXCEPT !.timeout = -1], [Empty EXCEPT !.width = Garbage],
  [Empty EXCEPT !.encoding = "pdf", !.paper = "a9"], [Empty EXCEPT !.encoding = "gif"],
  [Empty EXCEPT !.csv = TRUE, !.encoding = "pdf"] }

MatchingPatterns == [u \in {"dash", "home"} |-> IF u = "dash" THEN {"dash", "all"} ELSE {"all"}]

Interchangeable == Permutations(Requests)
=============================================================================
