------------------------------ MODULE MCSite ------------------------------
(***************************************************************************)
(* A site to check: files as a build writes them, the URLs of old and of   *)
(* present chapters, and books of five pages.                              *)
(***************************************************************************)
EXTENDS Site

MCSlugs == {"training-agents-to-act", "verification-frontier", "beyond-text",
            "wiring-a-2026-stack", "wiring-the-application-stack", "roofline", "index",
            "nope"}

En == Seg("en")

\* A page as the build writes it: HTML, its Markdown twin, precompressed siblings.
PageFiles(path) ==
  {WithExt(path, "html"), WithExt(path, "md"),
   WithExt(WithExt(path, "html"), "gz"), WithExt(WithExt(path, "md"), "gz")}

Pages == {<<En, Seg("index")>>, <<Seg("zh"), Seg("index")>>,
          <<En, Seg("infrastructure")>>, <<En, Seg("practice")>>,
          <<En, Seg("infrastructure"), Seg("roofline")>>,
          <<En, Seg("orchestration"), Seg("training-agents-to-act")>>,
          <<En, Seg("frontiers"), Seg("verification-frontier")>>,
          <<En, Seg("generative"), Seg("beyond-text")>>,
          <<En, Seg("practice"), Seg("wiring-the-application-stack")>>}

MCFiles == UNION {PageFiles(p) : p \in Pages}
             \cup {<<Dotted("404", "html")>>, <<Dotted("agentweb", "json")>>,
                   <<Dotted("favicon", "svg")>>,
                   <<En, Dotted("search", "json")>>,
                   WithExt(<<En, Dotted("search", "json")>>, "gz"),
                   <<En, Seg("figures"), Dotted("roofline", "svg")>>}

MCDocs == {<<Dotted("robots", "txt")>>, <<Dotted("llms", "txt")>>,
           <<Seg("zh"), Dotted("llms", "txt")>>}

---------------------------------------------------------------------------
(* URLs: old and present parts, every chapter name in each of them, with or *)
(* without number, suffixes and slash, whether a file is there or not.      *)

Dirs == {"p3-reasoning", "p5-orchestration", "p7-infrastructure", "p10-practical", "p11-frontiers",
         "p12-operations", "infrastructure", "practice", "frontiers", "generative",
         "orchestration", "figures"}

Leaves == [name: MCSlugs, num: BOOLEAN,
           ext: {<< >>, <<"html">>, <<"md">>, <<"svg">>, <<"html", "gz">>}]

Tops == {Seg(d) : d \in {"index", "infrastructure", "practice", "nope", "404"}}
          \cup {Dotted(n, e) : n \in {"index", "infrastructure", "404", "llms"},
                               e \in {"html", "md", "txt"}}
          \cup {Dotted("search", "json"), Dotted("agentweb", "json"),
                Dotted("favicon", "svg"), Dotted("robots", "txt"),
                [name |-> "search", num |-> FALSE, ext |-> <<"json", "gz">>]}

Roots == {<<>>, <<En>>, <<Seg("zh")>>, <<Seg("xx")>>}

Bare == {<<En, Seg(d), l>> : d \in Dirs, l \in Leaves}
          \cup {Append(r, t) : r \in Roots, t \in Tops}
          \cup {<<En>>, <<Seg("zh")>>}
          \cup {<<En, Seg("infrastructure"), Seg("nope"), Seg("deeper")>>,
                <<Seg("safety"), Seg("practice"), Seg("roofline")>>}
          \cup AuthRoutes
          \cup {<<Seg("api"), Seg("me")>>, <<Seg("v1"), Seg("telemetry"), Seg("traces")>>}

MCUrls == {<<Empty>>} \cup Bare \cup {Append(p, Empty) : p \in Bare}

----------------------------------------------------------------------------
(* Books: a preface, two chapters, and the lists at the end.               *)

Sheet(href, numbered, sec, figs, refs) ==
  [href |-> href, there |-> TRUE, numbered |-> numbered, sec |-> sec, figs |-> figs,
   refs |-> refs]

\* What a chapter may refer to: to itself and the other, to terms twice or in
\* another order, to sources, and to what nobody defines.
MCTexts ==
  { << <<"gls", "t1">>, <<"gls", "t1">>, <<"cite", "k1">>, <<"xref", "fig-b">> >>,
    << <<"gls", "t2">>, <<"gls", "t1">>, <<"xref", "sec-a">>, <<"xref", "fig-z">> >>,
    << <<"cite", "k2">>, <<"cite", "k3">>, <<"gls", "t3">>, <<"xref", "fig-a">> >> }

\* What an edit makes of a page, any of them: a section renamed and a figure gone, a
\* chapter that no longer counts and takes the other's section and figure, and one
\* with no section, that has what nobody defined.
MCEdits ==
  { [numbered |-> TRUE, sec |-> "sec-d", figs |-> <<"fig-c">>,
     refs |-> << <<"gls", "t2">>, <<"xref", "sec-a">> >>],
    [numbered |-> FALSE, sec |-> "sec-b", figs |-> <<"fig-b", "fig-a">>,
     refs |-> << <<"cite", "k2">>, <<"xref", "fig-a">> >>],
    [numbered |-> TRUE, sec |-> None, figs |-> <<"fig-z">>,
     refs |-> << <<"gls", "t1">>, <<"xref", "sec-b">> >>] }

\* The second chapter may have a figure of the first as well, and may not be
\* translated yet.
Contents(refsA, refsB, figsB, there) ==
  << Sheet("index", FALSE, "sec-preface", << >>, << <<"xref", "sec-b">> >>),
     Sheet("a", TRUE, "sec-a", <<"fig-a", "fig-c">>, refsA),
     [Sheet("b", TRUE, "sec-b", figsB, refsB) EXCEPT !.there = there],
     Sheet("glossary", FALSE, "sec-glossary", << >>, << >>),
     Sheet("references", FALSE, "sec-references", << >>, << >>) >>

MCBooks ==
  {[l \in {"en", "zh"} |-> Contents(ra, rb, figs, l = "en" \/ translated)] :
     ra \in MCTexts, rb \in MCTexts, translated \in BOOLEAN,
     figs \in {<<"fig-b">>, <<"fig-a", "fig-b">>}}
============================================================================
