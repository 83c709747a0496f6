------------------------------- MODULE Book -------------------------------
(***************************************************************************)
(* The book compiler (src/app/src/pipeline/): the passes that keep state   *)
(* from one page to the next. The build (build.ts) compiles every page of  *)
(* a language in order with one context; the development server (dev.ts)   *)
(* compiles the page it is asked for, with a context of its own but for    *)
(* the bibliography, which all requests of both languages share, and with  *)
(* labels it has loaded once, while the author goes on editing any page.   *)
(*                                                                         *)
(* A page is what its passes see: what it defines and what it refers to. A *)
(* reference is a pair of what it is to and a key, and so is the anchor it *)
(* leads to. Wording, headings, captions and the index of techniques are   *)
(* left out; a chapter's number is in the labels of what it defines.       *)
(***************************************************************************)
EXTENDS Naturals, Sequences, FiniteSets, SequencesExt, FiniteSetsExt, Lists

CONSTANTS Books,    \* language -> its manifest: pages [href, there, numbered, sec, figs, refs]
          Texts,    \* what an edit may make of a page [numbered, sec, figs, refs]
          Terms,    \* keys of the glossary
          Sources,  \* keys of the bibliography
          MaxEdits,
          None

VARIABLES text,     \* language -> the loaded pages, as they are on disk
          xref,     \* language -> what buildCrossref made of them
          lang, at, \* the page the build is at; lang is "dev" when it is through
          ctx,      \* the context of the build's language
          site,     \* language -> the pages written
          cited,    \* bib.cited of the development server
          edits,
          served    \* its last answer, if no edit came after it

vars == <<text, xref, lang, at, ctx, site, cited, edits, served>>

Langs == {"en", "zh"}
Aggregates == {"glossary", "references"}

\* A page as its manifest lists it.
Refs   == Seq({"xref", "gls", "cite"} \X STRING)
BookChapter == [href: STRING \ {""}, there: BOOLEAN, numbered: BOOLEAN,
                sec: STRING \cup {None}, figs: Seq(STRING), refs: Refs]

\* What its source says of it.
Source == [numbered: BOOLEAN, sec: STRING \cup {None}, figs: Seq(STRING), refs: Refs]

\* "Book order ends with the back matter": the lists of terms and of sources, after
\* which neither is referred to.
Manifest(listed) ==
  /\ listed \in Seq(BookChapter)
  /\ \A h \in Aggregates : \E i \in DOMAIN listed : listed[i].href = h /\ listed[i].there
  /\ \A i, j \in DOMAIN listed : i < j /\ listed[i].href \in Aggregates =>
       \A k \in DOMAIN listed[j].refs : listed[j].refs[k][1] = "xref"

----------------------------------------------------------------------------
(* loadBook and buildCrossref.                                             *)

\* A page whose source is missing is skipped.
Loaded(listed) == Kept(listed, {p \in ToSet(listed) : p.there})

Num(pages, i) ==
  IF pages[i].numbered THEN Cardinality({j \in 1 .. i : pages[j].numbered}) ELSE 0

\* A section is of the last page that has it, a figure of the first.
Sections(pages) == {pages[i].sec : i \in DOMAIN pages} \ {None}
Figures(pages)  == UNION {ToSet(pages[i].figs) : i \in DOMAIN pages}
Owner(pages, id) ==
  IF id \in Sections(pages)
    THEN Max({i \in DOMAIN pages : pages[i].sec = id})
    ELSE Min({i \in DOMAIN pages : id \in ToSet(pages[i].figs)})

\* The figures of a page that no page before it has, up to this one.
FigN(pages, id) ==
  LET figs == pages[Owner(pages, id)].figs
      first == Min({k \in DOMAIN figs : figs[k] = id})
  IN  Cardinality({f \in {figs[k] : k \in 1 .. first} : Owner(pages, f) = Owner(pages, id)})

Crossref(pages) ==
  [id \in Sections(pages) \cup Figures(pages) |->
     LET i == Owner(pages, id)
     IN  [href |-> pages[i].href, anchor |-> <<"xref", id>>,
          label |-> IF id \in Sections(pages) THEN <<Num(pages, i)>>
                    ELSE <<Num(pages, i), FigN(pages, id)>>]]

----------------------------------------------------------------------------
(* compileChapter.                                                         *)

\* A link, with an empty page where it stays on its page.
Link(href, anchor)  == [page |-> href, anchor |-> anchor]
relHref(target, current) ==
  Link(IF target.href = current THEN "" ELSE target.href, target.anchor)

Missing == Link("missing", << >>)

Fresh == [firsts |-> << >>, cited |-> {}]

\* The rule for a reference, after those before it on the page: what it shows (a
\* label, or a term in full where the page has not seen it), the terms seen, and
\* the first uses and the sources of the book.
Inlined(acc, ref, here, known) ==
  LET key == ref[2]
      shown(label, full, link) ==
        Append(acc.items, [ref |-> ref, label |-> label, full |-> full, link |-> link])
  IN  CASE ref[1] = "xref" /\ key \in DOMAIN known ->
             [acc EXCEPT !.items = shown(known[key].label, FALSE, relHref(known[key], here))]
        [] ref[1] = "gls" /\ key \in Terms ->
             [acc EXCEPT
                !.items  = shown(<< >>, key \notin acc.seen, Link("glossary", ref)),
                !.seen   = @ \cup {key},
                !.firsts = IF \E i \in DOMAIN @ : @[i].key = key THEN @
                           ELSE Append(@, [key |-> key, href |-> here])]
        [] ref[1] = "cite" /\ key \in Sources ->
             [acc EXCEPT !.items = shown(<< >>, FALSE, Link("references", ref)),
                         !.cited = @ \cup {key}]
        [] OTHER -> [acc EXCEPT !.items = shown(<< >>, FALSE, Missing)]

\* prevNext.
Neighbours(pages, i) ==
  {pages[j].href : j \in {i - 1, i + 1} \cap DOMAIN pages}

\* The references of a page, in order, from a context on.
InlineRefs(page, known, c) ==
  LET after[n \in 0 .. Len(page.refs)] ==
        IF n = 0 THEN [items |-> << >>, seen |-> {}, firsts |-> c.firsts, cited |-> c.cited]
        ELSE Inlined(after[n - 1], page.refs[n], page.href, known)
  IN  after[Len(page.refs)]

Compiled(pages, i, known, c) ==
  LET page == pages[i]
      r == InlineRefs(page, known, c)
  IN  [ctx |-> [firsts |-> r.firsts, cited |-> r.cited],
       html |-> [href |-> page.href, items |-> r.items,
                 near |-> Neighbours(pages, i),
                 terms |-> IF page.href = "glossary" THEN r.firsts ELSE << >>,
                 ids  |-> {<<"xref", id>> : id \in ({page.sec} \ {None}) \cup ToSet(page.figs)}
                          \cup (IF page.href # "glossary" THEN {}
                                ELSE {<<"gls", r.firsts[j].key>> : j \in DOMAIN r.firsts})
                          \cup (IF page.href # "references" THEN {}
                                ELSE {<<"cite", k>> : k \in r.cited})]]

\* Every page in order, from a context on.
Pass(pages, known, c) ==
  LET after[n \in 0 .. Len(pages)] ==
        IF n = 0 THEN [ctx |-> c, htmls |-> << >>]
        ELSE LET acc == after[n - 1]
                 r   == Compiled(pages, n, known, acc.ctx)
             IN  [ctx |-> r.ctx, htmls |-> Append(acc.htmls, r.html)]
  IN  after[Len(pages)]

Init ==
  /\ \E b \in Books : /\ text = [l \in Langs |-> Loaded(b[l])]
                      /\ xref = [l \in Langs |-> Crossref(Loaded(b[l]))]
  /\ lang = "en" /\ at = 1 /\ ctx = Fresh
  /\ site = [l \in Langs |-> << >>]
  /\ cited = {} /\ edits = 0 /\ served = << >>

----------------------------------------------------------------------------
(* build.ts.                                                               *)

\* Mutant: a context for each page.
Context_EachPage(i) == Fresh

Context(i) == ctx

WritePage ==
  /\ lang \in Langs /\ at <= Len(text[lang])
  /\ LET r == Compiled(text[lang], at, xref[lang], Context(at))
     IN  /\ site' = [site EXCEPT ![lang] = Append(@, r.html)]
         /\ ctx' = r.ctx
  /\ at' = at + 1
  /\ UNCHANGED <<text, xref, lang, cited, edits, served>>

NextLanguage ==
  /\ lang \in Langs /\ at > Len(text[lang])
  /\ lang' = IF lang = "en" THEN "zh" ELSE "dev"
  /\ at' = 1 /\ ctx' = Fresh
  /\ UNCHANGED <<text, xref, site, cited, edits, served>>

----------------------------------------------------------------------------
(* dev.ts: the manifests, the labels and the bibliography are loaded once, *)
(* the pages are read for every answer.                                    *)

Answer(l, kind, htmls, cites) ==
  /\ served' = <<[lang |-> l, kind |-> kind, htmls |-> htmls]>>
  /\ cited' = cites
  /\ UNCHANGED <<text, xref, lang, at, ctx, site, edits>>

\* Mutant: the pass for a list starts with the sources of other answers.
Cleared_Not == cited

Cleared == {}

\* compilePage: a list of the whole book takes a pass over the whole book.
Page(l, i) ==
  /\ lang = "dev" /\ i \in DOMAIN text[l]
  /\ IF text[l][i].href \in Aggregates
       THEN LET r == Pass(text[l], xref[l], [Fresh EXCEPT !.cited = Cleared])
            IN  Answer(l, "page", <<r.htmls[i]>>, r.ctx.cited)
       ELSE LET r == Compiled(text[l], i, xref[l], [Fresh EXCEPT !.cited = cited])
            IN  Answer(l, "page", <<r.html>>, r.ctx.cited)

Search(l) ==
  /\ lang = "dev"
  /\ LET r == Pass(text[l], xref[l], [Fresh EXCEPT !.cited = cited])
     IN  Answer(l, "search", r.htmls, r.ctx.cited)

\* The author rewrites a page, its heading, its figures and what it refers to. Edits
\* of book.yml, of the glossary and of the bibliography, of which the server sees
\* nothing, and removed files, on which it fails, are left out.
Edit(l, i) ==
  /\ lang = "dev" /\ edits < MaxEdits /\ i \in DOMAIN text[l]
  /\ \E new \in Texts :
       text' = [text EXCEPT ![l][i] = [@ EXCEPT !.numbered = new.numbered, !.sec = new.sec,
                                                !.figs = new.figs, !.refs = new.refs]]
  /\ edits' = edits + 1
  /\ served' = << >>
  /\ UNCHANGED <<xref, lang, at, ctx, site, cited>>

Next ==
  \/ WritePage \/ NextLanguage
  \/ \E l \in Langs : Search(l) \/ \E i \in 1 .. Len(text[l]) : Page(l, i) \/ Edit(l, i)

----------------------------------------------------------------------------
(* Properties.                                                             *)

\* Where a link of a page leads: to a page that is there and has the anchor.
Lands(pages, from, link) ==
  \E i \in DOMAIN pages :
    /\ pages[i].href = (IF link.page = "" THEN from ELSE link.page)
    /\ link.anchor \in pages[i].ids

\* Every link the build writes lands in the site it has written, whichever page
\* defines, uses first or cites last what it leads to, a term's page of first use
\* does use it, and no two figures or chapters with a number have one label.
LinksLand ==
  /\ \A l \in Langs : lang = "dev" \/ (l = "en" /\ lang = "zh") =>
       LET pages == site[l] IN
       \A i \in DOMAIN pages :
         /\ \A j \in DOMAIN pages[i].items :
              LET it == pages[i].items[j]
              IN  it.link # Missing => Lands(pages, pages[i].href, it.link)
         /\ \A j \in DOMAIN pages[i].terms :
              \E k \in DOMAIN pages :
                /\ pages[k].href = pages[i].terms[j].href
                /\ \E m \in DOMAIN pages[k].items :
                     pages[k].items[m].link.anchor = <<"gls", pages[i].terms[j].key>>
         /\ pages[i].near \subseteq {pages[k].href : k \in DOMAIN pages}
  /\ \A l \in Langs : \A x, y \in DOMAIN xref[l] :
       xref[l][x].label = xref[l][y].label => x = y \/ xref[l][x].label[1] = 0

\* A build of what is on disk now, with the labels of what is on disk now.
Built(l) == IF edits = 0 THEN site[l] ELSE Pass(text[l], Crossref(text[l]), Fresh).htmls

\* The sections and figures that edits have added, removed, given to another page or
\* numbered anew since the server was started.
Relabelled(l) ==
  LET now == Crossref(text[l])
  IN  {id \in DOMAIN xref[l] \cup DOMAIN now :
         ~ (id \in DOMAIN xref[l] /\ id \in DOMAIN now /\ xref[l][id] = now[id])}

\* A page like the build's, but for references to these.
Like(html, built, relabelled) ==
  /\ html.href = built.href /\ html.near = built.near /\ html.terms = built.terms
  /\ DOMAIN html.items = DOMAIN built.items
  /\ \A j \in DOMAIN built.items :
       LET ref == built.items[j].ref
       IN  \/ html.items[j] = built.items[j]
           \/ html.items[j].ref = ref /\ ref[1] = "xref" /\ ref[2] \in relabelled

\* The development server answers with what a build of what is on disk now would
\* write, whatever it has been asked for and in whichever language before and
\* whichever pages have been edited, but for how references to relabelled sections and
\* figures are shown; its index of search has all sources that are cited, and besides
\* only sources that earlier answers cited.
DevAsBuilt ==
  \A a \in ToSet(served) :
    LET built == Built(a.lang)
        relabelled == Relabelled(a.lang)
    IN  IF a.kind = "page"
          THEN \E i \in DOMAIN built : Like(a.htmls[1], built[i], relabelled)
                                       /\ a.htmls[1].ids = built[i].ids
          ELSE /\ Len(a.htmls) = Len(built)
               /\ \A i \in DOMAIN built :
                    /\ Like(a.htmls[i], built[i], relabelled)
                    /\ IF built[i].href # "references" THEN a.htmls[i].ids = built[i].ids
                       ELSE /\ built[i].ids \subseteq a.htmls[i].ids
                            /\ a.htmls[i].ids \ built[i].ids \subseteq {<<"cite", k>> : k \in cited}

\* "The search index, built on demand to mirror build.ts's _book/{lang}/search.json.
\* Recomputed each request (cheap relative to a full book pass) so edits show up
\* without a restart" (dev.ts): it is the index a build of what is on disk now writes.
SearchMirrorsBuild ==
  \A a \in ToSet(served) : a.kind = "search" => a.htmls = Built(a.lang)
===========================================================================
