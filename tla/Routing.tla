------------------------------ MODULE Routing ------------------------------
(***************************************************************************)
(* The site's router (src/main.go: serve, serveStatic; src/route.go:       *)
(* routeOf, resolves): which of a redirect, a file of the built book, a    *)
(* dynamic handler or the not-found page a URL is answered with, what a    *)
(* browser that follows the redirects comes to, and the template the URL   *)
(* is reported under.                                                      *)
(*                                                                         *)
(* A URL is the sequence of its segments, with an empty last segment for a *)
(* trailing slash; a segment is a name, with or without an old chapter     *)
(* number before it, and the suffixes after it.                            *)
(***************************************************************************)
EXTENDS Naturals, Sequences, SequencesExt

CONSTANTS Urls,      \* the URLs browsers start from
          Files,     \* the files of the built book
          Docs,      \* the generated documents (agentDocs)
          Slugs,     \* chapter names
          AssetExts  \* suffixes of content-addressed assets

VARIABLES url,       \* the URL the browser asks for
          answer,    \* the server's answer, or NoAnswer
          dynamic,   \* which dynamic routes this server has
          lang       \* the language the browser's cookie has, if not English

vars == <<url, answer, dynamic, lang>>

Names == STRING
Segment == [name: Names, num: BOOLEAN, ext: Seq(Names)]

Seg(name)      == [name |-> name, num |-> FALSE, ext |-> << >>]
Dotted(name, e) == [name |-> name, num |-> FALSE, ext |-> <<e>>]
Empty     == Seg("")
IndexHtml == Dotted("index", "html")
LangSegs  == {Seg("en"), Seg("zh")}

ASSUME FilesAssumption ==
  /\ \A f \in Files : f \in Seq(Segment) /\ f # << >> /\ Empty \notin {f[i] : i \in DOMAIN f}
  /\ \A u \in Urls : u \in Seq(Segment) /\ u # << >>

---------------------------------------------------------------------------
(* URLs.                                                                   *)

Slashed(p)    == Last(p) = Empty
HasExt(p, e)  == Last(p).ext # << >> /\ Last(Last(p).ext) = e
WithExt(p, e) == [p EXCEPT ![Len(p)].ext = Append(@, e)]
CutExt(p)     == [p EXCEPT ![Len(p)].ext = Front(@)]
Unslashed(p)  == IF Slashed(p) THEN Front(p) ELSE p
Asset(p)      == \E e \in AssetExts : HasExt(p, e)

\* Answers.
NoAnswer    == [kind |-> "none", to |-> << >>]
Redirect(p) == [kind |-> "redirect", to |-> p]
File(f)     == [kind |-> "file", to |-> f]
Handler     == [kind |-> "handler", to |-> << >>]
NotFound    == [kind |-> "notfound", to |-> << >>]  \* the not-found page
NoAsset     == [kind |-> "noasset", to |-> << >>]   \* a plain 404

---------------------------------------------------------------------------
(* The redirects of old parts and renamed chapters, first match wins.      *)

Moved(dirs, slugs, to)  == [dirs |-> dirs, slugs |-> slugs, to |-> to, slug |-> ""]
Renamed(dirs, slug, to, new) == [dirs |-> dirs, slugs |-> {slug}, to |-> to, slug |-> new]

Exceptions ==
  << Moved({"p3-reasoning"}, {"training-agents-to-act"}, "orchestration"),
     Moved({"infrastructure", "p7-infrastructure", "p11-frontiers"},
           {"where-learning-hits-limits", "the-capability-horizon",
            "verification-frontier"}, "frontiers"),
     Moved({"p11-frontiers"},
           {"beyond-text", "diffusion-flow-matching", "speech-and-voice",
            "nar-diffusion-lms", "multimodal-models"}, "generative"),
     Renamed({"practice", "p10-practical"}, "wiring-a-2026-stack",
             "practice", "wiring-the-application-stack") >>

\* Mutant: the rule for one part keeps the part's old name.
Parts_Kept == << <<"p5-orchestration", "p5-orchestration">> >>

Parts == << <<"p0-orientation", "orientation">>, <<"p1-foundations", "foundations">>,
            <<"p2-adaptation", "adaptation">>, <<"p3-reasoning", "reasoning">>,
            <<"p4-inference", "inference">>, <<"p5-orchestration", "orchestration">>,
            <<"p6-evaluation", "evaluation">>, <<"p7-infrastructure", "infrastructure">>,
            <<"p8-safety", "safety">>, <<"p9-ecosystem", "ecosystem">>,
            <<"p10-practical", "practice">>, <<"p11-frontiers", "infrastructure">>,
            <<"p12-generative", "generative">>, <<"p12-operations", "practice">>,
            <<"p13-operations", "practice">> >>

Bulk == [i \in DOMAIN Parts |-> Moved({Parts[i][1]}, Slugs, Parts[i][2])]

\* Mutant: the rules for whole parts come first.
Redirects_BulkFirst == Bulk \o Exceptions

Redirects == Exceptions \o Bulk

\* A rule's pattern absorbs the chapter number, .html and a trailing slash.
Matches(rule, p) ==
  LET q == Unslashed(p) IN
  /\ Len(q) = 3
  /\ q[1] \in LangSegs
  /\ q[2] \in {Seg(d) : d \in rule.dirs}
  /\ q[3].name \in rule.slugs /\ q[3].ext \in {<< >>, <<"html">>}

Target(rule, p) ==
  <<p[1], Seg(rule.to), Seg(IF rule.slug = "" THEN p[3].name ELSE rule.slug)>>

Legacy(p) == \E i \in DOMAIN Redirects : Matches(Redirects[i], p)

Moves(p) == Target(Redirects[SelectInSeq(Redirects, LAMBDA r : Matches(r, p))], p)

---------------------------------------------------------------------------
(* serveStatic: the clean URL's file, as the file system has it.           *)

Exists(name) == name \in Files /\ name # <<Dotted("404", "html")>>

Written(name) == Exists(name) /\ ~HasExt(name, "gz") \* writeFile

\* Mutant: a page answers under both spellings, with the slash and without.
AnswerSlashed_BothSpellings(p) ==
  LET page == WithExt(Front(p), "html") IN
  IF Written(Append(Front(p), IndexHtml)) THEN File(Append(Front(p), IndexHtml))
  ELSE IF Front(p) # << >> /\ Written(page) THEN File(page)
  ELSE IF Front(p) # << >> /\ Exists(Front(p)) THEN Redirect(Front(p))
  ELSE NotFound

\* Mutant: a slash is taken away without a look at what is there.
AnswerSlashed_Blind(p) ==
  IF Written(Append(Front(p), IndexHtml)) THEN File(Append(Front(p), IndexHtml))
  ELSE IF Front(p) # << >> THEN Redirect(Front(p))
  ELSE NotFound

AnswerSlashed(p) == \* the directory form: its index, or the page without the slash
  LET index == Append(Front(p), IndexHtml) IN
  IF Written(index) THEN File(index)
  ELSE IF Front(p) # << >> /\ (Exists(Front(p)) \/ Exists(WithExt(Front(p), "html")))
       THEN Redirect(Front(p))
       ELSE NotFound

AnswerPage(p) == \* the file form: the name, its page, or the directory
  IF Written(p) THEN File(p)
  ELSE IF Written(WithExt(p, "html")) THEN File(WithExt(p, "html"))
  ELSE IF Exists(Append(p, IndexHtml)) THEN Redirect(Append(p, Empty))
  ELSE NotFound

ServeStatic(p) ==
  IF Asset(p) THEN (IF Written(p) THEN File(p) ELSE NoAsset)
  ELSE IF Slashed(p) THEN AnswerSlashed(p)
  ELSE AnswerPage(p)

---------------------------------------------------------------------------
(* serve: dynamic routes before the redirects, these before the files.     *)

Relayed(p) == Len(p) > 2 /\ p[1] = Seg("v1") /\ p[2] = Seg("telemetry")

AuthRoutes == {<<Seg("login")>>, <<Seg("callback")>>, <<Seg("logout")>>,
               <<Seg("logout"), Seg("notify")>>}

Owns(p) == \/ dynamic # "none" /\ Len(p) > 1 /\ p[1] = Seg("api")
           \/ dynamic = "login" /\ p \in AuthRoutes

Served(p) ==
  IF p \in Docs \/ Relayed(p) \/ Owns(p) THEN Handler
  ELSE IF p = <<Empty>> THEN Redirect(<<lang, Empty>>) \* apexTarget
  ELSE IF Legacy(p) THEN Redirect(Moves(p))
  ELSE IF Last(p) = IndexHtml THEN Redirect(Append(Front(p), Empty))
  ELSE IF HasExt(p, "html") THEN Redirect(CutExt(p))
  ELSE ServeStatic(p)

---------------------------------------------------------------------------
(* routeOf: the template a request is reported under, without serving it.  *)

(* A template is written as a URL, with names in braces for what varies.   *)

Unknown == <<Seg("{unknown}")>>

Lang(p) == IF p[1] \in LangSegs THEN <<p[1]>> ELSE << >>

\* Mutant: a precompressed sibling is taken for a page.
Resolves_Gz(p) ==
  IF Slashed(p)
  THEN \/ Exists(Append(Front(p), IndexHtml))
       \/ Front(p) # << >> /\ (Exists(Front(p)) \/ Exists(WithExt(Front(p), "html")))
  ELSE Exists(p) \/ Exists(WithExt(p, "html")) \/ Exists(Append(p, IndexHtml))

Resolves(p) ==
  /\ ~HasExt(p, "gz")
  /\ IF Slashed(p)
     THEN \/ Exists(Append(Front(p), IndexHtml))
          \/ Front(p) # << >> /\ (Exists(Front(p)) \/ Exists(WithExt(Front(p), "html")))
     ELSE Exists(p) \/ Exists(WithExt(p, "html")) \/ Exists(Append(p, IndexHtml))

Rest(p) == \* without the language and the slashes
  SubSeq(Unslashed(p), Len(Lang(p)) + 1, Len(Unslashed(p)))

Shape(rest) ==
  IF Len(rest) = 1 THEN <<Seg("{page}")>>
  ELSE IF Len(rest) = 2 THEN <<Seg("{part}"), Seg("{chapter}")>>
  ELSE <<Seg("{path}")>>

Template(rest) ==
  IF rest = << >> THEN <<Empty>>
  ELSE IF HasExt(rest, "md")
       THEN (IF rest = <<Dotted("index", "md")>> THEN rest ELSE WithExt(Shape(rest), "md"))
  ELSE IF Len(rest) = 1 /\ rest[1].ext # << >> THEN rest \* a build file beside the pages
  ELSE Shape(rest)

RouteOf(p) ==
  IF p = <<Empty>> \/ p \in Docs \/ (p \in AuthRoutes /\ Owns(p)) THEN p
  ELSE IF Relayed(p) THEN <<p[1], p[2], Seg("{signal}")>>
  ELSE IF Owns(p) THEN <<Seg("api"), Seg("{endpoint}")>>
  ELSE IF Legacy(p) THEN Append(Lang(p), Seg("{legacy}"))
  ELSE IF HasExt(p, "html") THEN Append(Lang(p), Dotted("{page}", "html"))
  ELSE IF Asset(p) THEN <<Dotted("{asset}", Last(Last(p).ext))>>
  ELSE IF ~Resolves(p) THEN Unknown
  ELSE Lang(p) \o Template(Rest(p))

---------------------------------------------------------------------------
(* What the build writes.                                                  *)

\* The one URL a file is served under.
Clean(f) == IF Last(f) = IndexHtml THEN Append(Front(f), Empty)
            ELSE IF HasExt(f, "html") THEN CutExt(f)
            ELSE f

\* Pages are not called as assets or precompressed siblings are and have a name, a
\* chapter is no directory, and the book has nothing where the server's own routes and
\* documents are, which are files by their names (robots.txt, sitemap.xml, llms.txt).
ASSUME BuildAssumption ==
  /\ \A f \in Files :
       /\ HasExt(f, "html") => /\ ~HasExt(CutExt(f), "gz") /\ ~Asset(CutExt(f))
                               /\ Last(CutExt(f)) # Empty
       /\ Last(f) = IndexHtml => Len(f) # 4 /\ (Len(f) > 1 => ~HasExt(Front(f), "gz"))
       /\ f[1] \notin {Seg("api"), Seg("v1")}
       /\ {f, Clean(f)} \cap (Docs \cup AuthRoutes) = {}
  /\ \A d \in Docs : Last(d).ext # << >>

---------------------------------------------------------------------------
(* A browser asks for a URL and follows the redirects it is answered.      *)

TypeOK == /\ url \in Seq(Segment) /\ url # << >>
          /\ answer.kind \in {"none", "redirect", "file", "handler", "notfound", "noasset"}
          /\ answer.to \in Seq(Segment)
          /\ answer.kind \in {"redirect", "file"} => answer.to # << >>
          /\ lang \in LangSegs
          /\ dynamic \in {"none", "comments", "login"}

Init == /\ url \in Urls
        /\ answer = NoAnswer
        /\ dynamic \in {"none", "comments", "login"}
        /\ lang \in LangSegs

Serve == /\ answer = NoAnswer
         /\ answer' = Served(url)
         /\ UNCHANGED <<url, dynamic, lang>>

Follow == /\ answer.kind = "redirect"
          /\ url' = answer.to
          /\ answer' = NoAnswer
          /\ UNCHANGED <<dynamic, lang>>

Next == Serve \/ Follow

\* The server answers what it is asked, the browser follows what it is answered.
Spec == Init /\ [][Next]_vars /\ WF_vars(Next)

---------------------------------------------------------------------------
(* Properties.                                                             *)

\* A URL is reported as unknown exactly if it is answered with the not-found
\* page, although routeOf decides without serving it, before and after.
UnknownIffNotFound ==
  answer # NoAnswer => (RouteOf(url) = Unknown <=> answer.kind = "notfound")

\* The templates are made of placeholders, the languages, and names of the build
\* or of the program: no chapter and no segment a client invents is among them.
Words == {"{unknown}", "{legacy}", "{page}", "{asset}", "{part}", "{chapter}",
          "{path}", "{signal}", "{endpoint}", "v1", "telemetry", "api", "en", "zh",
          "", "login", "callback", "logout", "notify"}

BesidePages == {Last(f) : f \in {f \in Files \cup Docs : Len(f) < 3}}

RoutesFromBuild ==
  \A i \in DOMAIN RouteOf(url) :
    RouteOf(url)[i].name \in Words \/ RouteOf(url)[i] \in BesidePages

\* "One page must not be reachable under two spellings" (main.go:280): a file is
\* served under one URL only, but for the index of a directory, which has, besides
\* the directory's URL, its name.
OneSpelling ==
  answer.kind = "file" => url = Clean(answer.to) \/ Last(answer.to) = IndexHtml

\* An old link that a rule for renamed or regrouped chapters matches takes one hop.
Excepted(p) == \E i \in DOMAIN Exceptions : Matches(Exceptions[i], p)

OneHop ==
  [][(answer.kind = "redirect" /\ Excepted(url) /\ answer' = NoAnswer)
       => Served(url').kind # "redirect"]_vars

\* A redirect that adds or takes away a slash goes to something that is served,
\* except to a precompressed sibling, which Exists has and writeFile does not.
SlashesLand ==
  (answer.kind = "redirect" /\ url # <<Empty>> /\ Unslashed(url) = Unslashed(answer.to))
    => Served(answer.to).kind \in {"file", "redirect"} \/ HasExt(answer.to, "gz")

\* Every chain of redirects ends with an answer that is none.
ChainsEnd == <>(answer.kind \notin {"none", "redirect"})
===========================================================================
