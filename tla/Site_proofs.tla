---------------------------- MODULE Site_proofs ----------------------------
(***************************************************************************)
(* Proofs about the site, for every book, whatever URLs are asked for and  *)
(* whatever language and routes a server has: a file is served under one   *)
(* URL, routeOf reports as unknown exactly what serve does not find, the   *)
(* redirects that add or take away a slash lead to something, an old link  *)
(* of a renamed chapter takes one hop; of books, that links land and that  *)
(* the development server answers as the build would, but for the labels   *)
(* and sources it keeps; and of releases, that readers are served. The     *)
(* assumptions are what the build writes (BuildAssumption), what manifests *)
(* list and edits make of a page (BooksAssumption) and the times of a      *)
(* release (ReleasesAssumption).                                           *)
(*                                                                         *)
(* What the router promises is about serve, a function of the URL; the     *)
(* invariant adds that an answer is serve's for the URL asked last, which  *)
(* a browser that follows redirects only ever replaces by another URL.     *)
(***************************************************************************)
EXTENDS Site, Lists_proofs

---------------------------------------------------------------------------
(* Segments, and the sequences of them.                                    *)

\* The names and suffixes of URLs, and those the router itself writes.
Known == LangSegs \cup {Empty, IndexHtml}
Name == Names \cup {s.name : s \in Known}
          \cup {r.to : r \in {Redirects[i] : i \in DOMAIN Redirects}}
          \cup {r.slug : r \in {Redirects[i] : i \in DOMAIN Redirects}}
Ext  == Names \cup {"html"}
Segm == [name: Name, num: BOOLEAN, ext: Seq(Ext)]
Path == Seq(Segm) \ {<< >>}

\* What is before the last of a sequence, and appending to it.
LEMMA FrontOf ==
  ASSUME NEW S, NEW s \in Seq(S), s # << >>
  PROVE  /\ Len(s) \in Nat \ {0} /\ Last(s) \in S
         /\ Front(s) \in Seq(S) /\ Len(Front(s)) = Len(s) - 1
         /\ \A i \in 1 .. Len(s) - 1 : Front(s)[i] = s[i]
<1>1. Len(s) \in Nat \ {0}
  BY EmptySeq
<1>2. \A i \in 1 .. Len(s) : s[i] \in S
  BY ElementOfSeq
<1> DEFINE k == Len(s) - 1
<1>3. k \in Nat /\ \A i \in 1 .. k : s[i] \in S
  BY <1>1, <1>2
<1> HIDE DEF k
<1>4. /\ SubSeq(s, 1, k) \in Seq(S)
      /\ Len(SubSeq(s, 1, k)) = IF 1 <= k THEN k - 1 + 1 ELSE 0
      /\ \A i \in 1 .. k - 1 + 1 : SubSeq(s, 1, k)[i] = s[1 + i - 1]
  BY <1>3, SubSeqProperties
<1>5. Last(s) \in S
  BY <1>1, <1>2 DEF Last
<1>6. Len(SubSeq(s, 1, k)) = k
  BY <1>3, <1>4
<1>7. ASSUME NEW i \in 1 .. k PROVE SubSeq(s, 1, k)[i] = s[i]
  <2>1. i \in 1 .. k - 1 + 1 /\ 1 + i - 1 = i
    BY <1>3
  <2> QED BY <1>4, <2>1
<1> QED BY <1>1, <1>4, <1>5, <1>6, <1>7 DEF k, Front

\* What is appended is the last, and what is before it the front.
LEMMA FrontOfAppend ==
  ASSUME NEW S, NEW s \in Seq(S), NEW e \in S
  PROVE  /\ Append(s, e) \in Seq(S) /\ Append(s, e) # << >> /\ Len(Append(s, e)) = Len(s) + 1
         /\ Last(Append(s, e)) = e /\ Front(Append(s, e)) = s
<1> DEFINE q == Append(s, e)
<1>1. /\ q \in Seq(S) /\ q # << >> /\ Len(q) = Len(s) + 1 /\ q[Len(s) + 1] = e
      /\ Len(s) \in Nat /\ \A i \in 1 .. Len(s) : q[i] = s[i]
  OBVIOUS
<1> HIDE DEF q
<1>2. Front(q) \in Seq(S) /\ Len(Front(q)) = Len(s) /\ \A i \in 1 .. Len(s) : Front(q)[i] = s[i]
  BY <1>1, FrontOf
<1>3. Front(q) = s
  BY <1>1, <1>2, SeqEqual
<1> QED BY <1>1, <1>3 DEF Last, q

\* A plain segment with a name that is known is a segment.
LEMMA SegTyped == ASSUME NEW n \in Name PROVE Seg(n) \in Segm
BY DEF Seg, Segm

\* The segments the router writes are segments; what suffixes they have.
LEMMA KnownTyped == /\ Known \subseteq Segm
                    /\ Empty.ext = << >> /\ IndexHtml.ext = <<"html">>
                    /\ \A l \in LangSegs : l.ext = << >>
<1>1. ASSUME NEW n PROVE Seg(n) = [name |-> Seg(n).name, num |-> FALSE, ext |-> << >>]
  BY DEF Seg
<1>2. ASSUME NEW s \in LangSegs \cup {Empty}
      PROVE  s = [name |-> s.name, num |-> FALSE, ext |-> << >>]
  BY <1>1, Zenon DEF LangSegs, Empty
<1>3. IndexHtml = [name |-> IndexHtml.name, num |-> FALSE, ext |-> <<"html">>]
  BY DEF IndexHtml, Dotted
<1>4. << >> \in Seq(Ext) /\ <<"html">> \in Seq(Ext)
  BY DEF Ext
<1>5. \A s \in Known : s.name \in Name
  BY Zenon DEF Name
<1>6. ASSUME NEW n \in Name, NEW e \in Seq(Ext)
      PROVE  [name |-> n, num |-> FALSE, ext |-> e] \in Segm
  BY DEF Segm
<1>7. Known \subseteq Segm
  BY <1>2, <1>3, <1>4, <1>5, <1>6, ZenonT(40) DEF Known
<1>8. ASSUME NEW n, NEW e, NEW s, s = [name |-> n, num |-> FALSE, ext |-> e] PROVE s.ext = e
  BY <1>8
<1> QED BY <1>2, <1>3, <1>7, <1>8, Zenon

\* The segments of the URLs asked for are segments.
LEMMA SegmentTyped == Segment \subseteq Segm
BY DEF Segment, Segm, Name, Ext

\* The suffixes of a segment are a sequence.
LEMMA ExtTyped == ASSUME NEW s \in Segm PROVE s.ext \in Seq(Ext)
BY DEF Segm

\* The last segment of a path and what is before it.
LEMMA LastFront ==
  ASSUME NEW p \in Path
  PROVE  /\ Len(p) \in Nat \ {0} /\ Last(p) = p[Len(p)] /\ Last(p) \in Segm
         /\ Front(p) \in Seq(Segm) /\ Len(Front(p)) = Len(p) - 1
         /\ Last(p).ext \in Seq(Ext)
<1>1. /\ Len(p) \in Nat \ {0} /\ Last(p) \in Segm
      /\ Front(p) \in Seq(Segm) /\ Len(Front(p)) = Len(p) - 1
  BY FrontOf DEF Path
<1> QED BY <1>1, ExtTyped DEF Last

\* A path with a segment appended.
LEMMA AppendPath ==
  ASSUME NEW p \in Seq(Segm), NEW s \in Segm
  PROVE  Append(p, s) \in Path /\ Last(Append(p, s)) = s /\ Front(Append(p, s)) = p
BY FrontOfAppend DEF Path

\* A segment with one more suffix, and without its last one.
Longer(s, e) == [s EXCEPT !.ext = Append(@, e)]
Shorter(s)   == [s EXCEPT !.ext = Front(@)]

\* A suffix that is added is the last one, and can be taken away again.
LEMMA LongerOf ==
  ASSUME NEW s \in Segm, NEW e \in Ext
  PROVE  /\ Longer(s, e) \in Segm /\ Longer(s, e).ext = Append(s.ext, e)
         /\ Last(Longer(s, e).ext) = e /\ Longer(s, e).ext # << >>
         /\ Shorter(Longer(s, e)) = s
<1>1. s.ext \in Seq(Ext)
  BY ExtTyped
<1>2. Append(s.ext, e) \in Seq(Ext)
  BY <1>1
<1>3. Longer(s, e) \in Segm /\ Longer(s, e).ext = Append(s.ext, e)
  BY <1>2 DEF Segm, Longer
<1>4. Last(Append(s.ext, e)) = e /\ Append(s.ext, e) # << >> /\ Front(Append(s.ext, e)) = s.ext
  BY <1>1, FrontOfAppend
<1>5. Shorter(Longer(s, e)) = s
  BY <1>2, <1>4 DEF Segm, Longer, Shorter
<1> QED BY <1>3, <1>4, <1>5

\* A segment with a suffix remains one without it.
LEMMA ShorterTyped == ASSUME NEW s \in Segm, s.ext # << >> PROVE Shorter(s) \in Segm
<1>1. Front(s.ext) \in Seq(Ext)
  BY ExtTyped, FrontOf
<1> QED BY <1>1 DEF Segm, Shorter

\* A path with another last segment.
Ending(p, s) == [p EXCEPT ![Len(p)] = s]

\* A path differs from the one with another end in the end only.
LEMMA EndingOf ==
  ASSUME NEW p \in Path, NEW s \in Segm
  PROVE  /\ Ending(p, s) \in Path /\ Len(Ending(p, s)) = Len(p) /\ Last(Ending(p, s)) = s
         /\ Ending(Ending(p, s), Last(p)) = p
         /\ \A i \in 1 .. Len(p) - 1 : Ending(p, s)[i] = p[i]
<1> DEFINE n == Len(p)
           q == Ending(p, s)
<1>1. n \in Nat \ {0} /\ p \in Seq(Segm) /\ Last(p) = p[n] /\ Last(p) \in Segm
  BY LastFront DEF Path
<1>2. /\ q \in Seq(Segm) /\ Len(q) = n
      /\ \A i \in 1 .. n : q[i] = IF i = n THEN s ELSE p[i]
  BY <1>1, ExceptSeq DEF Ending
<1> HIDE DEF q, n
<1>3. /\ Ending(q, Last(p)) \in Seq(Segm) /\ Len(Ending(q, Last(p))) = n
      /\ \A i \in 1 .. n : Ending(q, Last(p))[i] = IF i = n THEN Last(p) ELSE q[i]
  BY <1>1, <1>2, ExceptSeq DEF Ending
<1>4. \A i \in 1 .. n : Ending(q, Last(p))[i] = p[i]
  BY <1>1, <1>2, <1>3
<1>5. Ending(q, Last(p)) = p
  BY <1>1, <1>3, <1>4, SeqEqual DEF n
<1>6. Last(q) = s /\ q # << >>
  BY <1>1, <1>2 DEF Last
<1>7. \A i \in 1 .. n - 1 : q[i] = p[i]
  BY <1>1, <1>2
<1> QED BY <1>2, <1>5, <1>6, <1>7 DEF Path, n, q

\* A path with a suffix added, which CutExt takes away again.
LEMMA WithExtOf ==
  ASSUME NEW p \in Path, NEW e \in Ext
  PROVE  /\ WithExt(p, e) \in Path /\ Len(WithExt(p, e)) = Len(p)
         /\ Last(WithExt(p, e)).ext = Append(Last(p).ext, e)
         /\ HasExt(WithExt(p, e), e)
         /\ CutExt(WithExt(p, e)) = p
         /\ \A i \in 1 .. Len(p) - 1 : WithExt(p, e)[i] = p[i]
<1> DEFINE q == WithExt(p, e)
<1>1. Last(p) \in Segm /\ Last(p) = p[Len(p)]
  BY LastFront
<1>2. q = Ending(p, Longer(Last(p), e))
  BY <1>1, Zenon DEF WithExt, Ending, Longer
<1>3. /\ q \in Path /\ Len(q) = Len(p) /\ Last(q) = Longer(Last(p), e)
      /\ Ending(q, Last(p)) = p /\ \A i \in 1 .. Len(p) - 1 : q[i] = p[i]
  BY <1>1, <1>2, LongerOf, EndingOf, SMTT(30)
<1>4. Last(q) = q[Len(q)]
  BY <1>3, LastFront
<1>5. CutExt(q) = Ending(q, Shorter(Last(q)))
  BY <1>4, Zenon DEF CutExt, Ending, Shorter
<1>6. CutExt(q) = p
  BY <1>1, <1>3, <1>5, LongerOf
<1> QED BY <1>1, <1>3, <1>6, LongerOf DEF HasExt

\* A path with its suffix taken away is a path of the same length.
LEMMA CutExtPath ==
  ASSUME NEW p \in Path, Last(p).ext # << >>
  PROVE  CutExt(p) \in Path /\ Len(CutExt(p)) = Len(p)
<1>1. Last(p) \in Segm /\ Last(p) = p[Len(p)]
  BY LastFront
<1>2. CutExt(p) = Ending(p, Shorter(Last(p)))
  BY <1>1, Zenon DEF CutExt, Ending, Shorter
<1> QED BY <1>1, <1>2, ShorterTyped, EndingOf

\* The rules are a sequence, whatever they are.
LEMMA RedirectsNumbered == Len(Redirects) \in Nat /\ DOMAIN Redirects = 1 .. Len(Redirects)
<1>1. ASSUME NEW a, NEW b, NEW c, NEW d
      PROVE  <<a, b, c, d>> \in Seq({a, b, c, d})
  OBVIOUS
<1>2. PICK S : Exceptions \in Seq(S)
  BY <1>1, Zenon DEF Exceptions
<1>3. Len(Parts) = 15 /\ DOMAIN Parts = 1 .. 15
  BY DEF Parts
<1>4. PICK T : Bulk \in Seq(T)
  <2> DEFINE T == {Bulk[i] : i \in 1 .. 15}
  <2>1. Bulk \in [1 .. 15 -> T]
    BY <1>3 DEF Bulk
  <2>2. Bulk \in Seq(T)
    BY <2>1, SeqDef
  <2> QED BY <2>2
<1>5. Exceptions \in Seq(S \cup T) /\ Bulk \in Seq(S \cup T)
  BY <1>2, <1>4, SeqMonotonic
<1>6. Redirects \in Seq(S \cup T)
  BY <1>5, ConcatProperties DEF Redirects
<1> QED BY <1>6, LenProperties

\* The rule that is the first to match, and what it makes of a URL.
LEMMA FirstRule ==
  ASSUME NEW p \in Path, Legacy(p)
  PROVE  \E i \in DOMAIN Redirects :
           /\ Matches(Redirects[i], p) /\ Moves(p) = Target(Redirects[i], p)
           /\ \A j \in DOMAIN Redirects : Matches(Redirects[j], p) => i <= j
<1> DEFINE matching == {i \in 1 .. Len(Redirects) : Matches(Redirects[i], p)}
           first == Min(matching)
<1>1. DOMAIN Redirects = 1 .. Len(Redirects) /\ Len(Redirects) \in Nat
  BY RedirectsNumbered
<1>2. matching # {} /\ matching \in SUBSET Nat
  BY <1>1 DEF Legacy
<1>3. Moves(p) = Target(Redirects[first], p)
  BY <1>2, Zenon DEF Moves, SelectInSeq
<1>4. first \in matching /\ \A j \in matching : first <= j
  BY <1>2, MinOf, Zenon
<1> HIDE DEF first
<1> QED BY <1>1, <1>3, <1>4

\* The segments of a URL of three, with or without a slash.
LEMMA ThirdOf ==
  ASSUME NEW p \in Path, Len(Unslashed(p)) = 3
  PROVE  p[3] = Unslashed(p)[3] /\ p[1] \in Segm /\ p[3] \in Segm
<1>1. /\ Len(p) \in Nat /\ Len(Front(p)) = Len(p) - 1 /\ p \in Seq(Segm) /\ p # << >>
  BY LastFront DEF Path
<1>0. ASSUME NEW n \in 3 .. 4, Len(p) = n PROVE p[1] \in Segm /\ p[3] \in Segm
  <2>1. 1 \in 1 .. Len(p) /\ 3 \in 1 .. Len(p)
    BY <1>0
  <2> QED BY <1>1, <2>1, ElementOfSeq
<1>2. CASE ~Slashed(p)
  <2>1. Unslashed(p) = p
    BY <1>2, Zenon DEF Unslashed
  <2>2. Len(p) = 3 /\ 3 \in 3 .. 4
    BY <2>1
  <2> QED BY <1>0, <2>1, <2>2, Zenon
<1>3. CASE Slashed(p)
  <2>1. Unslashed(p) = Front(p)
    BY <1>3, Zenon DEF Unslashed
  <2>2. Len(p) = 4 /\ 4 \in 3 .. 4
    <3>1. Len(Front(p)) = 3 /\ Len(p) \in Nat /\ Len(Front(p)) = Len(p) - 1
      BY <1>1, <2>1, Zenon
    <3>2. ASSUME NEW n \in Nat, NEW m, m = 3, m = n - 1 PROVE n = 4 /\ 4 \in 3 .. 4
      BY <3>2
    <3> QED BY <3>1, <3>2, Zenon
  <2>3. Front(p)[3] = p[3]
    BY <1>1, <2>2, FrontOf
  <2> QED BY <1>0, <2>1, <2>2, <2>3, Zenon
<1> QED BY <1>2, <1>3

\* Where an old URL moves is a URL.
LEMMA MovesTo == ASSUME NEW p \in Path, Legacy(p) PROVE Moves(p) \in Path
<1>1. PICK first \in DOMAIN Redirects :
        Matches(Redirects[first], p) /\ Moves(p) = Target(Redirects[first], p)
  BY FirstRule
<1>2. p[1] \in Segm /\ p[3] \in Segm
  <2>1. Len(Unslashed(p)) = 3
    BY <1>1 DEF Matches
  <2> QED BY <2>1, ThirdOf
<1>3. p[3].name \in Name /\ Redirects[first].slug \in Name /\ Redirects[first].to \in Name
  <2>1. p[3].name \in Name
    BY <1>2 DEF Segm
  <2> QED BY <1>1, <2>1, Zenon DEF Name
<1>4. Moves(p) = <<p[1], Seg(Redirects[first].to),
                   Seg(IF Redirects[first].slug = "" THEN p[3].name
                       ELSE Redirects[first].slug)>>
  BY <1>1, Zenon DEF Target
<1>5. (IF Redirects[first].slug = "" THEN p[3].name ELSE Redirects[first].slug) \in Name
  BY <1>3, Zenon
<1>6. PICK a, b \in Segm : Moves(p) = <<p[1], a, b>>
  BY <1>3, <1>4, <1>5, SegTyped, Zenon
<1> QED BY <1>2, <1>6 DEF Path

\* The answers, by their kinds.
LEMMA Kinds ==
  /\ NoAnswer.kind = "none" /\ NotFound.kind = "notfound" /\ NoAsset.kind = "noasset"
  /\ Handler.kind = "handler"
  /\ \A f : File(f).kind = "file" /\ File(f).to = f
  /\ \A f : Redirect(f).kind = "redirect" /\ Redirect(f).to = f
BY DEF NoAnswer, NotFound, NoAsset, Handler, File, Redirect

\* The answers of serveStatic.
LEMMA StaticAnswers ==
  ASSUME NEW p
  PROVE  \/ ServeStatic(p) = NoAsset /\ Asset(p)
         \/ ServeStatic(p) = File(p)
         \/ ServeStatic(p) = File(Append(Front(p), IndexHtml)) /\ Slashed(p)
         \/ ServeStatic(p) = File(WithExt(p, "html")) /\ ~Slashed(p)
         \/ ServeStatic(p) = Redirect(Front(p)) /\ Front(p) # << >>
         \/ ServeStatic(p) = Redirect(Append(p, Empty))
         \/ ServeStatic(p) = NotFound /\ ~Asset(p)
BY Zenon DEF ServeStatic, AnswerSlashed, AnswerPage

\* What a redirect of the router leads to is a URL.
LEMMA RedirectsToPaths ==
  ASSUME NEW p \in Path, lang \in LangSegs, Served(p).kind = "redirect"
  PROVE  Served(p).to \in Path
<1>1. CASE Served(p) = Redirect(<<lang, Empty>>)
  <2>1. lang \in Segm /\ Empty \in Segm
    BY KnownTyped DEF Known
  <2>2. ASSUME NEW a \in Segm, NEW b \in Segm PROVE <<a, b>> \in Path
    BY DEF Path
  <2>3. Served(p).to = <<lang, Empty>>
    BY <1>1, Kinds
  <2> QED BY <2>1, <2>2, <2>3, Zenon
<1>2. CASE Legacy(p) /\ Served(p) = Redirect(Moves(p))
  BY <1>2, MovesTo, Kinds
<1>3. CASE Served(p) = Redirect(Append(Front(p), Empty))
  <2>1. Front(p) \in Seq(Segm) /\ Empty \in Segm
    BY LastFront, KnownTyped DEF Known
  <2> QED BY <1>3, <2>1, AppendPath, Kinds
<1>4. CASE HasExt(p, "html") /\ Served(p) = Redirect(CutExt(p))
  BY <1>4, CutExtPath, Kinds DEF HasExt
<1>5. CASE Served(p) = ServeStatic(p)
  <2>1. CASE ServeStatic(p) = Redirect(Front(p)) /\ Front(p) # << >>
    BY <1>5, <2>1, LastFront, Kinds DEF Path
  <2>2. CASE ServeStatic(p) = Redirect(Append(p, Empty))
    <3>1. p \in Seq(Segm) /\ Empty \in Segm
      BY KnownTyped DEF Known, Path
    <3> QED BY <1>5, <2>2, <3>1, AppendPath, Kinds
  <2> QED BY <1>5, <2>1, <2>2, StaticAnswers, Kinds
<1> QED BY <1>1, <1>2, <1>3, <1>4, <1>5, Kinds DEF Served

\* A file is served under its clean URL, or it is the index of a directory.
LEMMA ServedClean ==
  ASSUME NEW p \in Path, Served(p).kind = "file"
  PROVE  p = Clean(Served(p).to) \/ Last(Served(p).to) = IndexHtml
<1>1. Served(p) = ServeStatic(p) /\ ~HasExt(p, "html") /\ Last(p) # IndexHtml
  BY Kinds DEF Served
<1>2. CASE ServeStatic(p) = File(p)
  BY <1>1, <1>2, Kinds DEF Clean
<1>3. CASE ServeStatic(p) = File(Append(Front(p), IndexHtml))
  <2>1. Last(Append(Front(p), IndexHtml)) = IndexHtml
    BY LastFront, KnownTyped, AppendPath DEF Known
  <2> QED BY <1>1, <1>3, <2>1, Kinds
<1>4. CASE ServeStatic(p) = File(WithExt(p, "html"))
  <2>1. HasExt(WithExt(p, "html"), "html") /\ CutExt(WithExt(p, "html")) = p
    BY WithExtOf DEF Ext
  <2> QED BY <1>1, <1>4, <2>1, Kinds DEF Clean
<1> QED BY <1>1, <1>2, <1>3, <1>4, StaticAnswers, Kinds

\* resolves and serveStatic agree on what there is.
LEMMA ResolvesWhatIsServed ==
  ASSUME NEW p \in Path, ~Asset(p)
  PROVE  ServeStatic(p) = NotFound <=> ~Resolves(p)
<1> DEFINE index == Append(Front(p), IndexHtml)
<1>0. /\ Front(p) \in Seq(Segm) /\ p \in Seq(Segm) /\ IndexHtml \in Segm
      /\ IndexHtml.ext = <<"html">> /\ Empty.ext = << >>
  BY LastFront, KnownTyped DEF Known, Path
<1>1. "html" # "gz" /\ Last(<<"html">>) = "html"
  BY DEF Last
<1>2. Written(index) <=> Exists(index)
  <2>1. Last(index) = IndexHtml
    BY <1>0, AppendPath
  <2> QED BY <1>0, <1>1, <2>1 DEF Written, HasExt
<1>3. Written(WithExt(p, "html")) <=> Exists(WithExt(p, "html"))
  BY <1>1, WithExtOf DEF Written, HasExt, Ext
<1>4. ASSUME NEW f PROVE NotFound # File(f) /\ NotFound # Redirect(f)
  BY Kinds
<1>5. CASE Slashed(p)
  <2>1. ~HasExt(p, "gz")
    BY <1>0, <1>5 DEF HasExt, Slashed
  <2> QED BY <1>2, <1>4, <1>5, <2>1 DEF ServeStatic, AnswerSlashed, Resolves
<1>6. CASE ~Slashed(p) /\ HasExt(p, "gz")
  <2>1. ~Written(p)
    BY <1>6 DEF Written
  <2>2. ~Exists(WithExt(p, "html"))
    BY <1>6, WithExtOf, BuildAssumption DEF Exists, Ext
  <2>3. ~Exists(Append(p, IndexHtml))
    <3>1. Last(Append(p, IndexHtml)) = IndexHtml /\ Front(Append(p, IndexHtml)) = p
      BY <1>0, AppendPath
    <3>2. Len(Append(p, IndexHtml)) > 1
      BY <1>0, LastFront
    <3> QED BY <1>6, <3>1, <3>2, BuildAssumption DEF Exists
  <2> QED BY <1>3, <1>6, <2>1, <2>2, <2>3 DEF ServeStatic, AnswerPage, Resolves
<1>7. CASE ~Slashed(p) /\ ~HasExt(p, "gz")
  <2>1. Written(p) <=> Exists(p)
    BY <1>7 DEF Written
  <2> QED BY <1>3, <1>4, <1>7, <2>1 DEF ServeStatic, AnswerPage, Resolves
<1> QED BY <1>5, <1>6, <1>7

\* Paths of one and of two segments.
LEMMA ShortPaths ==
  /\ \A p, e : WithExt(p, e) = Ending(p, Longer(Last(p), e))
  /\ \A x, y : Last(<<x>>) = x /\ Ending(<<x>>, y) = <<y>>
  /\ \A w, x, y : Last(<<w, x>>) = x /\ Ending(<<w, x>>, y) = <<w, y>>
<1>1. ASSUME NEW p, NEW e PROVE WithExt(p, e) = Ending(p, Longer(Last(p), e))
  BY Zenon DEF WithExt, Ending, Longer, Last
<1>2. \A x, y : Last(<<x>>) = x /\ Ending(<<x>>, y) = <<y>>
  BY DEF Last, Ending
<1>3. \A w, x, y : Last(<<w, x>>) = x /\ Ending(<<w, x>>, y) = <<w, y>>
  BY DEF Last, Ending
<1> QED BY <1>1, <1>2, <1>3

\* A template is of one segment, which is not that of what there is not, or of two.
Told(t) == (\E a : t = <<a>> /\ a # Seg("{unknown}")) \/ (\E a, b : t = <<a, b>>)

\* What Template makes is told apart from the template of what there is not.
LEMMA Templates == ASSUME NEW rest \in Seq(Segm) PROVE Told(Template(rest))
<1>1. ASSUME NEW n, n # "{unknown}" PROVE Seg(n) # Seg("{unknown}")
  BY <1>1 DEF Seg
<1>2. Empty # Seg("{unknown}")
  BY <1>1, Zenon DEF Empty
<1>3. ASSUME NEW n PROVE Seg(n).ext = << >>
  BY DEF Seg
<1>4. ASSUME NEW a, a.ext # << >> PROVE a # Seg("{unknown}")
  BY <1>3, <1>4, Zenon
<1>5. \/ Shape(rest) = <<Seg("{page}")>> \/ Shape(rest) = <<Seg("{path}")>>
      \/ Shape(rest) = <<Seg("{part}"), Seg("{chapter}")>>
  BY Zenon DEF Shape
<1>6. CASE rest = << >>
  BY <1>2, <1>6, Zenon DEF Template, Told
<1>7. CASE Template(rest) = <<Dotted("index", "md")>>
  <2>1. Dotted("index", "md") # Seg("{unknown}")
    BY DEF Dotted, Seg
  <2> QED BY <1>7, <2>1, Zenon DEF Told
<1>8. CASE Template(rest) = WithExt(Shape(rest), "md")
  <2>1. ASSUME NEW n, Shape(rest) = <<Seg(n)>> PROVE Told(Template(rest))
    <3>1. Template(rest) = <<Longer(Seg(n), "md")>>
      BY <1>8, <2>1, ShortPaths, ZenonT(40)
    <3>2. Longer(Seg(n), "md").ext # << >>
      BY DEF Longer, Seg
    <3> QED BY <1>4, <3>1, <3>2, Zenon DEF Told
  <2>2. ASSUME NEW m, NEW n, Shape(rest) = <<Seg(m), Seg(n)>> PROVE Told(Template(rest))
    <3>1. Template(rest) = <<Seg(m), Longer(Seg(n), "md")>>
      <4> DEFINE q == <<Seg(m), Seg(n)>>
      <4>1. WithExt(q, "md") = Ending(q, Longer(Last(q), "md")) /\ Last(q) = Seg(n)
        BY ShortPaths, Zenon
      <4>2. Ending(q, Longer(Seg(n), "md")) = <<Seg(m), Longer(Seg(n), "md")>>
        BY ShortPaths, Zenon
      <4> QED BY <1>8, <2>2, <4>1, <4>2, Zenon
    <3> QED BY <3>1, Zenon DEF Told
  <2> QED BY <1>5, <2>1, <2>2, Zenon
<1>9. CASE Len(rest) = 1 /\ rest[1].ext # << >> /\ Template(rest) = rest
  <2>1. rest = <<rest[1]>>
    BY <1>9
  <2> QED BY <1>4, <1>9, <2>1, Zenon DEF Told
<1>10. CASE Template(rest) = Shape(rest)
  <2>1. "{page}" # "{unknown}" /\ "{path}" # "{unknown}"
    OBVIOUS
  <2> QED BY <1>1, <1>5, <1>10, <2>1, Zenon DEF Told
<1> QED BY <1>6, <1>7, <1>8, <1>9, <1>10, Zenon DEF Template

\* A URL is reported as unknown exactly if it is answered with the not-found page.
LEMMA UnknownIsNotFound ==
  ASSUME NEW p \in Path PROVE RouteOf(p) = Unknown <=> Served(p).kind = "notfound"
<1> DEFINE u == Seg("{unknown}")
<1>1. ASSUME NEW n, n # "{unknown}" PROVE Seg(n) # u
  BY <1>1 DEF Seg
<1>2. /\ \A a : <<a>> = Unknown <=> a = u
      /\ \A a, b : <<a, b>> # Unknown
      /\ \A a, b, c : <<a, b, c>> # Unknown
  BY DEF Unknown
<1>0. Unknown = <<u>>
  BY Zenon DEF Unknown
<1> HIDE DEF u
<1>3. \A s : s # u => Append(Lang(p), s) # Unknown
  <2> SUFFICES ASSUME NEW s, s # u, Append(Lang(p), s) = <<u>> PROVE FALSE
    BY <1>0, Zenon
  <2>1. Lang(p) \in Seq({p[1], s}) /\ s \in {p[1], s}
    BY DEF Lang
  <2>2. Last(Append(Lang(p), s)) = s
    BY <2>1, FrontOfAppend
  <2> QED BY <2>2, ShortPaths, Zenon
<1>4. \A t : Told(t) => Lang(p) \o t # Unknown
  <2>0. ASSUME NEW a, NEW b, NEW t, t = <<a>> \/ t = <<a, b>>, Lang(p) \o t = <<u>>
        PROVE  t = <<a>> /\ a = u
    <3> DEFINE S == {p[1], a, b}
    <3>1. Lang(p) \in Seq(S) /\ t \in Seq(S) /\ Len(Lang(p)) \in Nat
      BY <2>0 DEF Lang
    <3>2. /\ Len(Lang(p) \o t) = Len(Lang(p)) + Len(t)
          /\ \A i \in 1 .. Len(Lang(p)) + Len(t) :
               (Lang(p) \o t)[i] = IF i <= Len(Lang(p)) THEN Lang(p)[i] ELSE t[i - Len(Lang(p))]
      BY <3>1, ConcatProperties
    <3>3. Len(<<u>>) = 1 /\ <<u>>[1] = u
      OBVIOUS
    <3>4. Len(t) = 1 /\ Len(Lang(p)) = 0
      BY <2>0, <3>1, <3>2, <3>3
    <3>5. t = <<a>> /\ t[1] = a
      BY <2>0, <3>4
    <3> QED BY <2>0, <3>2, <3>3, <3>4, <3>5
  <2>1. \A t : Told(t) => (\E a : t = <<a>> /\ a # u) \/ (\E a, b : t = <<a, b>>)
    BY Zenon DEF Told, u
  <2>2. \A a, b : <<a>> # <<a, b>>
    OBVIOUS
  <2> SUFFICES ASSUME NEW t, Told(t), Lang(p) \o t = <<u>> PROVE FALSE
    BY <1>0, Zenon
  <2>3. ASSUME NEW a, t = <<a>>, a # u PROVE FALSE
    BY <2>0, <2>3, Zenon
  <2>4. ASSUME NEW a, NEW b, t = <<a, b>> PROVE FALSE
    BY <2>0, <2>2, <2>4, Zenon
  <2>5. (\E a : t = <<a>> /\ a # u) \/ (\E a, b : t = <<a, b>>)
    BY <2>1
  <2> QED BY <2>3, <2>4, <2>5, Zenon
<1>11. \A n, e : Dotted(n, e) # u
  <2>1. ASSUME NEW n, NEW e, NEW m PROVE Dotted(n, e) # Seg(m)
    BY DEF Dotted, Seg
  <2> QED BY <2>1, Zenon DEF u
<1>5. CASE p = <<Empty>>
  <2>1. Empty # u
    BY <1>1, Zenon DEF Empty
  <2>2. Served(p) \in {Handler, Redirect(<<lang, Empty>>)}
    BY <1>5, Zenon DEF Served
  <2> QED BY <1>2, <1>5, <2>1, <2>2, Kinds, Zenon DEF RouteOf
<1>6. CASE p # <<Empty>> /\ (p \in Docs \/ (p \in AuthRoutes /\ Owns(p)))
  <2>1. Unknown \notin Docs
    <3>1. \A n : Seg(n).ext = << >>
      BY DEF Seg
    <3>2. Last(Unknown) = u /\ u.ext = << >>
      BY <1>0, <3>1, ShortPaths, Zenon DEF u
    <3> QED BY <3>2, BuildAssumption, Zenon
  <2>2. Unknown \notin AuthRoutes
    <3>1. "login" # "{unknown}" /\ "callback" # "{unknown}" /\ "logout" # "{unknown}"
      OBVIOUS
    <3>2. Seg("login") # u /\ Seg("callback") # u /\ Seg("logout") # u
      BY <1>1, <3>1, Zenon
    <3> QED BY <1>2, <3>2, Zenon DEF AuthRoutes
  <2>3. RouteOf(p) = p /\ Served(p) = Handler
    BY <1>6, Zenon DEF RouteOf, Served
  <2> QED BY <1>6, <2>1, <2>2, <2>3, Kinds, Zenon
<1>7. CASE /\ p # <<Empty>> /\ p \notin Docs /\ ~(p \in AuthRoutes /\ Owns(p))
           /\ Relayed(p) \/ Owns(p)
  <2>1. Served(p) = Handler
    BY <1>7, Zenon DEF Served
  <2>2. \/ RouteOf(p) = <<p[1], p[2], Seg("{signal}")>>
        \/ RouteOf(p) = <<Seg("api"), Seg("{endpoint}")>>
    BY <1>7, Zenon DEF RouteOf
  <2>3. RouteOf(p) # Unknown
    BY <1>2, <2>2, Zenon
  <2> QED BY <2>1, <2>3, Kinds, Zenon
<1>8. CASE /\ p # <<Empty>> /\ p \notin Docs /\ ~Relayed(p) /\ ~Owns(p) /\ Legacy(p)
  <2>1. Served(p) = Redirect(Moves(p)) /\ RouteOf(p) = Append(Lang(p), Seg("{legacy}"))
    BY <1>8, Zenon DEF Served, RouteOf
  <2>2. "{legacy}" # "{unknown}"
    OBVIOUS
  <2>3. RouteOf(p) # Unknown
    BY <1>1, <1>3, <2>1, <2>2, Zenon
  <2> QED BY <2>1, <2>3, Kinds, Zenon
<1>9. CASE /\ p # <<Empty>> /\ p \notin Docs /\ ~Relayed(p) /\ ~Owns(p) /\ ~Legacy(p)
           /\ HasExt(p, "html")
  <2>1. /\ Served(p) \in {Redirect(Append(Front(p), Empty)), Redirect(CutExt(p))}
        /\ RouteOf(p) = Append(Lang(p), Dotted("{page}", "html"))
    BY <1>9, Zenon DEF Served, RouteOf
  <2>2. RouteOf(p) # Unknown
    BY <1>3, <1>11, <2>1, Zenon
  <2> QED BY <2>1, <2>2, Kinds, Zenon
<1>10. CASE /\ p # <<Empty>> /\ p \notin Docs /\ ~Relayed(p) /\ ~Owns(p) /\ ~Legacy(p)
            /\ ~HasExt(p, "html")
  <2>1. Served(p) = ServeStatic(p)
    <3>1. Last(p) # IndexHtml
      <4>1. Last(<<"html">>) = "html" /\ <<"html">> # << >>
        BY DEF Last
      <4> QED BY <1>10, <4>1, KnownTyped DEF HasExt
    <3> QED BY <1>10, <3>1, Zenon DEF Served
  <2>2. CASE Asset(p)
    <3>1. ServeStatic(p) \in {File(p), NoAsset}
      BY <2>2, Zenon DEF ServeStatic
    <3>2. PICK e : RouteOf(p) = <<Dotted("{asset}", e)>>
      BY <1>10, <2>2, Zenon DEF RouteOf
    <3>3. RouteOf(p) # Unknown
      <4>1. Dotted("{asset}", e) # u
        BY <1>11, Zenon
      <4> QED BY <1>2, <3>2, <4>1, Zenon
    <3>4. Served(p).kind # "notfound"
      BY <2>1, <3>1, Kinds
    <3> QED BY <3>3, <3>4
  <2>3. CASE ~Asset(p)
    <3>1. ServeStatic(p) = NotFound <=> ~Resolves(p)
      BY <2>3, ResolvesWhatIsServed
    <3>2. ServeStatic(p) = NotFound <=> ServeStatic(p).kind = "notfound"
      BY StaticAnswers, Kinds
    <3>3. RouteOf(p) = IF ~Resolves(p) THEN Unknown ELSE Lang(p) \o Template(Rest(p))
      BY <1>10, <2>3, Zenon DEF RouteOf
    <3>4. Rest(p) \in Seq(Segm)
      <4>1. Unslashed(p) \in Seq(Segm)
        BY LastFront DEF Unslashed, Path
      <4>2. Len(Lang(p)) \in Nat
        BY DEF Lang
      <4>3. \A i \in Len(Lang(p)) + 1 .. Len(Unslashed(p)) : Unslashed(p)[i] \in Segm
        BY <4>1, <4>2
      <4>4. Len(Lang(p)) + 1 \in Int /\ Len(Unslashed(p)) \in Int
        BY <4>1, <4>2
      <4> QED BY <4>3, <4>4, SubSeqProperties DEF Rest
    <3> QED BY <1>4, <2>1, <3>1, <3>2, <3>3, <3>4, Templates, Zenon
  <2> QED BY <2>2, <2>3
<1> QED BY <1>5, <1>6, <1>7, <1>8, <1>9, <1>10

---------------------------------------------------------------------------
(* The rules for old parts and renamed chapters.                           *)

\* The fields of a rule.
LEMMA RuleFields ==
  /\ \A d, s, t : /\ Moved(d, s, t).dirs = d /\ Moved(d, s, t).slugs = s
                  /\ Moved(d, s, t).to = t
  /\ \A d, s, t, g : /\ Renamed(d, s, t, g).dirs = d /\ Renamed(d, s, t, g).slugs = {s}
                     /\ Renamed(d, s, t, g).to = t /\ Renamed(d, s, t, g).slug = g
<1>1. ASSUME NEW d, NEW s, NEW t, NEW g, NEW r, r = [dirs |-> d, slugs |-> s, to |-> t, slug |-> g]
      PROVE  r.dirs = d /\ r.slugs = s /\ r.to = t /\ r.slug = g
  BY <1>1
<1> QED BY <1>1, Zenon DEF Moved, Renamed

\* The rules are the four exceptions and one for each old part.
LEMMA RedirectsAre ==
  /\ Len(Redirects) = 19
  /\ \A i \in 1 .. 4 : Redirects[i] = Exceptions[i]
  /\ \A i \in 5 .. 19 : Redirects[i] = Moved({Parts[i - 4][1]}, Slugs, Parts[i - 4][2])
<1>1. ASSUME NEW a, NEW b, NEW c, NEW d
      PROVE  <<a, b, c, d>> \in Seq({a, b, c, d}) /\ Len(<<a, b, c, d>>) = 4
  OBVIOUS
<1>2. PICK S : Exceptions \in Seq(S)
  BY <1>1, Zenon DEF Exceptions
<1>3. Len(Exceptions) = 4
  BY <1>1, Zenon DEF Exceptions
<1>4. Len(Parts) = 15 /\ DOMAIN Parts = 1 .. 15
  BY DEF Parts
<1> DEFINE T == {Bulk[i] : i \in 1 .. 15}
<1>5. Bulk \in [1 .. 15 -> T] /\ \A i \in 1 .. 15 : Bulk[i] = Moved({Parts[i][1]}, Slugs, Parts[i][2])
  BY <1>4 DEF Bulk
<1>6. Bulk \in Seq(T) /\ Len(Bulk) = 15
  <2>1. Bulk \in Seq(T)
    BY <1>5, SeqDef
  <2> QED BY <1>5, <2>1, LenProperties
<1>7. Exceptions \in Seq(S \cup T) /\ Bulk \in Seq(S \cup T)
  BY <1>2, <1>6, SeqMonotonic
<1> HIDE DEF T
<1>8. /\ Len(Redirects) = 19
      /\ \A i \in 1 .. 19 : Redirects[i] = IF i <= 4 THEN Exceptions[i] ELSE Bulk[i - 4]
  <2>1. /\ Len(Redirects) = Len(Exceptions) + Len(Bulk)
        /\ \A i \in 1 .. Len(Exceptions) + Len(Bulk) :
             Redirects[i] = IF i <= Len(Exceptions) THEN Exceptions[i]
                            ELSE Bulk[i - Len(Exceptions)]
    BY <1>7, ConcatProperties, Zenon DEF Redirects
  <2> QED BY <1>3, <1>6, <2>1
<1> QED BY <1>5, <1>8

Old == {"p0-orientation", "p1-foundations", "p2-adaptation", "p3-reasoning", "p4-inference",
        "p5-orchestration", "p6-evaluation", "p7-infrastructure", "p8-safety", "p9-ecosystem",
        "p10-practical", "p11-frontiers", "p12-generative", "p12-operations", "p13-operations"}

\* No part moves to an old part.
LEMMA PartsMove == \A i \in 1 .. 15 : Parts[i][1] \in Old /\ Parts[i][2] \notin Old
BY DEF Parts, Old

\* What the rules match, and where they lead.
LEMMA ExceptionsAre ==
  /\ Exceptions[1].dirs \subseteq Old /\ Exceptions[1].to = "orchestration"
  /\ Exceptions[2].dirs \subseteq Old \cup {"infrastructure"} /\ Exceptions[2].to = "frontiers"
  /\ Exceptions[3].dirs \subseteq Old /\ Exceptions[3].to = "generative"
  /\ Exceptions[4].dirs \subseteq Old \cup {"practice"} /\ Exceptions[4].to = "practice"
  /\ Exceptions[4].slugs = {"wiring-a-2026-stack"}
  /\ Exceptions[4].slug = "wiring-the-application-stack"
<1>1. /\ Exceptions[1] = Moved({"p3-reasoning"}, {"training-agents-to-act"}, "orchestration")
      /\ Exceptions[2] = Moved({"infrastructure", "p7-infrastructure", "p11-frontiers"},
           {"where-learning-hits-limits", "the-capability-horizon",
            "verification-frontier"}, "frontiers")
      /\ Exceptions[3] = Moved({"p11-frontiers"},
           {"beyond-text", "diffusion-flow-matching", "speech-and-voice",
            "nar-diffusion-lms", "multimodal-models"}, "generative")
      /\ Exceptions[4] = Renamed({"practice", "p10-practical"}, "wiring-a-2026-stack",
                                 "practice", "wiring-the-application-stack")
  BY DEF Exceptions
<1>2. /\ {"p3-reasoning"} \subseteq Old /\ {"p11-frontiers"} \subseteq Old
      /\ {"infrastructure", "p7-infrastructure", "p11-frontiers"} \subseteq Old \cup {"infrastructure"}
      /\ {"practice", "p10-practical"} \subseteq Old \cup {"practice"}
  BY DEF Old
<1>3. Exceptions[1].dirs \subseteq Old /\ Exceptions[1].to = "orchestration"
  BY <1>1, <1>2, RuleFields
<1>4. Exceptions[2].dirs \subseteq Old \cup {"infrastructure"} /\ Exceptions[2].to = "frontiers"
  BY <1>1, <1>2, RuleFields
<1>5. Exceptions[3].dirs \subseteq Old /\ Exceptions[3].to = "generative"
  BY <1>1, <1>2, RuleFields
<1>6. /\ Exceptions[4].dirs \subseteq Old \cup {"practice"} /\ Exceptions[4].to = "practice"
      /\ Exceptions[4].slugs = {"wiring-a-2026-stack"}
      /\ Exceptions[4].slug = "wiring-the-application-stack"
  BY <1>1, <1>2, RuleFields
<1> QED BY <1>3, <1>4, <1>5, <1>6

\* A rule that leads to a part it matches gives the chapter a name it does not match.
LEMMA RulesMove ==
  ASSUME NEW i \in DOMAIN Redirects, Redirects[i].to \in Redirects[i].dirs
  PROVE  Redirects[i].slug # "" /\ Redirects[i].slug \notin Redirects[i].slugs
<1>1. DOMAIN Redirects = 1 .. 19
  BY RedirectsAre, RedirectsNumbered
<1>2. CASE i \in 5 .. 19
  <2>1. i - 4 \in 1 .. 15
    BY <1>2
  <2>2. Redirects[i].dirs = {Parts[i - 4][1]} /\ Redirects[i].to = Parts[i - 4][2]
    <3>1. Redirects[i] = Moved({Parts[i - 4][1]}, Slugs, Parts[i - 4][2])
      BY <1>2, RedirectsAre
    <3> QED BY <3>1, RuleFields
  <2>3. Parts[i - 4][1] \in Old /\ Parts[i - 4][2] \notin Old
    BY <2>1, PartsMove
  <2> QED BY <2>2, <2>3
<1>3. CASE i \in 1 .. 3
  <2>1. Redirects[i] = Exceptions[i] /\ i \in {1, 2, 3}
    BY <1>3, RedirectsAre
  <2>2. /\ "orchestration" \notin Old /\ "generative" \notin Old
        /\ "frontiers" \notin Old \cup {"infrastructure"}
    BY DEF Old
  <2> QED BY <2>1, <2>2, ExceptionsAre, ZenonT(40)
<1>4. CASE i = 4
  <2>1. Redirects[i] = Exceptions[4]
    BY <1>4, RedirectsAre
  <2>2. "wiring-the-application-stack" # "wiring-a-2026-stack"
    OBVIOUS
  <2>3. "wiring-the-application-stack" # ""
    BY Zenon
  <2> QED BY <2>1, <2>2, <2>3, ExceptionsAre, Zenon
<1>5. i \in 1 .. 3 \/ i = 4 \/ i \in 5 .. 19
  BY <1>1
<1> QED BY <1>2, <1>3, <1>4, <1>5, Zenon

\* Segments differ if their names do.
LEMMA SegInjective == \A m, n : Seg(m) = Seg(n) => m = n
<1>1. ASSUME NEW n PROVE Seg(n).name = n
  BY DEF Seg
<1> SUFFICES ASSUME NEW m, NEW n, Seg(m) = Seg(n) PROVE m = n
  OBVIOUS
<1>2. Seg(m).name = m /\ Seg(n).name = n
  BY <1>1
<1> QED BY <1>2

\* A URL that moves is not merely with or without its slash afterwards.
LEMMA MovesAway ==
  ASSUME NEW p \in Path, Legacy(p) PROVE Unslashed(Moves(p)) # Unslashed(p)
<1> SUFFICES ASSUME Unslashed(Moves(p)) = Unslashed(p) PROVE FALSE
  OBVIOUS
<1>1. PICK i \in DOMAIN Redirects : Matches(Redirects[i], p) /\ Moves(p) = Target(Redirects[i], p)
  BY FirstRule
<1> DEFINE r == Redirects[i]
           q == Unslashed(p)
<1>2. /\ Len(q) = 3 /\ q[2] \in {Seg(d) : d \in r.dirs} /\ q[3].name \in r.slugs
  BY <1>1 DEF Matches
<1>3. Moves(p) \in Path /\ Len(Moves(p)) = 3
  BY <1>1, MovesTo DEF Target
<1>4. Unslashed(Moves(p)) = Moves(p)
  BY <1>2, <1>3, LastFront DEF Unslashed
<1>5. q[2] = Seg(r.to)
  <2>1. PICK s : Moves(p) = <<p[1], Seg(r.to), s>>
    BY <1>1, Zenon DEF Target
  <2> QED BY <1>4, <2>1
<1>6. r.to \in r.dirs
  BY <1>2, <1>5, SegInjective, Zenon
<1>7. r.slug # "" /\ r.slug \notin r.slugs
  BY <1>6, RulesMove, Zenon
<1>8. Moves(p) = <<p[1], Seg(r.to), Seg(r.slug)>>
  BY <1>1, <1>7, Zenon DEF Target
<1>9. q[3] = Seg(r.slug)
  BY <1>4, <1>8
<1>10. Seg(r.slug).name = r.slug
  BY DEF Seg
<1> QED BY <1>2, <1>7, <1>9, <1>10, Zenon

---------------------------------------------------------------------------
(* Slashes.                                                                *)

\* What there is when serveStatic adds or takes away a slash.
LEMMA StaticRedirects ==
  ASSUME NEW p, ServeStatic(p).kind = "redirect"
  PROVE  /\ ~Asset(p)
         /\ \/ /\ Slashed(p) /\ Front(p) # << >> /\ ServeStatic(p) = Redirect(Front(p))
               /\ Exists(Front(p)) \/ Exists(WithExt(Front(p), "html"))
            \/ /\ ~Slashed(p) /\ ServeStatic(p) = Redirect(Append(p, Empty))
               /\ Exists(Append(p, IndexHtml))
<1>1. ~Asset(p)
  BY Kinds DEF ServeStatic
<1>2. CASE Slashed(p)
  BY <1>1, <1>2, Kinds DEF ServeStatic, AnswerSlashed
<1>3. CASE ~Slashed(p)
  BY <1>1, <1>3, Kinds DEF ServeStatic, AnswerPage
<1> QED BY <1>1, <1>2, <1>3

\* The suffix of a page, and that of no slash.
LEMMA ExtNames == /\ "html" # "gz" /\ Last(<<"html">>) = "html" /\ <<"html">> # << >>
                  /\ \A s : s.ext # << >> => s # Empty
                  /\ Empty # IndexHtml
<1>1. "html" # "gz" /\ Last(<<"html">>) = "html" /\ <<"html">> # << >>
  BY DEF Last
<1>2. Empty.ext = << >> /\ IndexHtml.ext = <<"html">>
  BY KnownTyped
<1> QED BY <1>1, <1>2, Zenon

\* Files are paths, and none is below the server's own routes.
LEMMA FilesArePaths ==
  ASSUME NEW f \in Files
  PROVE  /\ f \in Path /\ f[1] \notin {Seg("api"), Seg("v1")}
         /\ \A i \in 1 .. Len(f) : f[i] # Empty
<1>1. f \in Seq(Segment) /\ f # << >> /\ Empty \notin {f[i] : i \in DOMAIN f}
  BY FilesAssumption
<1>2. f \in Seq(Segm)
  BY <1>1, SegmentTyped, SeqMonotonic
<1>3. DOMAIN f = 1 .. Len(f)
  BY <1>2
<1> QED BY <1>1, <1>2, <1>3, BuildAssumption DEF Path

\* What is served, but a document or an answer of a handler, if it begins as a file.
LEMMA Reached ==
  ASSUME NEW q \in Path, NEW f \in Files, q[1] = f[1],
         q \notin Docs, q \notin AuthRoutes,
         ServeStatic(q).kind = "file" \/ HasExt(q, "gz")
  PROVE  Served(q).kind \in {"file", "redirect"} \/ HasExt(q, "gz")
<1>1. ~Relayed(q) /\ ~(Len(q) > 1 /\ q[1] = Seg("api"))
  BY FilesArePaths, Zenon DEF Relayed
<1>2. ~Owns(q)
  BY <1>1, Zenon DEF Owns
<1>3. Served(q) = ServeStatic(q) \/ (\E t : Served(q) = Redirect(t))
  BY <1>1, <1>2, Zenon DEF Served
<1> QED BY <1>3, Kinds

\* How the routes of a login end.
LEMMA AuthRoutesEnd ==
  \A r \in AuthRoutes :
    Last(r) \in {Seg("login"), Seg("callback"), Seg("logout"), Seg("notify")}
<1> SUFFICES ASSUME NEW r \in AuthRoutes
             PROVE  Last(r) \in {Seg("login"), Seg("callback"), Seg("logout"), Seg("notify")}
  OBVIOUS
<1>1. \/ r = <<Seg("login")>> \/ r = <<Seg("callback")>> \/ r = <<Seg("logout")>>
      \/ r = <<Seg("logout"), Seg("notify")>>
  BY DEF AuthRoutes
<1>2. \/ Last(r) = Seg("login") \/ Last(r) = Seg("callback") \/ Last(r) = Seg("logout")
      \/ Last(r) = Seg("notify")
  <2>1. (\A x : Last(<<x>>) = x) /\ (\A w, x : Last(<<w, x>>) = x)
    BY ShortPaths, Zenon
  <2> QED BY <1>1, <2>1
<1> QED BY <1>2, Zenon

\* A URL there is a file or a page for is served, once its slash is gone.
LEMMA SlashTaken ==
  ASSUME NEW q \in Path, Exists(q) \/ Exists(WithExt(q, "html"))
  PROVE  Served(q).kind \in {"file", "redirect"} \/ HasExt(q, "gz")
<1> SUFFICES ASSUME ~HasExt(q, "gz") PROVE Served(q).kind \in {"file", "redirect"}
  OBVIOUS
<1> DEFINE f == IF Exists(q) THEN q ELSE WithExt(q, "html")
<1>0. "html" \in Ext
  BY DEF Ext
<1>1. f \in Files /\ f \in Path
  BY FilesArePaths DEF Exists
<1>2. CASE Exists(q)
  <2>1. q \notin Docs \cup AuthRoutes
    BY <1>2, BuildAssumption DEF Exists
  <2>2. Written(q) /\ ServeStatic(q).kind = "file"
    <3>1. Written(q)
      BY <1>2 DEF Written
    <3>2. ~Slashed(q)
      BY <1>2, FilesArePaths, LastFront DEF Exists, Slashed
    <3> QED BY <3>1, <3>2, Kinds DEF ServeStatic, AnswerPage
  <2> QED BY <1>2, <2>1, <2>2, Reached DEF Exists
<1>3. CASE ~Exists(q) /\ Exists(WithExt(q, "html"))
  <2> DEFINE g == WithExt(q, "html")
  <2>1. /\ g \in Files /\ g \in Path /\ Len(g) = Len(q) /\ HasExt(g, "html") /\ CutExt(g) = q
        /\ \A i \in 1 .. Len(q) - 1 : g[i] = q[i]
        /\ Last(g).ext = Append(Last(q).ext, "html")
    BY <1>0, <1>3, FilesArePaths, WithExtOf DEF Exists
  <2> HIDE DEF g
  <2>2. ~Asset(q) /\ ~Slashed(q)
    BY <2>1, BuildAssumption, Zenon DEF Slashed
  <2>3. Written(g)
    BY <1>3, <2>1, ExtNames DEF Written, HasExt, g
  <2>4. ServeStatic(q).kind = "file"
    BY <2>2, <2>3, Kinds DEF ServeStatic, AnswerPage, g
  <2>5. Last(q).ext \in Seq(Ext) /\ Len(q) \in Nat \ {0}
    BY LastFront
  <2>6. q \notin Docs
    <3> SUFFICES ASSUME q \in Docs PROVE FALSE
      OBVIOUS
    <3>1. Last(q).ext # << >>
      BY BuildAssumption
    <3>2. Last(g) # IndexHtml
      <4>1. Len(Append(Last(q).ext, "html")) > 1
        BY <1>0, <2>5, <3>1, EmptySeq
      <4>2. Len(<<"html">>) = 1
        OBVIOUS
      <4> QED BY <2>1, <4>1, <4>2, KnownTyped
    <3>3. Clean(g) = q
      BY <2>1, <3>2 DEF Clean
    <3> QED BY <2>1, <3>3, BuildAssumption
  <2>7. q \notin AuthRoutes
    <3> SUFFICES ASSUME q \in AuthRoutes PROVE FALSE
      OBVIOUS
    <3>1. Last(q) \in {Seg("login"), Seg("callback"), Seg("logout"), Seg("notify")}
      BY AuthRoutesEnd, Zenon
    <3>2. Last(g) = IndexHtml
      <4>1. Clean(g) # q
        BY <2>1, BuildAssumption
      <4> QED BY <2>1, <4>1 DEF Clean
    <3>3. Longer(Last(q), "html") = IndexHtml
      <4>1. g = Ending(q, Longer(Last(q), "html"))
        BY ShortPaths, Zenon DEF g
      <4> QED BY <1>0, <3>2, <4>1, LastFront, LongerOf, EndingOf
    <3>4. \A s \in Segm : Longer(s, "html").name = s.name
      BY DEF Longer, Segm
    <3>5. Last(q).name = IndexHtml.name
      BY <3>3, <3>4, LastFront
    <3>6. \A n : Seg(n).name = n
      BY DEF Seg
    <3>7. IndexHtml.name = "index"
      BY DEF IndexHtml, Dotted
    <3> QED BY <3>1, <3>5, <3>6, <3>7
  <2>8. q[1] = g[1] \/ Len(q) = 1
    BY <2>1, <2>5
  <2>9. CASE q[1] = g[1]
    BY <2>1, <2>4, <2>6, <2>7, <2>9, Reached
  <2>10. CASE Len(q) = 1
    <3>1. ~Relayed(q) /\ ~Owns(q)
      BY <2>7, <2>10 DEF Relayed, Owns
    <3>2. Served(q) = ServeStatic(q) \/ (\E t : Served(q) = Redirect(t))
      BY <2>6, <3>1, Zenon DEF Served
    <3> QED BY <2>4, <3>2, Kinds
  <2> QED BY <2>8, <2>9, <2>10
<1> QED BY <1>2, <1>3

\* A URL there is a directory for is served, once it has a slash.
LEMMA SlashAdded ==
  ASSUME NEW p \in Path, Exists(Append(p, IndexHtml))
  PROVE  Served(Append(p, Empty)).kind \in {"file", "redirect"}
<1> DEFINE q == Append(p, Empty)
           f == Append(p, IndexHtml)
<1>1. p \in Seq(Segm) /\ p # << >> /\ Empty \in Segm /\ IndexHtml \in Segm /\ Len(p) \in Nat \ {0}
  BY KnownTyped, LastFront DEF Known, Path
<1>2. /\ q \in Path /\ Last(q) = Empty /\ Front(q) = p /\ Last(f) = IndexHtml
      /\ q[1] = p[1] /\ f[1] = p[1] /\ f \in Files
  <2>1. q[1] = p[1] /\ f[1] = p[1]
    BY <1>1
  <2> QED BY <1>1, <2>1, AppendPath DEF Exists
<1> HIDE DEF q
<1>3. q \notin Docs
  BY <1>2, BuildAssumption, KnownTyped
<1>4. q \notin AuthRoutes
  <2>1. /\ Empty # Seg("login") /\ Empty # Seg("callback") /\ Empty # Seg("logout")
        /\ Empty # Seg("notify")
    <3>1. "" # "login" /\ "" # "callback" /\ "" # "logout" /\ "" # "notify"
      BY Zenon
    <3> QED BY <3>1, SegInjective, Zenon DEF Empty
  <2>2. \A r \in AuthRoutes : Last(r) # Empty
    BY <2>1, AuthRoutesEnd, Zenon
  <2> QED BY <1>2, <2>2
<1>5. ServeStatic(q).kind = "file" /\ ~HasExt(q, "gz")
  <2>1. ~HasExt(q, "gz") /\ ~Asset(q)
    BY <1>2, KnownTyped DEF HasExt, Asset
  <2>2. Written(f)
    BY <1>2, KnownTyped, ExtNames DEF Written, HasExt
  <2> QED BY <1>2, <2>1, <2>2, Kinds DEF ServeStatic, AnswerSlashed, Slashed
<1> QED BY <1>2, <1>3, <1>4, <1>5, Reached DEF q

\* A redirect that adds or takes away a slash goes to something that is served.
LEMMA SlashLands ==
  ASSUME NEW p \in Path, lang \in LangSegs, Served(p).kind = "redirect", p # <<Empty>>,
         Unslashed(p) = Unslashed(Served(p).to)
  PROVE  Served(Served(p).to).kind \in {"file", "redirect"} \/ HasExt(Served(p).to, "gz")
<1> DEFINE q == Served(p).to
<1>1. ~(Legacy(p) /\ Served(p) = Redirect(Moves(p)))
  BY MovesAway, Kinds
<1>2. /\ Len(p) \in Nat \ {0} /\ Front(p) \in Seq(Segm) /\ Len(Front(p)) = Len(p) - 1
      /\ Empty \in Segm
  BY LastFront, KnownTyped DEF Known
<1>3. ~(Last(p) = IndexHtml /\ Served(p) = Redirect(Append(Front(p), Empty)))
  <2> SUFFICES ASSUME Last(p) = IndexHtml, Served(p) = Redirect(Append(Front(p), Empty))
               PROVE  FALSE
    OBVIOUS
  <2>1. q = Append(Front(p), Empty)
    BY Kinds
  <2>2. Unslashed(q) = Front(p)
    BY <1>2, <2>1, AppendPath DEF Unslashed, Slashed
  <2>3. Unslashed(p) = p
    BY ExtNames DEF Unslashed, Slashed
  <2> QED BY <1>2, <2>2, <2>3
<1>4. ~(HasExt(p, "html") /\ Served(p) = Redirect(CutExt(p)))
  <2> SUFFICES ASSUME HasExt(p, "html"), Served(p) = Redirect(CutExt(p)) PROVE FALSE
    OBVIOUS
  <2>1. q = CutExt(p) /\ Last(p).ext # << >>
    BY Kinds DEF HasExt
  <2>2. q \in Path /\ Len(q) = Len(p)
    BY <2>1, CutExtPath
  <2>3. Unslashed(p) = p
    BY <2>1, ExtNames DEF Unslashed, Slashed
  <2>4. Len(Front(q)) = Len(p) - 1
    BY <2>2, LastFront
  <2>5. q = p
    BY <1>2, <2>3, <2>4 DEF Unslashed
  <2>6. CutExt(p) = Ending(p, Shorter(Last(p)))
    BY LastFront, Zenon DEF CutExt, Ending, Shorter
  <2>7. Last(p) = Shorter(Last(p))
    <3>1. Last(p) \in Segm
      BY LastFront
    <3>2. Shorter(Last(p)) \in Segm
      BY <2>1, <3>1, ShorterTyped
    <3>3. Last(Ending(p, Shorter(Last(p)))) = Shorter(Last(p))
      BY <3>2, EndingOf
    <3> QED BY <2>1, <2>5, <2>6, <3>3, Zenon
  <2>8. Shorter(Last(p)).ext = Front(Last(p).ext)
    BY LastFront DEF Shorter, Segm
  <2>9. Last(p).ext \in Seq(Ext) /\ Len(Front(Last(p).ext)) = Len(Last(p).ext) - 1
        /\ Len(Last(p).ext) \in Nat
    BY <2>1, LastFront, FrontOf
  <2> QED BY <2>7, <2>8, <2>9
<1>5. Served(p) = ServeStatic(p)
  BY <1>1, <1>3, <1>4, Kinds, Zenon DEF Served
<1>6. CASE /\ Slashed(p) /\ Front(p) # << >> /\ ServeStatic(p) = Redirect(Front(p))
           /\ Exists(Front(p)) \/ Exists(WithExt(Front(p), "html"))
  <2>1. q = Front(p) /\ q \in Path
    BY <1>2, <1>5, <1>6, Kinds DEF Path
  <2> QED BY <1>6, <2>1, SlashTaken
<1>7. CASE /\ ServeStatic(p) = Redirect(Append(p, Empty)) /\ Exists(Append(p, IndexHtml))
  BY <1>5, <1>7, Kinds, SlashAdded
<1> QED BY <1>5, <1>6, <1>7, StaticRedirects

---------------------------------------------------------------------------
(* Renamed chapters take one hop.                                          *)

\* No chapter that is an exception is without a name.
LEMMA ExceptionsNamed ==
  \A i \in 1 .. 4 : Exceptions[i].slugs # {} /\ "" \notin Exceptions[i].slugs
<1>1. /\ Exceptions[1] = Moved({"p3-reasoning"}, {"training-agents-to-act"}, "orchestration")
      /\ Exceptions[2] = Moved({"infrastructure", "p7-infrastructure", "p11-frontiers"},
           {"where-learning-hits-limits", "the-capability-horizon",
            "verification-frontier"}, "frontiers")
      /\ Exceptions[3] = Moved({"p11-frontiers"},
           {"beyond-text", "diffusion-flow-matching", "speech-and-voice",
            "nar-diffusion-lms", "multimodal-models"}, "generative")
      /\ Exceptions[4] = Renamed({"practice", "p10-practical"}, "wiring-a-2026-stack",
                                 "practice", "wiring-the-application-stack")
  BY DEF Exceptions
<1>2. /\ Exceptions[1].slugs = {"training-agents-to-act"}
      /\ Exceptions[2].slugs = {"where-learning-hits-limits", "the-capability-horizon",
                                "verification-frontier"}
      /\ Exceptions[3].slugs = {"beyond-text", "diffusion-flow-matching", "speech-and-voice",
                                "nar-diffusion-lms", "multimodal-models"}
      /\ Exceptions[4].slugs = {"wiring-a-2026-stack"}
  <2>1. /\ Exceptions[1].slugs = {"training-agents-to-act"}
        /\ Exceptions[4].slugs = {"wiring-a-2026-stack"}
    BY <1>1, RuleFields
  <2>2. Exceptions[2].slugs = {"where-learning-hits-limits", "the-capability-horizon",
                               "verification-frontier"}
    BY <1>1, RuleFields
  <2>3. Exceptions[3].slugs = {"beyond-text", "diffusion-flow-matching", "speech-and-voice",
                               "nar-diffusion-lms", "multimodal-models"}
    BY <1>1, RuleFields
  <2> QED BY <2>1, <2>2, <2>3, Zenon
<1>3. /\ "" # "training-agents-to-act" /\ "" # "where-learning-hits-limits"
      /\ "" # "the-capability-horizon" /\ "" # "verification-frontier"
      /\ "" # "beyond-text" /\ "" # "diffusion-flow-matching" /\ "" # "speech-and-voice"
      /\ "" # "nar-diffusion-lms" /\ "" # "multimodal-models" /\ "" # "wiring-a-2026-stack"
  BY Zenon
<1>4. "" \notin Exceptions[1].slugs /\ "" \notin Exceptions[2].slugs
  BY <1>2, <1>3, Zenon
<1>5. "" \notin Exceptions[3].slugs /\ "" \notin Exceptions[4].slugs
  BY <1>2, <1>3, Zenon
<1>6. \A i \in 1 .. 4 : i = 1 \/ i = 2 \/ i = 3 \/ i = 4
  OBVIOUS
<1>7. /\ Exceptions[1].slugs # {} /\ Exceptions[2].slugs # {} /\ Exceptions[3].slugs # {}
      /\ Exceptions[4].slugs # {}
  BY <1>2
<1> QED BY <1>4, <1>5, <1>6, <1>7, Zenon

\* The part an exception leads to is not one that a rule matches, but for the
\* chapter with a new name.
LEMMA ExceptionsLead ==
  /\ {Exceptions[i].to : i \in 1 .. 3} \cap (Old \cup {"infrastructure", "practice"}) = {}
  /\ "practice" \notin Old \cup {"infrastructure"}
<1>1. \A i \in 1 .. 3 : i = 1 \/ i = 2 \/ i = 3
  OBVIOUS
<1>2. /\ {"orchestration", "frontiers", "generative"} \cap (Old \cup {"infrastructure", "practice"}) = {}
      /\ "practice" \notin Old \cup {"infrastructure"}
  BY DEF Old
<1>3. {Exceptions[i].to : i \in 1 .. 3} \subseteq {"orchestration", "frontiers", "generative"}
  BY <1>1, ExceptionsAre
<1> QED BY <1>2, <1>3, Zenon

\* The rules that match a part that is not an old one.
LEMMA RuleDirs ==
  ASSUME NEW j \in DOMAIN Redirects, NEW d \in Redirects[j].dirs, d \notin Old
  PROVE  d = "infrastructure" \/ (d = "practice" /\ Redirects[j] = Exceptions[4])
<1>1. DOMAIN Redirects = 1 .. 19
  BY RedirectsAre, RedirectsNumbered
<1>2. CASE j \in 5 .. 19
  <2>1. j - 4 \in 1 .. 15
    BY <1>2
  <2>2. Redirects[j].dirs = {Parts[j - 4][1]}
    <3>1. Redirects[j] = Moved({Parts[j - 4][1]}, Slugs, Parts[j - 4][2])
      BY <1>2, RedirectsAre
    <3> QED BY <3>1, RuleFields
  <2> QED BY <2>1, <2>2, PartsMove
<1>3. CASE j \in {1, 2, 3, 4}
  <2>1. Redirects[j] = Exceptions[j]
    BY <1>3, RedirectsAre
  <2> QED BY <1>3, <2>1, ExceptionsAre
<1>4. j \in {1, 2, 3, 4} \/ j \in 5 .. 19
  BY <1>1
<1> QED BY <1>2, <1>3, <1>4

\* Where an old link of a renamed or regrouped chapter leads.
LEMMA ExceptedMoves ==
  ASSUME NEW p \in Path, Excepted(p)
  PROVE  /\ Legacy(p)
         /\ \E to, new \in Name :
              /\ Moves(p) = <<p[1], Seg(to), Seg(new)>> /\ new # ""
              /\ to \notin Old \cup {"infrastructure"}
              /\ to = "practice" => new # "wiring-a-2026-stack"
<1>1. PICK k \in 1 .. 4 : Matches(Redirects[k], p)
  <2>1. \A a, b, c, d : DOMAIN <<a, b, c, d>> = 1 .. 4
    OBVIOUS
  <2>2. DOMAIN Exceptions = 1 .. 4
    BY <2>1, Zenon DEF Exceptions
  <2> QED BY <2>2, RedirectsAre, Zenon DEF Excepted
<1>2. DOMAIN Redirects = 1 .. 19
  BY RedirectsAre, RedirectsNumbered
<1>3. Legacy(p)
  BY <1>1, <1>2 DEF Legacy
<1>4. PICK i \in DOMAIN Redirects : /\ Matches(Redirects[i], p)
                                    /\ Moves(p) = Target(Redirects[i], p) /\ i <= k
  BY <1>1, <1>2, <1>3, FirstRule
<1>5. i \in 1 .. 4
  BY <1>2, <1>4
<1> DEFINE r == Exceptions[i]
           new == IF r.slug = "" THEN p[3].name ELSE r.slug
<1>6. Redirects[i] = r
  BY <1>5, RedirectsAre
<1>7. /\ Len(Unslashed(p)) = 3 /\ Unslashed(p)[3].name \in r.slugs
  BY <1>4, <1>6 DEF Matches
<1>8. p[3] = Unslashed(p)[3] /\ p[3] \in Segm
  BY <1>7, ThirdOf, Zenon
<1>9. p[3].name \in Name /\ r.slug \in Name /\ r.to \in Name
  <2>1. p[3].name \in Name
    BY <1>8 DEF Segm
  <2> QED BY <1>4, <1>6, <2>1, Zenon DEF Name
<1>10. Moves(p) = <<p[1], Seg(r.to), Seg(new)>>
  BY <1>4, <1>6, Zenon DEF Target
<1>11. new \in Name
  BY <1>9, Zenon
<1>12. new # ""
  BY <1>5, <1>7, <1>8, ExceptionsNamed, Zenon
<1>13. r.to \notin Old \cup {"infrastructure"}
       /\ (r.to = "practice" => new # "wiring-a-2026-stack")
  <2>1. CASE i \in 1 .. 3
    <3>1. r.to \notin Old \cup {"infrastructure", "practice"}
      BY <2>1, ExceptionsLead
    <3> HIDE DEF new
    <3> QED BY <3>1
  <2>2. CASE i = 4
    <3>1. "wiring-the-application-stack" # "" /\ "wiring-the-application-stack" # "wiring-a-2026-stack"
      BY Zenon
    <3>2. new = "wiring-the-application-stack" /\ r.to = "practice"
      BY <2>2, <3>1, ExceptionsAre, Zenon
    <3> HIDE DEF new
    <3> QED BY <3>1, <3>2, ExceptionsLead, Zenon
  <2> HIDE DEF new
  <2> QED BY <1>5, <2>1, <2>2
<1> QED BY <1>3, <1>9, <1>10, <1>11, <1>12, <1>13, Zenon

\* An old link of a renamed or regrouped chapter takes one hop.
LEMMA OneHopOnly ==
  ASSUME NEW p \in Path, Excepted(p), Served(p).kind = "redirect"
  PROVE  Served(Served(p).to).kind # "redirect"
<1>1. Legacy(p)
  BY ExceptedMoves
<1>2. PICK to, new \in Name :
              /\ Moves(p) = <<p[1], Seg(to), Seg(new)>> /\ new # ""
              /\ to \notin Old \cup {"infrastructure"}
              /\ to = "practice" => new # "wiring-a-2026-stack"
  BY ExceptedMoves
<1> DEFINE q == Moves(p)
<1>3. Served(p) = Redirect(q)
  <2>1. p # <<Empty>>
    <3> SUFFICES ASSUME p = <<Empty>> PROVE FALSE
      OBVIOUS
    <3>1. Len(Unslashed(p)) = 3
      BY <1>1, FirstRule DEF Matches
    <3>2. Len(p) = 1
      OBVIOUS
    <3> QED BY <3>1, <3>2, LastFront DEF Unslashed
  <2> QED BY <1>1, <2>1, Kinds, Zenon DEF Served
<1>4. q \in Path /\ Len(q) = 3 /\ q[2] = Seg(to) /\ q[3] = Seg(new) /\ Last(q) = Seg(new)
  <2>1. q \in Path
    BY <1>1, MovesTo
  <2>2. ASSUME NEW a, NEW b, NEW c, NEW r, r = <<a, b, c>>
        PROVE  Len(r) = 3 /\ r[2] = b /\ r[3] = c /\ Last(r) = c
    BY <2>2 DEF Last
  <2>3. q = <<p[1], Seg(to), Seg(new)>>
    BY <1>2, Zenon
  <2> HIDE DEF q
  <2>4. Len(q) = 3 /\ q[2] = Seg(to) /\ q[3] = Seg(new) /\ Last(q) = Seg(new)
    BY <2>2, <2>3
  <2> QED BY <2>1, <2>4
<1> HIDE DEF q
<1>5. \A n : Seg(n).ext = << >> /\ Seg(n).name = n
  BY DEF Seg
<1>6. ~Slashed(q)
  BY <1>2, <1>4, SegInjective, Zenon DEF Slashed, Empty
<1>7. ~Legacy(q)
  <2> SUFFICES ASSUME NEW j \in DOMAIN Redirects, Matches(Redirects[j], q) PROVE FALSE
    BY Zenon DEF Legacy
  <2>1. /\ Unslashed(q) = q
        /\ q[2] \in {Seg(d) : d \in Redirects[j].dirs} /\ q[3].name \in Redirects[j].slugs
    BY <1>6, Zenon DEF Matches, Unslashed
  <2>2. to \in Redirects[j].dirs /\ new \in Redirects[j].slugs
    <3>1. q[3].name = new
      BY <1>4, <1>5
    <3> QED BY <1>4, <2>1, <3>1, SegInjective, Zenon
  <2>3. to = "practice" /\ Redirects[j] = Exceptions[4]
    BY <1>2, <2>2, RuleDirs, Zenon
  <2> QED BY <1>2, <2>2, <2>3, ExceptionsAre, Zenon
<1>8. Last(q) # IndexHtml /\ ~HasExt(q, "html") /\ ~Asset(q)
  <2>1. Last(q).ext = << >>
    BY <1>4, <1>5, Zenon
  <2>2. Last(q) # IndexHtml
    BY <2>1, KnownTyped, ExtNames
  <2> QED BY <2>1, <2>2 DEF HasExt, Asset
<1>9. q # <<Empty>>
  <2>1. Len(<<Empty>>) = 1
    OBVIOUS
  <2> QED BY <1>4, <2>1
<1>10. Served(q) \in {Handler, ServeStatic(q)}
  BY <1>7, <1>8, <1>9, Zenon DEF Served
<1>11. ServeStatic(q).kind # "redirect"
  <2> SUFFICES ASSUME ServeStatic(q).kind = "redirect" PROVE FALSE
    OBVIOUS
  <2>1. Append(q, IndexHtml) \in Files
    BY <1>6, StaticRedirects, Zenon DEF Exists
  <2>2. Last(Append(q, IndexHtml)) = IndexHtml /\ Len(Append(q, IndexHtml)) = 4
    <3>1. q \in Seq(Segm) /\ IndexHtml \in Segm
      BY <1>4, KnownTyped DEF Path, Known
    <3>2. Len(Append(q, IndexHtml)) = Len(q) + 1
      BY <3>1, FrontOfAppend
    <3>3. Last(Append(q, IndexHtml)) = IndexHtml
      BY <3>1, FrontOfAppend
    <3> QED BY <1>4, <3>2, <3>3
  <2> QED BY <2>1, <2>2, BuildAssumption
<1>12. Served(p).to = q
  BY <1>3, Kinds, Zenon
<1> QED BY <1>10, <1>11, <1>12, Kinds

---------------------------------------------------------------------------
(* A release. The strengthening.                                           *)

Phases == {"none", "starting", "serving", "stopping", "draining", "gone"}

\* The requests that may be followed.
Followed == [pod : Servers!Pods, length : Nat, left : Nat \ {0}]

PodsTyped == /\ target \in Servers!Pods
             /\ phase \in [Servers!Pods -> Phases] /\ age \in [Servers!Pods -> Nat]
             /\ ready \subseteq Servers!Pods /\ upstream \subseteq Servers!Pods
             /\ req \in Followed \cup {None} /\ cut \in Nat
             /\ db \in BOOLEAN /\ trouble \in BOOLEAN

\* Endpoints are of pods that serve, and a process has its pool until it ends.
ReadyServe == \A p \in ready : phase[p] = "serving"
Pooled     == \A p \in Servers!Pods : phase[p] \in {"serving", "stopping", "draining"} => p \in pools

\* A pod ages once it is told to stop, and the ingress drops it soon enough.
Young   == \A p \in Servers!Pods : phase[p] \in {"none", "starting", "serving"} => age[p] = 0
Dropped == \A p \in upstream : phase[p] \in {"stopping", "draining"} => age[p] <= Lag

\* Without trouble an endpoint is left, and nothing is routed to that does not answer.
Untroubled == trouble \/ (db /\ ready # {} /\ upstream # {} /\ upstream \subseteq Servers!Answers)

\* A request is with a process that has its pool, and came before the ingress
\* had dropped it.
InService ==
  req # None => /\ phase[req.pod] \in {"serving", "stopping", "draining"}
                /\ age[req.pod] + req.left <= Lag + req.length

CutLate == cut # 0 => cut > Drain

ReleaseInv == /\ PodsTyped /\ ReadyServe /\ Pooled /\ Young /\ Dropped
              /\ Untroubled /\ InService /\ CutLate

---------------------------------------------------------------------------
(* The initial states, and one lemma for each group of actions.            *)

LEMMA ReleaseInit == Servers!Init => ReleaseInv
<1> SUFFICES ASSUME Servers!Init PROVE ReleaseInv
  OBVIOUS
<1>1. 0 \in Servers!Pods
  BY ReleasesAssumption DEF Servers!Pods
<1>2. phase[0] = "serving" /\ \A p \in Servers!Pods : age[p] = 0
  BY <1>1 DEF Servers!Init
<1>3. PodsTyped
  BY <1>1 DEF Servers!Init, PodsTyped, Phases
<1>4. ReadyServe /\ Pooled /\ Young /\ Dropped
  BY <1>1, <1>2 DEF Servers!Init, ReadyServe, Pooled, Young, Dropped
<1>5. Untroubled
  BY <1>1, <1>2 DEF Servers!Init, Untroubled, Servers!Answers
<1>6. InService /\ CutLate
  BY DEF Servers!Init, InService, CutLate
<1> QED BY <1>3, <1>4, <1>5, <1>6 DEF ReleaseInv

\* The cardinality that Release counts pods with is that of the library.
LEMMA ServersLibrary == \A S : Servers!Cardinality(S) = Cardinality(S)
BY Zenon DEF Servers!Cardinality, Cardinality

\* A pod whose process changes, everything else of it but its pool being as it was.
LEMMA OnePod ==
  ASSUME PodsTyped, NEW p \in Servers!Pods, NEW what \in Phases, Servers!Becomes(p, what)
  PROVE  /\ phase' \in [Servers!Pods -> Phases] /\ phase'[p] = what
         /\ \A o \in Servers!Pods : o # p => phase'[o] = phase[o]
BY DEF PodsTyped, Servers!Becomes

\* Apply changes what is asked for only.
LEMMA ApplyKeeps == ReleaseInv /\ Servers!Apply => ReleaseInv'
<1> SUFFICES ASSUME ReleaseInv, Servers!Apply PROVE ReleaseInv'
  OBVIOUS
<1>1. UNCHANGED <<phase, age, pools, ready, upstream, req, cut, db, trouble>>
  BY DEF Servers!Apply, Servers!pods
<1>2. target' \in Servers!Pods
  BY ReleasesAssumption DEF ReleaseInv, PodsTyped, Servers!Apply, Servers!Pods
<1> QED BY <1>1, <1>2 DEF ReleaseInv, PodsTyped, ReadyServe, Pooled, Young, Dropped,
                          Untroubled,
                          Servers!Answers, InService, CutLate

\* A pod that is begun serves nobody yet.
LEMMA SurgeKeeps == ReleaseInv /\ Servers!Surge => ReleaseInv'
<1> SUFFICES ASSUME ReleaseInv, Servers!Surge PROVE ReleaseInv'
  OBVIOUS
<1>1. /\ phase[target] = "none" /\ Servers!Becomes(target, "starting")
      /\ UNCHANGED <<target, age, pools, ready, upstream, req, cut, db, trouble>>
  BY DEF Servers!Surge
<1>2. /\ phase' \in [Servers!Pods -> Phases] /\ phase'[target] = "starting"
      /\ \A o \in Servers!Pods : o # target => phase'[o] = phase[o]
  BY <1>1, OnePod DEF ReleaseInv, PodsTyped, Phases
<1>3. PodsTyped' /\ CutLate'
  BY <1>1, <1>2 DEF ReleaseInv, PodsTyped, CutLate
<1>4. ReadyServe' /\ Pooled' /\ Young' /\ Dropped'
  BY <1>1, <1>2 DEF ReleaseInv, PodsTyped, ReadyServe, Pooled, Young, Dropped
<1>5. Untroubled'
  BY <1>1, <1>2 DEF ReleaseInv, Untroubled, Servers!Answers
<1>6. InService'
  BY <1>1, <1>2 DEF ReleaseInv, PodsTyped, InService, Followed
<1> QED BY <1>3, <1>4, <1>5, <1>6 DEF ReleaseInv

\* The old pod is stopped while another endpoint stays, and does not age before.
LEMMA StopOldKeeps == ASSUME Lag \in Nat PROVE ReleaseInv /\ Servers!StopOld => ReleaseInv'
<1> SUFFICES ASSUME Lag \in Nat, ReleaseInv, Servers!StopOld PROVE ReleaseInv'
  OBVIOUS
<1>1. PICK p \in Servers!Active \ {target} :
        /\ Servers!MayStop(p)
        /\ Servers!Becomes(p, IF phase[p] = "serving" THEN "stopping" ELSE "gone")
        /\ ready' = ready \ {p}
  BY DEF Servers!StopOld
<1>2. /\ p \in Servers!Pods /\ phase[p] \in {"starting", "serving"}
      /\ UNCHANGED <<target, age, pools, upstream, req, cut, db, trouble>>
  BY DEF Servers!StopOld, Servers!Active
<1>3. PICK what \in Phases : /\ what = IF phase[p] = "serving" THEN "stopping" ELSE "gone"
                             /\ Servers!Becomes(p, what)
  BY <1>1 DEF Phases
<1>4. /\ phase' \in [Servers!Pods -> Phases] /\ phase'[p] = what
      /\ \A o \in Servers!Pods : o # p => phase'[o] = phase[o]
  BY <1>2, <1>3, OnePod DEF ReleaseInv
<1>5. PodsTyped' /\ CutLate'
  BY <1>1, <1>2, <1>4 DEF ReleaseInv, PodsTyped, CutLate
<1>6. ReadyServe' /\ Pooled'
  BY <1>1, <1>2, <1>3, <1>4 DEF ReleaseInv, PodsTyped, ReadyServe, Pooled
<1>7. age[p] = 0
  BY <1>2 DEF ReleaseInv, Young
<1>8. Young' /\ Dropped'
  BY <1>2, <1>3, <1>4, <1>7 DEF ReleaseInv, PodsTyped, Young, Dropped
<1>9. Untroubled'
  <2> SUFFICES ASSUME ~trouble
               PROVE  db /\ ready' # {} /\ upstream # {} /\ upstream \subseteq Servers!Answers'
    BY <1>2 DEF Untroubled
  <2>1. db /\ ready # {} /\ upstream # {} /\ upstream \subseteq Servers!Answers
    BY DEF ReleaseInv, Untroubled
  <2>2. ready \ {p} # {}
    <3>1. CASE p \in ready
      <4>1. Cardinality(Servers!Active \cap ready) > 1
        BY <1>1, <3>1, ServersLibrary DEF Servers!MayStop
      <4>2. Cardinality({}) = 0 /\ Cardinality({p}) = 1
        BY FS_EmptySet, FS_Singleton
      <4>3. Servers!Active \cap ready # {} /\ Servers!Active \cap ready # {p}
        BY <4>1, <4>2
      <4> QED BY <4>3
    <3>2. CASE p \notin ready
      BY <2>1, <3>2
    <3> QED BY <3>1, <3>2
  <2>3. upstream \subseteq Servers!Answers'
    <3> SUFFICES ASSUME NEW o \in upstream PROVE o \in Servers!Pods /\ phase'[o] \in {"serving", "stopping"}
      BY DEF Servers!Answers
    <3>1. o \in Servers!Pods /\ phase[o] \in {"serving", "stopping"}
      BY <2>1 DEF Servers!Answers
    <3> QED BY <3>1, <1>2, <1>3, <1>4
  <2> QED BY <1>1, <2>1, <2>2, <2>3
<1>10. InService'
  BY <1>2, <1>3, <1>4 DEF ReleaseInv, PodsTyped, InService, Followed
<1> QED BY <1>5, <1>6, <1>8, <1>9, <1>10 DEF ReleaseInv

\* A process that serves has its pool; until it is probed it is no endpoint.
LEMMA BootKeeps == ReleaseInv /\ Servers!Boot => ReleaseInv'
<1> SUFFICES ASSUME ReleaseInv, Servers!Boot PROVE ReleaseInv'
  OBVIOUS
<1>1. PICK p \in Servers!Pods : /\ phase[p] = "starting" /\ Servers!Becomes(p, "serving")
                                /\ pools' = pools \cup {p}
  BY DEF Servers!Boot
<1>2. UNCHANGED <<target, age, ready, upstream, req, cut, db, trouble>>
  BY DEF Servers!Boot
<1>3. /\ phase' \in [Servers!Pods -> Phases] /\ phase'[p] = "serving"
      /\ \A o \in Servers!Pods : o # p => phase'[o] = phase[o]
  BY <1>1, OnePod DEF ReleaseInv, Phases
<1>4. PodsTyped' /\ CutLate'
  BY <1>2, <1>3 DEF ReleaseInv, PodsTyped, CutLate
<1>5. ReadyServe' /\ Pooled' /\ Young' /\ Dropped'
  BY <1>1, <1>2, <1>3 DEF ReleaseInv, PodsTyped, ReadyServe, Pooled, Young, Dropped
<1>6. Untroubled'
  BY <1>2, <1>3 DEF ReleaseInv, Untroubled, Servers!Answers
<1>7. InService'
  BY <1>1, <1>2, <1>3 DEF ReleaseInv, PodsTyped, InService, Followed
<1> QED BY <1>4, <1>5, <1>6, <1>7 DEF ReleaseInv

\* Without trouble the database is there, so no probe takes an endpoint away.
LEMMA ProbeKeeps == ReleaseInv /\ Servers!Probe => ReleaseInv'
<1> SUFFICES ASSUME ReleaseInv, Servers!Probe PROVE ReleaseInv'
  OBVIOUS
<1>1. PICK p \in Servers!Pods : /\ phase[p] = "serving"
                                /\ ready' = IF db THEN ready \cup {p} ELSE ready \ {p}
  BY DEF Servers!Probe
<1>2. UNCHANGED <<target, phase, age, pools, upstream, req, cut, db, trouble>>
  BY DEF Servers!Probe, Servers!pods
<1>3. PodsTyped' /\ ReadyServe'
  BY <1>1, <1>2 DEF ReleaseInv, PodsTyped, ReadyServe
<1>4. Untroubled'
  BY <1>1, <1>2 DEF ReleaseInv, Untroubled, Servers!Answers
<1> QED BY <1>2, <1>3, <1>4 DEF ReleaseInv, Pooled, Young, Dropped, InService, CutLate

\* The listener shuts a sleep after the pod was told to stop, and by then the
\* ingress has dropped it.
LEMMA SigtermKeeps == ReleaseInv /\ Servers!Sigterm => ReleaseInv'
<1> SUFFICES ASSUME ReleaseInv, Servers!Sigterm PROVE ReleaseInv'
  OBVIOUS
<1>1. PICK p \in Servers!Pods : Servers!Told(p) /\ Servers!Becomes(p, "draining")
  BY DEF Servers!Sigterm
<1>2. UNCHANGED <<target, age, pools, ready, upstream, req, cut, db, trouble>>
  BY DEF Servers!Sigterm
<1>3. phase[p] = "stopping" /\ age[p] = Pause
  BY <1>1 DEF Servers!Told
<1>4. /\ phase' \in [Servers!Pods -> Phases] /\ phase'[p] = "draining"
      /\ \A o \in Servers!Pods : o # p => phase'[o] = phase[o]
  BY <1>1, OnePod DEF ReleaseInv, Phases
<1>5. p \notin upstream
  BY <1>3, ReleasesAssumption DEF ReleaseInv, Dropped
<1>6. PodsTyped' /\ CutLate'
  BY <1>2, <1>4 DEF ReleaseInv, PodsTyped, CutLate
<1>7. ReadyServe' /\ Pooled' /\ Young' /\ Dropped'
  BY <1>2, <1>3, <1>4 DEF ReleaseInv, PodsTyped, ReadyServe, Pooled, Young, Dropped
<1>8. Untroubled'
  BY <1>2, <1>4, <1>5 DEF ReleaseInv, Untroubled, Servers!Answers
<1>9. InService'
  BY <1>2, <1>4 DEF ReleaseInv, PodsTyped, InService, Followed
<1> QED BY <1>6, <1>7, <1>8, <1>9 DEF ReleaseInv

\* A request that is cut off has been under way for longer than the drain: it came
\* before the ingress dropped the pod, and the pod ends at its deadline only.
LEMMA ExitKeeps == ReleaseInv /\ Servers!Exit => ReleaseInv'
<1> SUFFICES ASSUME ReleaseInv, Servers!Exit PROVE ReleaseInv'
  OBVIOUS
<1>1. PICK p \in Servers!Pods :
        /\ Servers!MayExit(p) /\ Servers!Becomes(p, "gone") /\ pools' = pools \ {p}
        /\ IF Servers!InFlight(p) THEN req' = None /\ cut' = req.length ELSE UNCHANGED <<req, cut>>
  BY DEF Servers!Exit
<1>2. UNCHANGED <<target, age, ready, upstream, db, trouble>>
  BY DEF Servers!Exit
<1>3. phase[p] = "draining"
  BY <1>1 DEF Servers!MayExit
<1>4. /\ phase' \in [Servers!Pods -> Phases] /\ phase'[p] = "gone"
      /\ \A o \in Servers!Pods : o # p => phase'[o] = phase[o]
  BY <1>1, OnePod DEF ReleaseInv, Phases
<1>5. ASSUME Servers!InFlight(p) PROVE req.length \in Nat /\ req.length > Drain
  <2>1. req \in Followed /\ req.pod = p /\ req # None
    BY <1>5 DEF Servers!InFlight, ReleaseInv, PodsTyped
  <2>2. age[p] + req.left <= Lag + req.length
    BY <2>1 DEF ReleaseInv, InService
  <2>3. age[p] = Servers!Deadline
    BY <1>1, <1>5 DEF Servers!MayExit
  <2>4. req.length \in Nat /\ req.left \in Nat /\ req.left >= 1
    BY <2>1 DEF Followed
  <2>5. Servers!Deadline \in Nat /\ Servers!Deadline >= Lag + Drain
    BY ReleasesAssumption DEF Servers!Deadline
  <2> QED BY <2>2, <2>3, <2>4, <2>5, ReleasesAssumption
<1>6. CutLate' /\ cut' \in Nat
  BY <1>1, <1>5 DEF ReleaseInv, CutLate, PodsTyped
<1>7. PodsTyped'
  BY <1>1, <1>2, <1>4, <1>6 DEF ReleaseInv, PodsTyped
<1>8. ReadyServe' /\ Pooled' /\ Young' /\ Dropped'
  BY <1>1, <1>2, <1>3, <1>4 DEF ReleaseInv, PodsTyped, ReadyServe, Pooled, Young, Dropped
<1>9. Untroubled'
  BY <1>2, <1>3, <1>4 DEF ReleaseInv, Untroubled, Servers!Answers
<1>10. InService'
  <2>1. CASE Servers!InFlight(p)
    BY <1>1, <2>1 DEF InService
  <2>2. CASE ~Servers!InFlight(p)
    BY <1>1, <1>2, <1>4, <2>2 DEF ReleaseInv, PodsTyped, InService, Servers!InFlight,
                                  Followed
  <2> QED BY <2>1, <2>2
<1> QED BY <1>6, <1>7, <1>8, <1>9, <1>10 DEF ReleaseInv

\* The ingress routes to the endpoints, and those serve.
LEMMA SyncKeeps == ReleaseInv /\ Servers!Sync => ReleaseInv'
<1> SUFFICES ASSUME ReleaseInv, Servers!Sync PROVE ReleaseInv'
  OBVIOUS
<1>1. /\ upstream' = ready
      /\ UNCHANGED <<target, phase, age, pools, ready, req, cut, db, trouble>>
  BY DEF Servers!Sync, Servers!pods
<1>2. PodsTyped' /\ Dropped'
  BY <1>1 DEF ReleaseInv, PodsTyped, ReadyServe, Dropped
<1>3. Untroubled'
  BY <1>1 DEF ReleaseInv, PodsTyped, Untroubled, ReadyServe, Servers!Answers
<1> QED BY <1>1, <1>2, <1>3 DEF ReleaseInv, ReadyServe, Pooled, Young, InService, CutLate

\* A request comes to a pod the ingress has not dropped.
LEMMA ArriveKeeps == ReleaseInv /\ Servers!Arrive => ReleaseInv'
<1> SUFFICES ASSUME ReleaseInv, Servers!Arrive PROVE ReleaseInv'
  OBVIOUS
<1>1. PICK p \in upstream \cap Servers!Answers, n \in 1 .. MaxLength :
        req' = [pod |-> p, length |-> n, left |-> n]
  BY DEF Servers!Arrive
<1>2. UNCHANGED <<target, phase, age, pools, ready, upstream, cut, db, trouble>>
  BY DEF Servers!Arrive, Servers!pods
<1>3. /\ p \in Servers!Pods /\ p \in upstream /\ phase[p] \in {"serving", "stopping"}
      /\ n \in Nat \ {0}
  BY <1>1 DEF Servers!Answers
<1>4. /\ req' \in Followed /\ req'.pod = p /\ req'.length = n /\ req'.left = n
  BY <1>1, <1>3 DEF Followed
<1>5. age[p] <= Lag /\ age[p] \in Nat
  BY <1>3, ReleasesAssumption DEF ReleaseInv, PodsTyped, Dropped, Young
<1>6. InService'
  BY <1>2, <1>3, <1>4, <1>5, ReleasesAssumption DEF InService
<1>7. PodsTyped'
  BY <1>2, <1>4 DEF ReleaseInv, PodsTyped
<1> QED BY <1>2, <1>6, <1>7 DEF ReleaseInv, ReadyServe, Pooled, Young, Dropped, Untroubled,
                              Servers!Answers, CutLate

\* What a tick adds to a pod's age it takes from the request; a pod the ingress
\* still routes to has not aged past the lag.
LEMMA TickKeeps == ReleaseInv /\ Servers!Tick => ReleaseInv'
<1> SUFFICES ASSUME ReleaseInv, Servers!Tick PROVE ReleaseInv'
  OBVIOUS
<1>1. /\ \A p \in Servers!Ending : p \in upstream => age[p] < Lag
      /\ age' = [p \in Servers!Pods |-> IF p \in Servers!Ending THEN age[p] + 1 ELSE age[p]]
      /\ req' = IF req = None \/ req.left = 1 THEN None ELSE [req EXCEPT !.left = @ - 1]
      /\ UNCHANGED <<target, phase, pools, ready, upstream, cut, db, trouble>>
  BY DEF Servers!Tick
<1>2. age \in [Servers!Pods -> Nat]
  BY DEF ReleaseInv, PodsTyped
<1>3. /\ age' \in [Servers!Pods -> Nat]
      /\ \A p \in Servers!Pods : age'[p] \in {age[p], age[p] + 1}
      /\ \A p \in Servers!Pods : p \notin Servers!Ending => age'[p] = age[p]
  BY <1>1, <1>2
<1>4. ASSUME req' # None
      PROVE  /\ req \in Followed /\ req # None /\ req' \in Followed
             /\ req'.pod = req.pod /\ req'.length = req.length /\ req'.left = req.left - 1
  <2>1. req \in Followed /\ req # None /\ req.left # 1
    BY <1>1, <1>4 DEF ReleaseInv, PodsTyped
  <2>2. req' = [req EXCEPT !.left = req.left - 1]
    BY <1>1, <2>1
  <2>3. req.left \in Nat /\ req.left - 1 \in Nat \ {0}
    BY <2>1 DEF Followed
  <2> QED BY <2>1, <2>2, <2>3 DEF Followed
<1>5. PodsTyped'
  BY <1>1, <1>3, <1>4 DEF ReleaseInv, PodsTyped
<1>6. Young'
  BY <1>1, <1>3 DEF ReleaseInv, Young, Servers!Ending
<1>7. Dropped'
  <2> SUFFICES ASSUME NEW p \in upstream, phase[p] \in {"stopping", "draining"}
               PROVE  age'[p] <= Lag
    BY <1>1 DEF Dropped
  <2>1. p \in Servers!Ending /\ p \in Servers!Pods
    BY DEF Servers!Ending, ReleaseInv, PodsTyped
  <2>2. age[p] < Lag /\ age'[p] \in {age[p], age[p] + 1} /\ age[p] \in Nat
    BY <1>1, <1>2, <1>3, <2>1
  <2> QED BY <2>2, ReleasesAssumption
<1>8. InService'
  <2> SUFFICES ASSUME req' # None
               PROVE  /\ phase[req'.pod] \in {"serving", "stopping", "draining"}
                      /\ age'[req'.pod] + req'.left <= Lag + req'.length
    BY <1>1 DEF InService
  <2>1. /\ phase[req.pod] \in {"serving", "stopping", "draining"}
        /\ age[req.pod] + req.left <= Lag + req.length
    BY <1>4 DEF ReleaseInv, InService
  <2>2. req.pod \in Servers!Pods /\ req.left \in Nat /\ req.length \in Nat
    BY <1>4 DEF Followed
  <2>3. age[req.pod] \in Nat /\ age'[req.pod] \in {age[req.pod], age[req.pod] + 1}
    BY <1>2, <1>3, <2>2
  <2> QED BY <1>4, <2>1, <2>2, <2>3, ReleasesAssumption
<1> QED BY <1>1, <1>5, <1>6, <1>7, <1>8
        DEF ReleaseInv, ReadyServe, Pooled, Untroubled, Servers!Answers, CutLate

\* Trouble: from then on nothing is promised of the endpoints until the service
\* has recovered.
LEMMA TroubleKeeps == ReleaseInv /\ (Servers!Outage \/ Servers!DbComesBack \/ Servers!Recover) => ReleaseInv'
<1> SUFFICES ASSUME ReleaseInv, Servers!Outage \/ Servers!DbComesBack \/ Servers!Recover PROVE ReleaseInv'
  OBVIOUS
<1>1. UNCHANGED <<target, phase, age, pools, ready, upstream, req, cut>>
  BY DEF Servers!Outage, Servers!DbComesBack, Servers!Recover, Servers!pods
<1>2. db' \in BOOLEAN /\ trouble' \in BOOLEAN
  BY DEF ReleaseInv, PodsTyped, Servers!Outage, Servers!DbComesBack, Servers!Recover
<1>3. Untroubled'
  <2>1. CASE Servers!Outage
    BY <2>1 DEF Servers!Outage, Untroubled
  <2>2. CASE Servers!DbComesBack
    BY <1>1, <2>2 DEF Servers!DbComesBack, Untroubled, ReleaseInv, Servers!Answers
  <2>3. CASE Servers!Recover
    <3>1. db' = db /\ db /\ upstream = ready /\ ready # {}
      BY <2>3 DEF Servers!Recover
    <3>2. upstream \subseteq Servers!Answers
      BY <3>1 DEF ReleaseInv, PodsTyped, ReadyServe, Servers!Answers
    <3>3. Servers!Answers' = Servers!Answers
      BY <1>1 DEF Servers!Answers
    <3> QED BY <1>1, <3>1, <3>2, <3>3 DEF Untroubled
  <2> QED BY <2>1, <2>2, <2>3
<1> QED BY <1>1, <1>2, <1>3 DEF ReleaseInv, PodsTyped, ReadyServe, Pooled, Young, Dropped,
                                InService,
                              CutLate

\* A crash takes the pod's endpoint, pool and request with it.
LEMMA CrashKeeps == ReleaseInv /\ Servers!Crash => ReleaseInv'
<1> SUFFICES ASSUME ReleaseInv, Servers!Crash PROVE ReleaseInv'
  OBVIOUS
<1>1. PICK p \in Servers!Pods : /\ phase[p] = "serving" /\ Servers!Becomes(p, "starting")
                                /\ pools' = pools \ {p} /\ ready' = ready \ {p}
                                /\ req' = IF Servers!InFlight(p) THEN None ELSE req
  BY DEF Servers!Crash
<1>2. trouble' = TRUE /\ UNCHANGED <<target, age, upstream, cut, db>>
  BY DEF Servers!Crash
<1>3. /\ phase' \in [Servers!Pods -> Phases] /\ phase'[p] = "starting"
      /\ \A o \in Servers!Pods : o # p => phase'[o] = phase[o]
  BY <1>1, OnePod DEF ReleaseInv, Phases
<1>4. PodsTyped' /\ CutLate'
  BY <1>1, <1>2, <1>3 DEF ReleaseInv, PodsTyped, CutLate
<1>5. ReadyServe' /\ Pooled' /\ Young' /\ Dropped'
  BY <1>1, <1>2, <1>3 DEF ReleaseInv, PodsTyped, ReadyServe, Pooled, Young, Dropped
<1>6. Untroubled'
  BY <1>2 DEF Untroubled
<1>7. InService'
  <2>1. CASE Servers!InFlight(p)
    BY <1>1, <2>1 DEF InService
  <2>2. CASE ~Servers!InFlight(p)
    BY <1>1, <1>2, <1>3, <2>2 DEF ReleaseInv, PodsTyped, InService, Servers!InFlight,
                                  Followed
  <2> QED BY <2>1, <2>2
<1> QED BY <1>4, <1>5, <1>6, <1>7 DEF ReleaseInv

LEMMA ReleaseNext == ReleaseInv /\ [Servers!Next]_(Servers!vars) => ReleaseInv'
<1> SUFFICES ASSUME ReleaseInv, [Servers!Next]_(Servers!vars) PROVE ReleaseInv'
  OBVIOUS
<1>1. Lag \in Nat
  BY ReleasesAssumption
<1>2. CASE UNCHANGED Servers!vars
  BY <1>2 DEF Servers!vars, Servers!pods, ReleaseInv, PodsTyped, ReadyServe, Pooled, Young,
              Dropped, Untroubled,
              Servers!Answers, InService, CutLate
<1> QED BY <1>1, <1>2, ApplyKeeps, SurgeKeeps, StopOldKeeps, BootKeeps, ProbeKeeps,
           SigtermKeeps, ExitKeeps, SyncKeeps, ArriveKeeps, TickKeeps, TroubleKeeps, CrashKeeps
        DEF Servers!Next

\* What the invariant says of readers.
LEMMA ReleaseServing == ReleaseInv => Servers!ReleaseServes
<1>1. ReleaseInv => Servers!ServesThroughout
  BY DEF ReleaseInv, Untroubled, Servers!ServesThroughout
<1>2. ReleaseInv => Servers!AnswersWhole
  <2> SUFFICES ASSUME ReleaseInv, req # None PROVE req.pod \in pools
    BY DEF ReleaseInv, CutLate, Servers!AnswersWhole
  <2>1. req.pod \in Servers!Pods
    BY DEF ReleaseInv, PodsTyped, Followed
  <2> QED BY <2>1 DEF ReleaseInv, InService, Pooled
<1> QED BY <1>1, <1>2 DEF Servers!ReleaseServes

---------------------------------------------------------------------------
(* The book: the references of a page.                                     *)

IsList(s) == \E S : s \in Seq(S)

\* Appending to a list of anything.
LEMMA AppendList ==
  ASSUME NEW s, NEW e, IsList(s)
  PROVE  /\ Len(s) \in Nat /\ DOMAIN s = 1 .. Len(s)
         /\ IsList(Append(s, e)) /\ Len(Append(s, e)) = Len(s) + 1
         /\ DOMAIN Append(s, e) = 1 .. Len(s) + 1
         /\ \A i \in 1 .. Len(s) : Append(s, e)[i] = s[i]
         /\ Append(s, e)[Len(s) + 1] = e
<1>1. PICK S : s \in Seq(S)
  BY DEF IsList
<1> DEFINE T == S \cup {e}
<1>2. s \in Seq(T) /\ e \in T
  BY <1>1, SeqMonotonic
<1> HIDE DEF T
<1>3. Append(s, e) \in Seq(T)
  BY <1>2, AppendProperties
<1> QED BY <1>2, <1>3, AppendProperties, LenProperties DEF IsList

\* What a reference is to.
Term(ref) == ref[1] = "gls" /\ ref[2] \in Terms
Cite(ref) == ref[1] = "cite" /\ ref[2] \in Sources
Xref(ref, known) == ref[1] = "xref" /\ ref[2] \in DOMAIN known

LinkOf(ref, here, known) ==
  IF Xref(ref, known) THEN Compiler!relHref(known[ref[2]], here)
  ELSE IF Term(ref) THEN [page |-> "glossary", anchor |-> ref]
  ELSE IF Cite(ref) THEN [page |-> "references", anchor |-> ref]
  ELSE Compiler!Missing

Shown(ref, seen, here, known) ==
  [ref |-> ref, label |-> IF Xref(ref, known) THEN known[ref[2]].label ELSE << >>,
   full |-> IF Term(ref) THEN ref[2] \notin seen ELSE FALSE, link |-> LinkOf(ref, here, known)]

Used(firsts, ref, here) ==
  IF Term(ref) /\ ~ \E i \in DOMAIN firsts : firsts[i].key = ref[2]
    THEN Append(firsts, [key |-> ref[2], href |-> here]) ELSE firsts

IsAcc(a) == a = [items |-> a.items, seen |-> a.seen, firsts |-> a.firsts, cited |-> a.cited]

\* What the rule for a reference does.
LEMMA InlinedIs ==
  ASSUME NEW a, IsAcc(a), NEW ref, NEW here, NEW known
  PROVE  Compiler!Inlined(a, ref, here, known) =
           [items  |-> Append(a.items, Shown(ref, a.seen, here, known)),
            seen   |-> IF Term(ref) THEN a.seen \cup {ref[2]} ELSE a.seen,
            firsts |-> Used(a.firsts, ref, here),
            cited  |-> IF Cite(ref) THEN a.cited \cup {ref[2]} ELSE a.cited]
<1>0. "xref" # "gls" /\ "xref" # "cite" /\ "gls" # "cite"
  OBVIOUS
<1> DEFINE i == Compiler!Inlined(a, ref, here, known)
<1>1. CASE Xref(ref, known)
  <2>1. ~Term(ref) /\ ~Cite(ref)
    BY <1>0, <1>1 DEF Xref, Term, Cite
  <2>2. i = [a EXCEPT !.items = Append(a.items, [ref |-> ref, label |-> known[ref[2]].label,
                                   full |-> FALSE, link |-> Compiler!relHref(known[ref[2]], here)])]
    BY <1>0, <1>1, <2>1 DEF Xref, Term, Cite, Compiler!Inlined
  <2> QED BY <1>1, <2>1, <2>2 DEF IsAcc, Shown, LinkOf, Used
<1>2. CASE Term(ref)
  <2>1. ~Xref(ref, known) /\ ~Cite(ref)
    BY <1>0, <1>2 DEF Xref, Term, Cite
  <2>2. i = [a EXCEPT !.items = Append(a.items, [ref |-> ref, label |-> << >>,
                                   full |-> ref[2] \notin a.seen,
                                   link |-> [page |-> "glossary", anchor |-> ref]]),
                      !.seen = @ \cup {ref[2]},
                      !.firsts = IF \E j \in DOMAIN @ : @[j].key = ref[2] THEN @
                                 ELSE Append(@, [key |-> ref[2], href |-> here])]
    BY <1>0, <1>2, <2>1 DEF Xref, Term, Cite, Compiler!Inlined, Compiler!Link
  <2> QED BY <1>2, <2>1, <2>2 DEF IsAcc, Shown, LinkOf, Used
<1>3. CASE Cite(ref)
  <2>1. ~Xref(ref, known) /\ ~Term(ref)
    BY <1>0, <1>3 DEF Xref, Term, Cite
  <2>2. i = [a EXCEPT !.items = Append(a.items, [ref |-> ref, label |-> << >>, full |-> FALSE,
                                   link |-> [page |-> "references", anchor |-> ref]]),
                      !.cited = @ \cup {ref[2]}]
    BY <1>0, <1>3, <2>1 DEF Xref, Term, Cite, Compiler!Inlined, Compiler!Link
  <2> QED BY <1>3, <2>1, <2>2 DEF IsAcc, Shown, LinkOf, Used
<1>4. CASE ~Xref(ref, known) /\ ~Term(ref) /\ ~Cite(ref)
  <2>1. i = [a EXCEPT !.items = Append(a.items, [ref |-> ref, label |-> << >>, full |-> FALSE,
                                   link |-> Compiler!Missing])]
    BY <1>0, <1>4 DEF Xref, Term, Cite, Compiler!Inlined
  <2> QED BY <1>4, <2>1 DEF IsAcc, Shown, LinkOf, Used
<1> QED BY <1>1, <1>2, <1>3, <1>4

\* What a page has after each of its references.
InlineStart(c) == [items |-> << >>, seen |-> {}, firsts |-> c.firsts, cited |-> c.cited]
Inlining(f, page, known, c) ==
  f = [n \in 0 .. Len(page.refs) |->
         IF n = 0 THEN InlineStart(c)
         ELSE Compiler!Inlined(f[n - 1], page.refs[n], page.href, known)]

\* The recursive function of InlineRefs is there.
LEMMA InliningThere ==
  ASSUME NEW page, NEW known, NEW c, Len(page.refs) \in Nat
  PROVE  \E f : Inlining(f, page, known, c)
<1> DEFINE G(a, n) == Compiler!Inlined(a, page.refs[n], page.href, known)
           Eq(f, n) == f = [i \in 0 .. n |-> IF i = 0 THEN InlineStart(c) ELSE G(f[i - 1], i)]
           N == {n \in Nat : \E f : Eq(f, n)}
<1> HIDE DEF G
<1>1. 0 \in N
  <2> DEFINE f == [i \in 0 .. 0 |-> InlineStart(c)]
  <2>1. Eq(f, 0)
    OBVIOUS
  <2> HIDE DEF f, Eq
  <2> QED BY <2>1
<1>2. ASSUME NEW n \in Nat, n \in N PROVE n + 1 \in N
  <2>1. PICK f : Eq(f, n)
    <3> HIDE DEF Eq
    <3> QED BY <1>2
  <2> DEFINE g == [i \in 0 .. n + 1 |-> IF i = 0 THEN InlineStart(c) ELSE G(f[i - 1], i)]
  <2>2. ASSUME NEW i \in 0 .. n PROVE g[i] = f[i]
    <3>1. f[i] = IF i = 0 THEN InlineStart(c) ELSE G(f[i - 1], i)
      BY <2>1
    <3> QED BY <3>1
  <2>3. ASSUME NEW i \in 0 .. n + 1, i # 0 PROVE g[i - 1] = f[i - 1]
    <3>1. i - 1 \in 0 .. n
      BY <2>3
    <3> HIDE DEF g
    <3> QED BY <2>2, <3>1
  <2>4. Eq(g, n + 1)
    <3> HIDE DEF g
    <3>1. [i \in 0 .. n + 1 |-> IF i = 0 THEN InlineStart(c) ELSE G(g[i - 1], i)]
            = [i \in 0 .. n + 1 |-> IF i = 0 THEN InlineStart(c) ELSE G(f[i - 1], i)]
      BY <2>3
    <3> QED BY <3>1 DEF g
  <2> HIDE DEF g, Eq
  <2> QED BY <2>4
<1> HIDE DEF N
<1>3. \A n \in Nat : n \in N
  BY <1>1, <1>2, NatInd, Zenon
<1> QED BY <1>3 DEF N, G, Inlining

Inlines(page, known, c) == CHOOSE f : Inlining(f, page, known, c)

\* InlineRefs by the steps it takes.
LEMMA InlineSteps ==
  ASSUME NEW page, NEW known, NEW c, Len(page.refs) \in Nat
  PROVE  /\ Inlines(page, known, c)[0] = InlineStart(c)
         /\ \A n \in 1 .. Len(page.refs) :
              Inlines(page, known, c)[n] =
                Compiler!Inlined(Inlines(page, known, c)[n - 1], page.refs[n], page.href, known)
         /\ Compiler!InlineRefs(page, known, c) = Inlines(page, known, c)[Len(page.refs)]
<1> DEFINE f == Inlines(page, known, c)
<1>1. Inlining(f, page, known, c)
  BY InliningThere, Zenon DEF Inlines
<1>2. Compiler!InlineRefs(page, known, c) = f[Len(page.refs)]
  BY Zenon DEF Compiler!InlineRefs, Inlines, Inlining, InlineStart
<1> HIDE DEF f
<1>3. \A n \in 0 .. Len(page.refs) :
        f[n] = IF n = 0 THEN InlineStart(c)
               ELSE Compiler!Inlined(f[n - 1], page.refs[n], page.href, known)
  BY <1>1 DEF Inlining
<1> QED BY <1>2, <1>3 DEF f

\* The keys of first uses, and what the references up to the n-th are to.
KeysOf(firsts) == {firsts[j].key : j \in DOMAIN firsts}
TermsTo(page, n) == {page.refs[m][2] : m \in {k \in 1 .. n : Term(page.refs[k])}}
CitesTo(page, n) == {page.refs[m][2] : m \in {k \in 1 .. n : Cite(page.refs[k])}}

\* A first use of a page: one of before, or of a term that the page refers to.
Placed(e, before, page, n) ==
  \/ \E k \in DOMAIN before : before[k] = e
  \/ e.href = page.href /\ \E m \in 1 .. n : Term(page.refs[m]) /\ page.refs[m][2] = e.key

\* What a page has seen, after n of its references.
Through(a, page, known, c, n) ==
  /\ IsAcc(a)
  /\ IsList(a.items) /\ Len(a.items) = n
  /\ \A m \in 1 .. n : a.items[m].link = LinkOf(page.refs[m], page.href, known)
  /\ IsList(a.firsts)
  /\ KeysOf(a.firsts) = KeysOf(c.firsts) \cup TermsTo(page, n)
  /\ \A j \in DOMAIN a.firsts : Placed(a.firsts[j], c.firsts, page, n)
  /\ a.cited = c.cited \cup CitesTo(page, n)

\* What a page has seen, at every of its references.
LEMMA InlinesAre ==
  ASSUME NEW page, NEW known, NEW c, Len(page.refs) \in Nat, IsList(c.firsts)
  PROVE  \A n \in 0 .. Len(page.refs) :
           Through(Inlines(page, known, c)[n], page, known, c, n)
<1> DEFINE f == Inlines(page, known, c)
           P == {n \in Nat : n <= Len(page.refs) => Through(f[n], page, known, c, n)}
<1> HIDE DEF f
<1>1. f[0] = InlineStart(c) /\ \A n \in 1 .. Len(page.refs) :
              f[n] = Compiler!Inlined(f[n - 1], page.refs[n], page.href, known)
  BY InlineSteps DEF f
<1>2. 0 \in P
  <2>1. IsAcc(f[0]) /\ f[0].items = << >> /\ f[0].firsts = c.firsts /\ f[0].cited = c.cited
    BY <1>1 DEF InlineStart, IsAcc
  <2>2. IsList(<< >>) /\ Len(<< >>) = 0
    BY EmptySeq DEF IsList
  <2>3. TermsTo(page, 0) = {} /\ CitesTo(page, 0) = {}
    BY DEF TermsTo, CitesTo
  <2>4. \A j \in DOMAIN c.firsts : Placed(c.firsts[j], c.firsts, page, 0)
    BY DEF Placed
  <2> QED BY <2>1, <2>2, <2>3, <2>4 DEF Through
<1>3. ASSUME NEW n \in Nat, n \in P PROVE n + 1 \in P
  <2> SUFFICES ASSUME n + 1 <= Len(page.refs)
               PROVE  Through(f[n + 1], page, known, c, n + 1)
    OBVIOUS
  <2> DEFINE a == f[n]
             b == f[n + 1]
             ref == page.refs[n + 1]
  <2>1. Through(a, page, known, c, n)
    BY <1>3
  <2>2. b = Compiler!Inlined(a, ref, page.href, known)
    <3>1. n + 1 \in 1 .. Len(page.refs) /\ n + 1 - 1 = n
      OBVIOUS
    <3> QED BY <1>1, <3>1
  <2> HIDE DEF a, b, ref
  <2>3. b = [items  |-> Append(a.items, Shown(ref, a.seen, page.href, known)),
             seen   |-> IF Term(ref) THEN a.seen \cup {ref[2]} ELSE a.seen,
             firsts |-> Used(a.firsts, ref, page.href),
             cited  |-> IF Cite(ref) THEN a.cited \cup {ref[2]} ELSE a.cited]
    <3>1. IsAcc(a)
      BY <2>1 DEF Through
    <3> QED BY <2>2, <3>1, InlinedIs, ZenonT(40)
  <2>4. IsAcc(b)
    BY <2>3 DEF IsAcc
  <2>5. /\ IsList(b.items) /\ Len(b.items) = n + 1
        /\ \A m \in 1 .. n + 1 : b.items[m].link = LinkOf(page.refs[m], page.href, known)
    <3> DEFINE e == Shown(ref, a.seen, page.href, known)
    <3>1. e.link = LinkOf(ref, page.href, known) /\ b.items = Append(a.items, e)
      BY <2>3 DEF Shown
    <3> HIDE DEF e
    <3>2. /\ IsList(b.items) /\ Len(b.items) = n + 1
          /\ \A m \in 1 .. n : b.items[m] = a.items[m]
          /\ b.items[n + 1] = e
      BY <2>1, <3>1, AppendList DEF Through
    <3>3. ASSUME NEW m \in 1 .. n + 1 PROVE b.items[m].link = LinkOf(page.refs[m], page.href, known)
      <4>1. CASE m \in 1 .. n
        BY <2>1, <3>2, <4>1 DEF Through
      <4>2. CASE m = n + 1
        BY <3>1, <3>2, <4>2 DEF ref
      <4> QED BY <4>1, <4>2
    <3> QED BY <3>2, <3>3
  <2>6. TermsTo(page, n + 1) = IF Term(ref) THEN TermsTo(page, n) \cup {ref[2]} ELSE TermsTo(page, n)
    <3>1. \A k \in 1 .. n + 1 : k \in 1 .. n \/ k = n + 1
      OBVIOUS
    <3>2. n + 1 \in 1 .. n + 1 /\ \A k \in 1 .. n : k \in 1 .. n + 1
      OBVIOUS
    <3> QED BY <3>1, <3>2 DEF TermsTo, ref
  <2>7. CitesTo(page, n + 1) = IF Cite(ref) THEN CitesTo(page, n) \cup {ref[2]} ELSE CitesTo(page, n)
    <3>1. \A k \in 1 .. n + 1 : k \in 1 .. n \/ k = n + 1
      OBVIOUS
    <3>2. n + 1 \in 1 .. n + 1 /\ \A k \in 1 .. n : k \in 1 .. n + 1
      OBVIOUS
    <3> QED BY <3>1, <3>2 DEF CitesTo, ref
  <2>8. ASSUME NEW e, Placed(e, c.firsts, page, n) PROVE Placed(e, c.firsts, page, n + 1)
    BY <2>8 DEF Placed
  <2>9. /\ IsList(b.firsts)
        /\ KeysOf(b.firsts) = KeysOf(c.firsts) \cup TermsTo(page, n + 1)
        /\ \A j \in DOMAIN b.firsts : Placed(b.firsts[j], c.firsts, page, n + 1)
    <3>1. CASE Term(ref) /\ ~ \E i \in DOMAIN a.firsts : a.firsts[i].key = ref[2]
      <4> DEFINE e == [key |-> ref[2], href |-> page.href]
                 k == Len(a.firsts)
      <4>1. b.firsts = Append(a.firsts, e)
        BY <2>3, <3>1 DEF Used
      <4> HIDE DEF e
      <4>2. /\ IsList(b.firsts) /\ k \in Nat /\ DOMAIN a.firsts = 1 .. k
            /\ DOMAIN b.firsts = 1 .. k + 1
            /\ \A j \in 1 .. k : b.firsts[j] = a.firsts[j]
            /\ b.firsts[k + 1] = e
        BY <2>1, <4>1, AppendList DEF Through
      <4> HIDE DEF k
      <4>3. e.key = ref[2] /\ e.href = page.href
        BY DEF e
      <4>4. Placed(e, c.firsts, page, n + 1)
        <5>1. n + 1 \in 1 .. n + 1
          OBVIOUS
        <5> QED BY <3>1, <4>3, <5>1 DEF Placed, ref
      <4>5. ASSUME NEW j \in 1 .. k + 1 PROVE Placed(b.firsts[j], c.firsts, page, n + 1)
        <5>1. CASE j \in 1 .. k
          BY <2>1, <2>8, <4>2, <5>1 DEF Through
        <5>2. CASE j = k + 1
          BY <4>2, <4>4, <5>2
        <5> QED BY <4>2, <5>1, <5>2
      <4>6. KeysOf(b.firsts) = KeysOf(a.firsts) \cup {ref[2]}
        <5>1. \A j \in 1 .. k + 1 : j \in 1 .. k \/ j = k + 1
          BY <4>2
        <5>2. k + 1 \in 1 .. k + 1 /\ \A j \in 1 .. k : j \in 1 .. k + 1
          BY <4>2
        <5> QED BY <4>2, <4>3, <5>1, <5>2, SMTT(30) DEF KeysOf
      <4> QED BY <2>1, <2>6, <3>1, <4>2, <4>5, <4>6 DEF Through
    <3>2. CASE ~(Term(ref) /\ ~ \E i \in DOMAIN a.firsts : a.firsts[i].key = ref[2])
      <4>1. b.firsts = a.firsts
        BY <2>3, <3>2 DEF Used
      <4>2. Term(ref) => ref[2] \in KeysOf(a.firsts)
        BY <3>2 DEF KeysOf
      <4> QED BY <2>1, <2>6, <2>8, <4>1, <4>2 DEF Through
    <3> QED BY <3>1, <3>2
  <2>10. b.cited = c.cited \cup CitesTo(page, n + 1)
    BY <2>1, <2>3, <2>7 DEF Through
  <2>11. Through(b, page, known, c, n + 1)
    BY <2>4, <2>5, <2>9, <2>10 DEF Through
  <2> QED BY <2>11 DEF b
<1> HIDE DEF P
<1>4. \A n \in Nat : n \in P
  BY <1>2, <1>3, NatInd, Zenon
<1> QED BY <1>4 DEF P, f

\* What a page shows of its references does not depend on what others have met, and
\* its first uses not on what was cited.
LEMMA InlinesAlike ==
  ASSUME NEW page, NEW known, NEW c, NEW d, Len(page.refs) \in Nat
  PROVE  \A n \in 0 .. Len(page.refs) :
           LET a == Inlines(page, known, c)[n]
               b == Inlines(page, known, d)[n]
           IN  /\ IsAcc(a) /\ IsAcc(b) /\ a.items = b.items /\ a.seen = b.seen
               /\ c.firsts = d.firsts => a.firsts = b.firsts
<1> DEFINE f == Inlines(page, known, c)
           g == Inlines(page, known, d)
           Alike(a, b) == /\ IsAcc(a) /\ IsAcc(b) /\ a.items = b.items /\ a.seen = b.seen
                          /\ c.firsts = d.firsts => a.firsts = b.firsts
           P == {n \in Nat : n <= Len(page.refs) => Alike(f[n], g[n])}
<1> HIDE DEF f, g
<1>1. f[0] = InlineStart(c) /\ \A n \in 1 .. Len(page.refs) :
              f[n] = Compiler!Inlined(f[n - 1], page.refs[n], page.href, known)
  BY InlineSteps DEF f
<1>2. g[0] = InlineStart(d) /\ \A n \in 1 .. Len(page.refs) :
              g[n] = Compiler!Inlined(g[n - 1], page.refs[n], page.href, known)
  BY InlineSteps DEF g
<1>3. 0 \in P
  <2>1. \A e : IsAcc(InlineStart(e))
    BY DEF InlineStart, IsAcc
  <2>2. /\ InlineStart(c).items = InlineStart(d).items /\ InlineStart(c).seen = InlineStart(d).seen
        /\ c.firsts = d.firsts => InlineStart(c).firsts = InlineStart(d).firsts
    BY DEF InlineStart
  <2>3. Alike(f[0], g[0])
    BY <1>1, <1>2, <2>1, <2>2, Zenon
  <2> HIDE DEF Alike
  <2> QED BY <2>3
<1>4. ASSUME NEW n \in Nat, n \in P PROVE n + 1 \in P
  <2> SUFFICES ASSUME n + 1 <= Len(page.refs) PROVE Alike(f[n + 1], g[n + 1])
    OBVIOUS
  <2>1. Alike(f[n], g[n])
    BY <1>4
  <2>2. n + 1 \in 1 .. Len(page.refs) /\ n + 1 - 1 = n
    OBVIOUS
  <2>3. ASSUME NEW a, IsAcc(a)
        PROVE  Compiler!Inlined(a, page.refs[n + 1], page.href, known) =
                 [items  |-> Append(a.items, Shown(page.refs[n + 1], a.seen, page.href, known)),
                  seen   |-> IF Term(page.refs[n + 1]) THEN a.seen \cup {page.refs[n + 1][2]} ELSE a.seen,
                  firsts |-> Used(a.firsts, page.refs[n + 1], page.href),
                  cited  |-> IF Cite(page.refs[n + 1]) THEN a.cited \cup {page.refs[n + 1][2]} ELSE a.cited]
    BY <2>3, InlinedIs, ZenonT(40)
  <2> DEFINE R(a) == Compiler!Inlined(a, page.refs[n + 1], page.href, known)
  <2>4. f[n + 1] = R(f[n]) /\ g[n + 1] = R(g[n])
    BY <1>1, <1>2, <2>2
  <2>5. ASSUME NEW a, IsAcc(a) PROVE IsAcc(R(a))
    BY <2>3, <2>5, ZenonT(40) DEF IsAcc
  <2>6. ASSUME NEW a, NEW b, Alike(a, b) PROVE Alike(R(a), R(b))
    <3>1. IsAcc(a) /\ IsAcc(b) /\ a.items = b.items /\ a.seen = b.seen
      BY <2>6
    <3>2. IsAcc(R(a)) /\ IsAcc(R(b))
      BY <2>5, <3>1
    <3>a. ASSUME NEW e, IsAcc(e)
          PROVE  /\ R(e).items = Append(e.items, Shown(page.refs[n + 1], e.seen, page.href, known))
                 /\ R(e).seen = IF Term(page.refs[n + 1]) THEN e.seen \cup {page.refs[n + 1][2]} ELSE e.seen
                 /\ R(e).firsts = Used(e.firsts, page.refs[n + 1], page.href)
      <4> DEFINE i == Append(e.items, Shown(page.refs[n + 1], e.seen, page.href, known))
                 s == IF Term(page.refs[n + 1]) THEN e.seen \cup {page.refs[n + 1][2]} ELSE e.seen
                 t == Used(e.firsts, page.refs[n + 1], page.href)
                 u == IF Cite(page.refs[n + 1]) THEN e.cited \cup {page.refs[n + 1][2]} ELSE e.cited
      <4>1. R(e) = [items |-> i, seen |-> s, firsts |-> t, cited |-> u]
        BY <2>3, <3>a, Zenon
      <4> HIDE DEF i, s, t, u, R
      <4>2. R(e).items = i /\ R(e).seen = s /\ R(e).firsts = t
        BY <4>1
      <4> QED BY <4>2, Zenon DEF i, s, t
    <3> HIDE DEF R
    <3>3. R(a).items = R(b).items /\ R(a).seen = R(b).seen
      BY <3>1, <3>a
    <3>4. ASSUME c.firsts = d.firsts PROVE R(a).firsts = R(b).firsts
      BY <2>6, <3>1, <3>4, <3>a
    <3> QED BY <3>2, <3>3, <3>4
  <2> HIDE DEF R, Alike
  <2> QED BY <2>1, <2>4, <2>6
<1> HIDE DEF P
<1>5. \A n \in Nat : n \in P
  BY <1>3, <1>4, NatInd, Zenon
<1> QED BY <1>5 DEF P, f, g

\* The labels that two maps do not agree on, and a reference that is shown alike but
\* for these.
Changed(known, now) ==
  {id \in DOMAIN known \cup DOMAIN now :
     ~ (id \in DOMAIN known /\ id \in DOMAIN now /\ known[id] = now[id])}
ShownLike(x, y, ids) == x = y \/ (x.ref = y.ref /\ y.ref[1] = "xref" /\ y.ref[2] \in ids)

LEMMA ShownOnChange ==
  ASSUME NEW ref, NEW seen, NEW here, NEW known, NEW now
  PROVE  ShownLike(Shown(ref, seen, here, known), Shown(ref, seen, here, now), Changed(known, now))
<1> DEFINE x == Shown(ref, seen, here, known)
           y == Shown(ref, seen, here, now)
<1>1. x.ref = ref /\ y.ref = ref
  BY DEF Shown
<1>2. CASE ref[1] = "xref" /\ ref[2] \in Changed(known, now)
  <2> HIDE DEF x, y
  <2> QED BY <1>1, <1>2, Zenon DEF ShownLike, x, y
<1>3. CASE ~ (ref[1] = "xref" /\ ref[2] \in Changed(known, now))
  <2>1. /\ Xref(ref, known) <=> Xref(ref, now)
        /\ Xref(ref, known) => known[ref[2]] = now[ref[2]]
    BY <1>3, Zenon DEF Xref, Changed
  <2>2. LinkOf(ref, here, known) = LinkOf(ref, here, now)
    BY <2>1, Zenon DEF LinkOf
  <2>3. (IF Xref(ref, known) THEN known[ref[2]].label ELSE << >>)
          = (IF Xref(ref, now) THEN now[ref[2]].label ELSE << >>)
    BY <2>1, Zenon
  <2>4. x = y
    BY <2>2, <2>3, Zenon DEF Shown
  <2> QED BY <2>4, Zenon DEF ShownLike
<1> QED BY <1>2, <1>3

\* Of the labels, what a page shows depends on those of what it refers to, and what it
\* leaves for the pages after it on none.
OnChange(a, b, n, ids) ==
  /\ IsAcc(a) /\ IsAcc(b) /\ a.seen = b.seen /\ a.firsts = b.firsts /\ a.cited = b.cited
  /\ IsList(a.items) /\ Len(a.items) = n /\ IsList(b.items) /\ Len(b.items) = n
  /\ \A m \in 1 .. n : ShownLike(a.items[m], b.items[m], ids)

LEMMA InlinesOnChange ==
  ASSUME NEW page, NEW known, NEW now, NEW c, Len(page.refs) \in Nat
  PROVE  \A n \in 0 .. Len(page.refs) :
           OnChange(Inlines(page, known, c)[n], Inlines(page, now, c)[n], n, Changed(known, now))
<1> DEFINE f == Inlines(page, known, c)
           g == Inlines(page, now, c)
           ids == Changed(known, now)
           P == {n \in Nat : n <= Len(page.refs) => OnChange(f[n], g[n], n, ids)}
<1> HIDE DEF f, g, ids
<1>1. f[0] = InlineStart(c) /\ \A n \in 1 .. Len(page.refs) :
              f[n] = Compiler!Inlined(f[n - 1], page.refs[n], page.href, known)
  BY InlineSteps DEF f
<1>2. g[0] = InlineStart(c) /\ \A n \in 1 .. Len(page.refs) :
              g[n] = Compiler!Inlined(g[n - 1], page.refs[n], page.href, now)
  BY InlineSteps DEF g
<1>3. 0 \in P
  <2>1. IsAcc(InlineStart(c)) /\ InlineStart(c).items = << >>
    BY DEF InlineStart, IsAcc
  <2>2. IsList(<< >>) /\ Len(<< >>) = 0
    BY EmptySeq DEF IsList
  <2>3. OnChange(f[0], g[0], 0, ids)
    BY <1>1, <1>2, <2>1, <2>2 DEF OnChange
  <2> QED BY <2>3
<1>4. ASSUME NEW n \in Nat, n \in P PROVE n + 1 \in P
  <2> SUFFICES ASSUME n + 1 <= Len(page.refs) PROVE OnChange(f[n + 1], g[n + 1], n + 1, ids)
    OBVIOUS
  <2> DEFINE ref == page.refs[n + 1]
             here == page.href
  <2>1. OnChange(f[n], g[n], n, ids)
    BY <1>4
  <2>2. n + 1 \in 1 .. Len(page.refs) /\ n + 1 - 1 = n
    OBVIOUS
  <2> HIDE DEF ref, here
  <2>3. ASSUME NEW a, IsAcc(a), NEW k
        PROVE  LET b == Compiler!Inlined(a, ref, here, k) IN
               /\ IsAcc(b)
               /\ b.items = Append(a.items, Shown(ref, a.seen, here, k))
               /\ b.seen = IF Term(ref) THEN a.seen \cup {ref[2]} ELSE a.seen
               /\ b.firsts = Used(a.firsts, ref, here)
               /\ b.cited = IF Cite(ref) THEN a.cited \cup {ref[2]} ELSE a.cited
    <3> DEFINE b == Compiler!Inlined(a, ref, here, k)
               i == Append(a.items, Shown(ref, a.seen, here, k))
               s == IF Term(ref) THEN a.seen \cup {ref[2]} ELSE a.seen
               t == Used(a.firsts, ref, here)
               u == IF Cite(ref) THEN a.cited \cup {ref[2]} ELSE a.cited
    <3>1. b = [items |-> i, seen |-> s, firsts |-> t, cited |-> u]
      BY <2>3, InlinedIs, ZenonT(40)
    <3> HIDE DEF b, i, s, t, u
    <3>2. IsAcc(b) /\ b.items = i /\ b.seen = s /\ b.firsts = t /\ b.cited = u
      BY <3>1 DEF IsAcc
    <3> QED BY <3>2, Zenon DEF b, i, s, t, u
  <2> DEFINE a == f[n]
             b == g[n]
             x == f[n + 1]
             y == g[n + 1]
             v == Shown(ref, a.seen, here, known)
             w == Shown(ref, a.seen, here, now)
  <2>4. x = Compiler!Inlined(a, ref, here, known) /\ y = Compiler!Inlined(b, ref, here, now)
    BY <1>1, <1>2, <2>2 DEF ref, here
  <2>5. OnChange(a, b, n, ids)
    BY <2>1
  <2> HIDE DEF a, b, x, y, v, w
  <2>6. /\ IsAcc(x) /\ x.items = Append(a.items, v)
        /\ x.seen = IF Term(ref) THEN a.seen \cup {ref[2]} ELSE a.seen
        /\ x.firsts = Used(a.firsts, ref, here)
        /\ x.cited = IF Cite(ref) THEN a.cited \cup {ref[2]} ELSE a.cited
    <3>1. IsAcc(a)
      BY <2>5 DEF OnChange
    <3> QED BY <2>3, <2>4, <3>1, Zenon DEF v
  <2>7. /\ IsAcc(y) /\ y.items = Append(b.items, w)
        /\ y.seen = IF Term(ref) THEN a.seen \cup {ref[2]} ELSE a.seen
        /\ y.firsts = Used(a.firsts, ref, here)
        /\ y.cited = IF Cite(ref) THEN a.cited \cup {ref[2]} ELSE a.cited
    <3>1. IsAcc(b) /\ a.seen = b.seen /\ a.firsts = b.firsts /\ a.cited = b.cited
      BY <2>5 DEF OnChange
    <3>2. /\ IsAcc(y) /\ y.items = Append(b.items, Shown(ref, b.seen, here, now))
          /\ y.seen = IF Term(ref) THEN b.seen \cup {ref[2]} ELSE b.seen
          /\ y.firsts = Used(b.firsts, ref, here)
          /\ y.cited = IF Cite(ref) THEN b.cited \cup {ref[2]} ELSE b.cited
      BY <2>3, <2>4, <3>1, Zenon
    <3> QED BY <3>1, <3>2, Zenon DEF w
  <2>8. ShownLike(v, w, ids)
    BY ShownOnChange, Zenon DEF v, w, ids
  <2>9. /\ IsList(x.items) /\ Len(x.items) = n + 1 /\ IsList(y.items) /\ Len(y.items) = n + 1
        /\ \A m \in 1 .. n : x.items[m] = a.items[m] /\ y.items[m] = b.items[m]
        /\ x.items[n + 1] = v /\ y.items[n + 1] = w
    BY <2>5, <2>6, <2>7, AppendList DEF OnChange
  <2>10. ASSUME NEW m \in 1 .. n + 1 PROVE ShownLike(x.items[m], y.items[m], ids)
    <3>1. CASE m \in 1 .. n
      BY <2>5, <2>9, <3>1 DEF OnChange
    <3>2. CASE m = n + 1
      BY <2>8, <2>9, <3>2
    <3> QED BY <3>1, <3>2
  <2>11. x.seen = y.seen /\ x.firsts = y.firsts /\ x.cited = y.cited
    BY <2>6, <2>7, Zenon
  <2>12. OnChange(x, y, n + 1, ids)
    BY <2>6, <2>7, <2>9, <2>10, <2>11, Zenon DEF OnChange
  <2> QED BY <2>12 DEF x, y
<1> HIDE DEF P
<1>5. \A n \in Nat : n \in P
  BY <1>3, <1>4, NatInd, Zenon
<1> QED BY <1>5 DEF P, f, g, ids

---------------------------------------------------------------------------
(* The book: a page, and the pages in order.                               *)

\* What a page refers to, all of it.
TermsOf(page) == TermsTo(page, Len(page.refs))
CitesOf(page) == CitesTo(page, Len(page.refs))

Own(page) == {<<"xref", id>> : id \in ({page.sec} \ {None}) \cup ToSet(page.figs)}
TermIds(firsts) == {<<"gls", firsts[j].key>> : j \in DOMAIN firsts}
CiteIds(keys)   == {<<"cite", k>> : k \in keys}

\* A page by its parts: what it makes of what its references show and leave.
PartsOf(pages, i, a, r) ==
  /\ r.ctx.firsts = a.firsts /\ r.ctx.cited = a.cited
  /\ r.html.href = pages[i].href /\ r.html.items = a.items
  /\ r.html.near = Compiler!Neighbours(pages, i)
  /\ r.html.terms = IF pages[i].href = "glossary" THEN a.firsts ELSE << >>
  /\ r.html.ids = Own(pages[i])
       \cup (IF pages[i].href # "glossary" THEN {} ELSE TermIds(a.firsts))
       \cup (IF pages[i].href # "references" THEN {} ELSE CiteIds(a.cited))
  /\ r.html = [href |-> r.html.href, items |-> r.html.items, near |-> r.html.near,
               terms |-> r.html.terms, ids |-> r.html.ids]

LEMMA CompiledIs ==
  ASSUME NEW pages, NEW i, NEW known, NEW c
  PROVE  PartsOf(pages, i, Compiler!InlineRefs(pages[i], known, c), Compiler!Compiled(pages, i, known, c))
<1> DEFINE a == Compiler!InlineRefs(pages[i], known, c)
           page == pages[i]
           near == Compiler!Neighbours(pages, i)
           terms == IF page.href = "glossary" THEN a.firsts ELSE << >>
           ids == {<<"xref", id>> : id \in ({page.sec} \ {None}) \cup Compiler!ToSet(page.figs)}
                    \cup (IF page.href # "glossary" THEN {}
                          ELSE {<<"gls", a.firsts[j].key>> : j \in DOMAIN a.firsts})
                    \cup (IF page.href # "references" THEN {} ELSE {<<"cite", k>> : k \in a.cited})
           r == Compiler!Compiled(pages, i, known, c)
<1>1. r = [ctx |-> [firsts |-> a.firsts, cited |-> a.cited],
           html |-> [href |-> page.href, items |-> a.items, near |-> near, terms |-> terms,
                     ids |-> ids]]
  BY Zenon DEF Compiler!Compiled
<1>2. Compiler!ToSet(page.figs) = ToSet(page.figs)
  BY Zenon DEF Compiler!ToSet, ToSet
<1>3. ids = Own(pages[i])
                  \cup (IF pages[i].href # "glossary" THEN {} ELSE TermIds(a.firsts))
                  \cup (IF pages[i].href # "references" THEN {} ELSE CiteIds(a.cited))
  BY <1>2, Zenon DEF Own, TermIds, CiteIds
<1> HIDE DEF a, near, terms, ids, r
<1>4. /\ r.ctx.firsts = a.firsts /\ r.ctx.cited = a.cited
      /\ r.html.href = page.href /\ r.html.items = a.items /\ r.html.near = near
      /\ r.html.terms = terms /\ r.html.ids = ids
      /\ r.html = [href |-> r.html.href, items |-> r.html.items, near |-> r.html.near,
                   terms |-> r.html.terms, ids |-> r.html.ids]
  BY <1>1
<1> QED BY <1>3, <1>4, Zenon DEF PartsOf, a, near, terms, ids, r

\* What a page is, and what it makes of a context.
PageIs(pages, i, known, c, r) ==
  LET page == pages[i] IN
  /\ r.html.href = page.href /\ r.html.near = Compiler!Neighbours(pages, i)
  /\ DOMAIN r.html.items = 1 .. Len(page.refs)
  /\ \A m \in 1 .. Len(page.refs) : r.html.items[m].link = LinkOf(page.refs[m], page.href, known)
  /\ Own(page) \subseteq r.html.ids
  /\ page.href = "glossary" => TermIds(r.ctx.firsts) \subseteq r.html.ids
  /\ page.href = "references" => CiteIds(r.ctx.cited) \subseteq r.html.ids
  /\ r.html.terms = IF page.href = "glossary" THEN r.ctx.firsts ELSE << >>
  /\ IsList(r.ctx.firsts)
  /\ KeysOf(r.ctx.firsts) = KeysOf(c.firsts) \cup TermsOf(page)
  /\ \A j \in DOMAIN r.ctx.firsts : Placed(r.ctx.firsts[j], c.firsts, page, Len(page.refs))
  /\ r.ctx.cited = c.cited \cup CitesOf(page)

LEMMA CompiledThrough ==
  ASSUME NEW pages, NEW i, NEW known, NEW c, Len(pages[i].refs) \in Nat, IsList(c.firsts)
  PROVE  PageIs(pages, i, known, c, Compiler!Compiled(pages, i, known, c))
<1> DEFINE page == pages[i]
           a == Compiler!InlineRefs(page, known, c)
           n == Len(page.refs)
           r == Compiler!Compiled(pages, i, known, c)
<1>1. Through(a, page, known, c, n)
  <2>1. a = Inlines(page, known, c)[n]
    BY InlineSteps
  <2> QED BY <2>1, InlinesAre
<1>2. PartsOf(pages, i, a, r)
  BY CompiledIs
<1> HIDE DEF a, page, r
<1>3. DOMAIN a.items = 1 .. n
  BY <1>1, LenProperties DEF Through, IsList
<1>4. /\ Own(page) \subseteq r.html.ids
      /\ page.href = "glossary" => TermIds(r.ctx.firsts) \subseteq r.html.ids
      /\ page.href = "references" => CiteIds(r.ctx.cited) \subseteq r.html.ids
  BY <1>2 DEF PartsOf, page
<1>5. PageIs(pages, i, known, c, r)
  BY <1>1, <1>2, <1>3, <1>4, Zenon DEF PartsOf, PageIs, Through, TermsOf, CitesOf, page
<1> QED BY <1>5 DEF r

\* Pages that are the same but for their ids.
SameBody(h, g) == h.href = g.href /\ h.items = g.items /\ h.near = g.near /\ h.terms = g.terms

\* A page does not depend on where it stands in a pass, but for the two lists, and
\* these do only by what has been used and cited before.
AlikeTwice(page, c, d, r, s) ==
  /\ page.href \notin Compiler!Aggregates => r.html = s.html
  /\ c.firsts = d.firsts =>
       /\ r.ctx.firsts = s.ctx.firsts
       /\ page.href # "references" => r.html = s.html
       /\ SameBody(r.html, s.html)
       /\ page.href = "references" =>
            \E own : /\ r.html.ids = own \cup CiteIds(r.ctx.cited)
                     /\ s.html.ids = own \cup CiteIds(s.ctx.cited)

LEMMA CompiledAlike ==
  ASSUME NEW pages, NEW i, NEW known, NEW c, NEW d, Len(pages[i].refs) \in Nat
  PROVE  AlikeTwice(pages[i], c, d, Compiler!Compiled(pages, i, known, c),
                    Compiler!Compiled(pages, i, known, d))
<1> DEFINE page == pages[i]
           a == Compiler!InlineRefs(page, known, c)
           b == Compiler!InlineRefs(page, known, d)
           r == Compiler!Compiled(pages, i, known, c)
           s == Compiler!Compiled(pages, i, known, d)
<1>1. a.items = b.items /\ (c.firsts = d.firsts => a.firsts = b.firsts)
  BY InlineSteps, InlinesAlike
<1>2. PartsOf(pages, i, a, r)
  BY CompiledIs
<1>3. PartsOf(pages, i, b, s)
  BY CompiledIs
<1> HIDE DEF a, b, r, s, page
<1>4. ASSUME page.href \notin Compiler!Aggregates PROVE r.html = s.html
  <2>1. page.href # "glossary" /\ page.href # "references"
    BY <1>4 DEF Compiler!Aggregates
  <2> QED BY <1>1, <1>2, <1>3, <2>1, Zenon DEF PartsOf, page
<1>5. ASSUME c.firsts = d.firsts, page.href # "references" PROVE r.html = s.html
  BY <1>1, <1>2, <1>3, <1>5, Zenon DEF PartsOf, page
<1>6. ASSUME c.firsts = d.firsts, page.href = "references"
      PROVE  \E own : /\ r.html.ids = own \cup CiteIds(r.ctx.cited)
                      /\ s.html.ids = own \cup CiteIds(s.ctx.cited)
  <2> DEFINE own == Own(page) \cup (IF page.href # "glossary" THEN {} ELSE TermIds(a.firsts))
  <2>1. r.html.ids = own \cup CiteIds(r.ctx.cited) /\ s.html.ids = own \cup CiteIds(s.ctx.cited)
    BY <1>1, <1>2, <1>3, <1>6, Zenon DEF PartsOf, page
  <2> QED BY <2>1, Zenon
<1>7. c.firsts = d.firsts => r.ctx.firsts = s.ctx.firsts
  BY <1>1, <1>2, <1>3 DEF PartsOf
<1>8. c.firsts = d.firsts => SameBody(r.html, s.html)
  BY <1>1, <1>2, <1>3, Zenon DEF PartsOf, SameBody, page
<1> QED BY <1>4, <1>5, <1>6, <1>7, <1>8, Zenon DEF AlikeTwice, r, s, page

\* A page that is shown alike but for the labels that have changed.
PageLike(h, g, ids) == Compiler!Like(h, g, ids) /\ h.ids = g.ids

LEMMA CompiledOnChange ==
  ASSUME NEW pages, NEW i, NEW known, NEW now, NEW c, Len(pages[i].refs) \in Nat
  PROVE  LET r == Compiler!Compiled(pages, i, known, c)
             s == Compiler!Compiled(pages, i, now, c)
         IN  r.ctx = s.ctx /\ PageLike(r.html, s.html, Changed(known, now))
<1> DEFINE page == pages[i]
           a == Compiler!InlineRefs(page, known, c)
           b == Compiler!InlineRefs(page, now, c)
           r == Compiler!Compiled(pages, i, known, c)
           s == Compiler!Compiled(pages, i, now, c)
           ids == Changed(known, now)
           n == Len(page.refs)
<1>1. OnChange(a, b, n, ids)
  <2>1. n \in 0 .. n
    OBVIOUS
  <2>2. a = Inlines(page, known, c)[n] /\ b = Inlines(page, now, c)[n]
    BY InlineSteps
  <2> HIDE DEF a, b
  <2> QED BY <2>1, <2>2, InlinesOnChange
<1>2. PartsOf(pages, i, a, r) /\ PartsOf(pages, i, b, s)
  BY CompiledIs
<1>3. r.ctx = [firsts |-> a.firsts, cited |-> a.cited] /\ s.ctx = [firsts |-> b.firsts, cited |-> b.cited]
  <2> HIDE DEF a, b
  <2>1. \A x, y : [ctx |-> x, html |-> y].ctx = x
    OBVIOUS
  <2> QED BY <2>1, Zenon DEF Compiler!Compiled, a, b
<1> HIDE DEF a, b, r, s, ids, n, page
<1>4. r.ctx = s.ctx
  BY <1>1, <1>3 DEF OnChange
<1>5. /\ r.html.href = s.html.href /\ r.html.near = s.html.near /\ r.html.terms = s.html.terms
      /\ r.html.ids = s.html.ids /\ r.html.items = a.items /\ s.html.items = b.items
  BY <1>1, <1>2, Zenon DEF OnChange, PartsOf
<1>6. DOMAIN a.items = 1 .. n /\ DOMAIN b.items = 1 .. n
  BY <1>1, LenProperties DEF OnChange, IsList
<1>7. \A j \in DOMAIN b.items : \/ a.items[j] = b.items[j]
                               \/ /\ a.items[j].ref = b.items[j].ref /\ b.items[j].ref[1] = "xref"
                                  /\ b.items[j].ref[2] \in ids
  BY <1>1, <1>6, Zenon DEF OnChange, ShownLike
<1>8. PageLike(r.html, s.html, ids)
  BY <1>5, <1>6, <1>7, Zenon DEF PageLike, Compiler!Like
<1> QED BY <1>4, <1>8 DEF r, s, ids

\* What a pass has after each page.
PassStart(c) == [ctx |-> c, htmls |-> << >>]
PassStep(pages, known, acc, n) ==
  LET r == Compiler!Compiled(pages, n, known, acc.ctx)
  IN  [ctx |-> r.ctx, htmls |-> Append(acc.htmls, r.html)]
Passing(f, pages, known, c) ==
  f = [n \in 0 .. Len(pages) |->
         IF n = 0 THEN PassStart(c) ELSE PassStep(pages, known, f[n - 1], n)]

\* The recursive function of Pass is there.
LEMMA PassingThere ==
  ASSUME NEW pages, NEW known, NEW c, Len(pages) \in Nat
  PROVE  \E f : Passing(f, pages, known, c)
<1> DEFINE G(a, n) == PassStep(pages, known, a, n)
           Eq(f, n) == f = [i \in 0 .. n |-> IF i = 0 THEN PassStart(c) ELSE G(f[i - 1], i)]
           N == {n \in Nat : \E f : Eq(f, n)}
<1> HIDE DEF G
<1>1. 0 \in N
  <2> DEFINE f == [i \in 0 .. 0 |-> PassStart(c)]
  <2>1. Eq(f, 0)
    OBVIOUS
  <2> HIDE DEF f, Eq
  <2> QED BY <2>1
<1>2. ASSUME NEW n \in Nat, n \in N PROVE n + 1 \in N
  <2>1. PICK f : Eq(f, n)
    <3> HIDE DEF Eq
    <3> QED BY <1>2
  <2> DEFINE g == [i \in 0 .. n + 1 |-> IF i = 0 THEN PassStart(c) ELSE G(f[i - 1], i)]
  <2>2. ASSUME NEW i \in 0 .. n PROVE g[i] = f[i]
    <3>1. f[i] = IF i = 0 THEN PassStart(c) ELSE G(f[i - 1], i)
      BY <2>1
    <3> QED BY <3>1
  <2>3. ASSUME NEW i \in 0 .. n + 1, i # 0 PROVE g[i - 1] = f[i - 1]
    <3>1. i - 1 \in 0 .. n
      BY <2>3
    <3> HIDE DEF g
    <3> QED BY <2>2, <3>1
  <2>4. Eq(g, n + 1)
    <3> HIDE DEF g
    <3>1. [i \in 0 .. n + 1 |-> IF i = 0 THEN PassStart(c) ELSE G(g[i - 1], i)]
            = [i \in 0 .. n + 1 |-> IF i = 0 THEN PassStart(c) ELSE G(f[i - 1], i)]
      BY <2>3
    <3> QED BY <3>1 DEF g
  <2> HIDE DEF g, Eq
  <2> QED BY <2>4
<1> HIDE DEF N
<1>3. \A n \in Nat : n \in N
  BY <1>1, <1>2, NatInd, Zenon
<1> QED BY <1>3 DEF N, G, Passing

Passes(pages, known, c) == CHOOSE f : Passing(f, pages, known, c)

\* Pass by the steps it takes.
LEMMA PassSteps ==
  ASSUME NEW pages, NEW known, NEW c, Len(pages) \in Nat
  PROVE  LET f == Passes(pages, known, c)
         IN  /\ f[0].ctx = c /\ f[0].htmls = << >>
             /\ \A n \in 1 .. Len(pages) :
                  LET r == Compiler!Compiled(pages, n, known, f[n - 1].ctx)
                  IN  f[n].ctx = r.ctx /\ f[n].htmls = Append(f[n - 1].htmls, r.html)
             /\ Compiler!Pass(pages, known, c) = f[Len(pages)]
<1> DEFINE f == Passes(pages, known, c)
<1>1. Passing(f, pages, known, c)
  BY PassingThere, Zenon DEF Passes
<1>2. Compiler!Pass(pages, known, c) = f[Len(pages)]
  BY Zenon DEF Compiler!Pass, Passes, Passing, PassStart, PassStep
<1> HIDE DEF f
<1>3. \A n \in 0 .. Len(pages) :
        f[n] = IF n = 0 THEN PassStart(c) ELSE PassStep(pages, known, f[n - 1], n)
  BY <1>1 DEF Passing
<1>4. f[0].ctx = c /\ f[0].htmls = << >>
  BY <1>3 DEF PassStart
<1>5. ASSUME NEW n \in 1 .. Len(pages)
      PROVE  LET r == Compiler!Compiled(pages, n, known, f[n - 1].ctx)
             IN  f[n].ctx = r.ctx /\ f[n].htmls = Append(f[n - 1].htmls, r.html)
  <2>1. f[n] = PassStep(pages, known, f[n - 1], n)
    BY <1>3
  <2> DEFINE r == Compiler!Compiled(pages, n, known, f[n - 1].ctx)
  <2>2. f[n] = [ctx |-> r.ctx, htmls |-> Append(f[n - 1].htmls, r.html)]
    BY <2>1, Zenon DEF PassStep
  <2> HIDE DEF r
  <2>3. f[n].ctx = r.ctx /\ f[n].htmls = Append(f[n - 1].htmls, r.html)
    BY <2>2
  <2> QED BY <2>3 DEF r
<1> QED BY <1>2, <1>4, <1>5 DEF f

\* The pages of a book, by what they are made of.
LEMMA ChaptersTyped ==
  ASSUME NEW pages \in Seq(Compiler!BookChapter)
  PROVE  /\ Len(pages) \in Nat /\ DOMAIN pages = 1 .. Len(pages) /\ IsList(pages)
         /\ \A n \in 1 .. Len(pages) :
              /\ pages[n] \in Compiler!BookChapter /\ pages[n].href # ""
              /\ pages[n].refs \in Compiler!Refs
              /\ Len(pages[n].refs) \in Nat /\ DOMAIN pages[n].refs = 1 .. Len(pages[n].refs)
              /\ pages[n].figs \in Seq(STRING)
              /\ \A m \in 1 .. Len(pages[n].refs) :
                   pages[n].refs[m] = <<pages[n].refs[m][1], pages[n].refs[m][2]>>
<1>1. Len(pages) \in Nat /\ DOMAIN pages = 1 .. Len(pages) /\ IsList(pages)
  BY LenProperties, Zenon DEF IsList
<1>2. ASSUME NEW p \in Compiler!BookChapter
      PROVE  p.href # "" /\ p.refs \in Compiler!Refs /\ p.figs \in Seq(STRING)
  BY DEF Compiler!BookChapter
<1>3. ASSUME NEW r \in Compiler!Refs
      PROVE  /\ Len(r) \in Nat /\ DOMAIN r = 1 .. Len(r)
             /\ \A m \in 1 .. Len(r) : r[m] = <<r[m][1], r[m][2]>>
  <2> DEFINE T == {"xref", "gls", "cite"} \X STRING
  <2>1. r \in Seq(T)
    BY DEF Compiler!Refs
  <2>2. \A t \in T : t = <<t[1], t[2]>>
    OBVIOUS
  <2> HIDE DEF T
  <2> QED BY <2>1, <2>2, LenProperties, ElementOfSeq
<1> QED BY <1>1, <1>2, <1>3, ElementOfSeq

\* The pages of a pass, each compiled in the context the one before it leaves.
PagesTo(f, pages, known, n) ==
  /\ IsList(f[n].htmls) /\ Len(f[n].htmls) = n
  /\ IsList(f[n].ctx.firsts)
  /\ \A m \in 1 .. n : f[n].htmls[m] = Compiler!Compiled(pages, m, known, f[m - 1].ctx).html

LEMMA PassPages ==
  ASSUME NEW pages \in Seq(Compiler!BookChapter), NEW known, NEW c, IsList(c.firsts)
  PROVE  \A n \in 0 .. Len(pages) : PagesTo(Passes(pages, known, c), pages, known, n)
<1> DEFINE f == Passes(pages, known, c)
           P == {n \in Nat : n <= Len(pages) => PagesTo(f, pages, known, n)}
<1>0. Len(pages) \in Nat /\ \A n \in 1 .. Len(pages) : Len(pages[n].refs) \in Nat
  BY ChaptersTyped
<1> HIDE DEF f
<1>1. /\ f[0].ctx = c /\ f[0].htmls = << >>
      /\ \A n \in 1 .. Len(pages) :
           LET r == Compiler!Compiled(pages, n, known, f[n - 1].ctx)
           IN  f[n].ctx = r.ctx /\ f[n].htmls = Append(f[n - 1].htmls, r.html)
  BY <1>0, PassSteps DEF f
<1>2. 0 \in P
  <2>1. IsList(<< >>) /\ Len(<< >>) = 0
    BY EmptySeq DEF IsList
  <2> QED BY <1>1, <2>1 DEF PagesTo
<1>3. ASSUME NEW n \in Nat, n \in P PROVE n + 1 \in P
  <2> SUFFICES ASSUME n + 1 <= Len(pages) PROVE PagesTo(f, pages, known, n + 1)
    OBVIOUS
  <2> DEFINE r == Compiler!Compiled(pages, n + 1, known, f[n].ctx)
             k == n + 1
  <2>1. k \in 1 .. Len(pages) /\ k - 1 = n
    OBVIOUS
  <2>2. f[k].ctx = r.ctx /\ f[k].htmls = Append(f[n].htmls, r.html)
    BY <1>1, <2>1
  <2>3. PagesTo(f, pages, known, n)
    BY <1>3
  <2>4. IsList(r.ctx.firsts)
    BY <1>0, <2>1, <2>3, CompiledThrough DEF PagesTo, PageIs
  <2> HIDE DEF r
  <2>5. /\ IsList(f[k].htmls) /\ Len(f[k].htmls) = n + 1
        /\ \A m \in 1 .. n : f[k].htmls[m] = f[n].htmls[m]
        /\ f[k].htmls[k] = r.html
    BY <2>2, <2>3, AppendList DEF PagesTo
  <2>6. ASSUME NEW m \in 1 .. k
        PROVE  f[k].htmls[m] = Compiler!Compiled(pages, m, known, f[m - 1].ctx).html
    <3>1. CASE m \in 1 .. n
      BY <2>3, <2>5, <3>1 DEF PagesTo
    <3>2. CASE m = k
      BY <2>1, <2>5, <3>2 DEF r
    <3> QED BY <3>1, <3>2
  <2> QED BY <2>2, <2>4, <2>5, <2>6 DEF PagesTo
<1> HIDE DEF P
<1>4. \A n \in Nat : n \in P
  BY <1>2, <1>3, NatInd, Zenon
<1> QED BY <1>0, <1>4 DEF P, f

\* A first use that is of a page that uses the term.
UsedBy(pages, e, n) ==
  \E k \in 1 .. n : pages[k].href = e.href /\ \E m \in 1 .. Len(pages[k].refs) :
    Term(pages[k].refs[m]) /\ pages[k].refs[m][2] = e.key

CitesIn(pages, n) == UNION {CitesOf(pages[m]) : m \in 1 .. n}

\* What a pass knows after n pages: the terms they refer to, with where they are used
\* first, and the sources they cite.
KnownTo(f, pages, c, n) ==
  /\ \A m \in 1 .. n : TermsOf(pages[m]) \subseteq KeysOf(f[n].ctx.firsts)
  /\ c.firsts = << >> => \A j \in DOMAIN f[n].ctx.firsts : UsedBy(pages, f[n].ctx.firsts[j], n)
  /\ f[n].ctx.cited = c.cited \cup CitesIn(pages, n)

LEMMA PassKnows ==
  ASSUME NEW pages \in Seq(Compiler!BookChapter), NEW known, NEW c, IsList(c.firsts)
  PROVE  \A n \in 0 .. Len(pages) : KnownTo(Passes(pages, known, c), pages, c, n)
<1> DEFINE f == Passes(pages, known, c)
           P == {n \in Nat : n <= Len(pages) => KnownTo(f, pages, c, n)}
<1>0. Len(pages) \in Nat /\ \A n \in 1 .. Len(pages) : Len(pages[n].refs) \in Nat
  BY ChaptersTyped
<1>1. /\ f[0].ctx = c /\ f[0].htmls = << >>
      /\ \A n \in 1 .. Len(pages) :
           LET r == Compiler!Compiled(pages, n, known, f[n - 1].ctx)
           IN  f[n].ctx = r.ctx /\ f[n].htmls = Append(f[n - 1].htmls, r.html)
  BY <1>0, PassSteps
<1>2. \A n \in 0 .. Len(pages) : PagesTo(f, pages, known, n)
  BY PassPages
<1> HIDE DEF f
<1>3. 0 \in P
  <2>1. CitesIn(pages, 0) = {}
    BY DEF CitesIn
  <2>2. c.firsts = << >> => DOMAIN c.firsts = {}
    OBVIOUS
  <2>3. KnownTo(f, pages, c, 0)
    BY <1>1, <2>1, <2>2 DEF KnownTo
  <2> QED BY <2>3
<1>4. ASSUME NEW n \in Nat, n \in P PROVE n + 1 \in P
  <2> SUFFICES ASSUME n + 1 <= Len(pages) PROVE KnownTo(f, pages, c, n + 1)
    OBVIOUS
  <2> DEFINE k == n + 1
             r == Compiler!Compiled(pages, k, known, f[n].ctx)
             page == pages[k]
  <2>1. k \in 1 .. Len(pages) /\ k - 1 = n /\ k \in 1 .. k /\ n \in 0 .. Len(pages)
    OBVIOUS
  <2>2. f[k].ctx = r.ctx
    BY <1>1, <2>1
  <2>3. KnownTo(f, pages, c, n)
    BY <1>4
  <2>4. PageIs(pages, k, known, f[n].ctx, r)
    BY <1>0, <1>2, <2>1, CompiledThrough DEF PagesTo
  <2> HIDE DEF r
  <2>5. /\ KeysOf(f[k].ctx.firsts) = KeysOf(f[n].ctx.firsts) \cup TermsOf(page)
        /\ \A j \in DOMAIN f[k].ctx.firsts : Placed(f[k].ctx.firsts[j], f[n].ctx.firsts, page, Len(page.refs))
        /\ f[k].ctx.cited = f[n].ctx.cited \cup CitesOf(page)
    BY <2>2, <2>4 DEF PageIs
  <2>6. ASSUME NEW m \in 1 .. k PROVE TermsOf(pages[m]) \subseteq KeysOf(f[k].ctx.firsts)
    <3>1. m \in 1 .. n \/ m = k
      OBVIOUS
    <3> QED BY <2>3, <2>5, <3>1 DEF KnownTo
  <2>7. ASSUME c.firsts = << >>, NEW j \in DOMAIN f[k].ctx.firsts
        PROVE  UsedBy(pages, f[k].ctx.firsts[j], k)
    <3> DEFINE e == f[k].ctx.firsts[j]
    <3>1. Placed(e, f[n].ctx.firsts, page, Len(page.refs))
      BY <2>5
    <3> HIDE DEF e
    <3>2. CASE \E i \in DOMAIN f[n].ctx.firsts : f[n].ctx.firsts[i] = e
      <4>1. UsedBy(pages, e, n)
        BY <2>3, <2>7, <3>2 DEF KnownTo
      <4>2. \A i \in 1 .. n : i \in 1 .. k
        OBVIOUS
      <4> QED BY <4>1, <4>2 DEF UsedBy, e
    <3>3. CASE ~ \E i \in DOMAIN f[n].ctx.firsts : f[n].ctx.firsts[i] = e
      BY <2>1, <3>1, <3>3, Zenon DEF Placed, UsedBy, e
    <3> QED BY <3>2, <3>3
  <2>8. CitesIn(pages, k) = CitesIn(pages, n) \cup CitesOf(page)
    <3>1. \A i : i \in 1 .. k <=> i \in 1 .. n \/ i = k
      OBVIOUS
    <3> HIDE DEF k, page
    <3>2. \A x : x \in CitesIn(pages, k) <=> \E m \in 1 .. k : x \in CitesOf(pages[m])
      BY DEF CitesIn
    <3>3. \A x : x \in CitesIn(pages, n) <=> \E m \in 1 .. n : x \in CitesOf(pages[m])
      BY DEF CitesIn
    <3> QED BY <3>1, <3>2, <3>3 DEF page
  <2>9. f[k].ctx.cited = c.cited \cup CitesIn(pages, k)
    <3>1. f[n].ctx.cited = c.cited \cup CitesIn(pages, n)
      BY <2>3 DEF KnownTo
    <3> QED BY <2>5, <2>8, <3>1
  <2> HIDE DEF k, page
  <2>10. KnownTo(f, pages, c, k)
    BY <2>6, <2>7, <2>9 DEF KnownTo
  <2> QED BY <2>10 DEF k
<1> HIDE DEF P
<1>5. \A n \in Nat : n \in P
  BY <1>3, <1>4, NatInd, Zenon
<1> QED BY <1>0, <1>5 DEF P, f

\* Two passes that start with the same first uses write the same, but for the list of
\* sources, where one has besides what it starts with.
LEMMA PassesAlike ==
  ASSUME NEW pages \in Seq(Compiler!BookChapter), NEW known, NEW c, NEW d,
         IsList(c.firsts), c.firsts = d.firsts, c.cited \subseteq d.cited
  PROVE  LET p == Compiler!Pass(pages, known, c).htmls
             q == Compiler!Pass(pages, known, d).htmls
         IN  /\ Len(p) = Len(pages) /\ DOMAIN p = 1 .. Len(pages)
             /\ Len(q) = Len(pages) /\ DOMAIN q = 1 .. Len(pages)
             /\ \A i \in 1 .. Len(pages) :
                  /\ p[i].href = pages[i].href
                  /\ SameBody(p[i], q[i])
                  /\ p[i].href # "references" => q[i] = p[i]
                  /\ p[i].href = "references" =>
                       p[i].ids \subseteq q[i].ids /\ q[i].ids \ p[i].ids \subseteq CiteIds(d.cited)
<1> DEFINE f == Passes(pages, known, c)
           g == Passes(pages, known, d)
           R(i) == Compiler!Compiled(pages, i, known, f[i - 1].ctx)
           S(i) == Compiler!Compiled(pages, i, known, g[i - 1].ctx)
           P == {n \in Nat : n <= Len(pages) => f[n].ctx.firsts = g[n].ctx.firsts}
<1>0. Len(pages) \in Nat /\ \A n \in 1 .. Len(pages) : Len(pages[n].refs) \in Nat
  BY ChaptersTyped
<1>1. /\ f[0].ctx = c
      /\ \A n \in 1 .. Len(pages) : f[n].ctx = R(n).ctx
      /\ Compiler!Pass(pages, known, c) = f[Len(pages)]
  BY <1>0, PassSteps
<1>2. /\ g[0].ctx = d
      /\ \A n \in 1 .. Len(pages) : g[n].ctx = S(n).ctx
      /\ Compiler!Pass(pages, known, d) = g[Len(pages)]
  BY <1>0, PassSteps
<1>3. /\ \A n \in 0 .. Len(pages) : PagesTo(f, pages, known, n)
      /\ \A n \in 0 .. Len(pages) : PagesTo(g, pages, known, n)
  BY PassPages
<1>4. \A n \in 0 .. Len(pages) : KnownTo(f, pages, c, n) /\ KnownTo(g, pages, d, n)
  BY PassKnows
<1>5. ASSUME NEW i \in 1 .. Len(pages)
      PROVE  f[i - 1].ctx.firsts = g[i - 1].ctx.firsts =>
                  /\ R(i).ctx.firsts = S(i).ctx.firsts
                  /\ SameBody(R(i).html, S(i).html)
                  /\ pages[i].href # "references" => R(i).html = S(i).html
                  /\ pages[i].href = "references" =>
                       \E own : /\ R(i).html.ids = own \cup CiteIds(R(i).ctx.cited)
                                /\ S(i).html.ids = own \cup CiteIds(S(i).ctx.cited)
  <2> HIDE DEF f, g
  <2>1. Len(pages[i].refs) \in Nat
    BY <1>0
  <2>2. AlikeTwice(pages[i], f[i - 1].ctx, g[i - 1].ctx, R(i), S(i))
    BY <2>1, CompiledAlike, Zenon
  <2> HIDE DEF R, S
  <2> QED BY <2>2, Zenon DEF AlikeTwice
<1>6. ASSUME NEW i \in 1 .. Len(pages) PROVE R(i).html.href = pages[i].href
  <2> HIDE DEF f
  <2>1. PartsOf(pages, i, Compiler!InlineRefs(pages[i], known, f[i - 1].ctx), R(i))
    BY CompiledIs, Zenon
  <2> QED BY <2>1, Zenon DEF PartsOf
<1> HIDE DEF f, g, R, S
<1>7. \A n \in Nat : n \in P
  <2>1. 0 \in P
    BY <1>1, <1>2
  <2>2. ASSUME NEW n \in Nat, n \in P PROVE n + 1 \in P
    <3> SUFFICES ASSUME n + 1 <= Len(pages) PROVE f[n + 1].ctx.firsts = g[n + 1].ctx.firsts
      OBVIOUS
    <3>1. n + 1 \in 1 .. Len(pages) /\ n + 1 - 1 = n /\ f[n].ctx.firsts = g[n].ctx.firsts
      BY <2>2
    <3> QED BY <1>1, <1>2, <1>5, <3>1
  <2> HIDE DEF P
  <2> QED BY <2>1, <2>2, NatInd, Zenon
<1> DEFINE N == Len(pages)
           p == f[N].htmls
           q == g[N].htmls
<1>8. /\ Len(p) = N /\ DOMAIN p = 1 .. N /\ Len(q) = N /\ DOMAIN q = 1 .. N
      /\ \A i \in 1 .. N : p[i] = R(i).html /\ q[i] = S(i).html
  <2>1. N \in 0 .. N
    BY <1>0
  <2>2. \A s : IsList(s) => DOMAIN s = 1 .. Len(s)
    BY LenProperties DEF IsList
  <2> QED BY <1>3, <2>1, <2>2, ZenonT(40) DEF PagesTo, R, S
<1>9. ASSUME NEW i \in 1 .. N
      PROVE  /\ p[i].href = pages[i].href
             /\ SameBody(p[i], q[i])
             /\ p[i].href # "references" => q[i] = p[i]
             /\ p[i].href = "references" =>
                  p[i].ids \subseteq q[i].ids /\ q[i].ids \ p[i].ids \subseteq CiteIds(d.cited)
  <2>1. i - 1 \in Nat /\ i - 1 <= N /\ i \in 0 .. N
    BY <1>0
  <2>2. f[i - 1].ctx.firsts = g[i - 1].ctx.firsts
    BY <1>7, <2>1
  <2>3. p[i] = R(i).html /\ q[i] = S(i).html /\ R(i).html.href = pages[i].href
    BY <1>6, <1>8
  <2>4. ASSUME pages[i].href = "references"
        PROVE  p[i].ids \subseteq q[i].ids /\ q[i].ids \ p[i].ids \subseteq CiteIds(d.cited)
    <3>1. PICK own : /\ R(i).html.ids = own \cup CiteIds(R(i).ctx.cited)
                     /\ S(i).html.ids = own \cup CiteIds(S(i).ctx.cited)
      BY <1>5, <2>2, <2>4
    <3>2. /\ R(i).ctx.cited = c.cited \cup CitesIn(pages, i)
          /\ S(i).ctx.cited = d.cited \cup CitesIn(pages, i)
      BY <1>1, <1>2, <1>4, <2>1 DEF KnownTo
    <3>3. \A X, Y : CiteIds(X \cup Y) = CiteIds(X) \cup CiteIds(Y)
      BY DEF CiteIds
    <3>4. CiteIds(c.cited) \subseteq CiteIds(d.cited)
      BY DEF CiteIds
    <3> HIDE DEF p, q
    <3> QED BY <2>3, <3>1, <3>2, <3>3, <3>4
  <2> HIDE DEF p, q
  <2> QED BY <1>5, <2>2, <2>3, <2>4
<1> HIDE DEF p, q
<1> QED BY <1>1, <1>2, <1>8, <1>9, ZenonT(40) DEF p, q, N

\* Passes with other labels write alike but for the labels that have changed.
LEMMA PassesOnChange ==
  ASSUME NEW pages \in Seq(Compiler!BookChapter), NEW known, NEW now, NEW c, IsList(c.firsts)
  PROVE  LET p == Compiler!Pass(pages, known, c).htmls
             q == Compiler!Pass(pages, now, c).htmls
         IN  /\ DOMAIN p = 1 .. Len(pages) /\ DOMAIN q = 1 .. Len(pages)
             /\ Len(p) = Len(pages) /\ Len(q) = Len(pages)
             /\ \A i \in 1 .. Len(pages) : PageLike(p[i], q[i], Changed(known, now))
<1> DEFINE f == Passes(pages, known, c)
           g == Passes(pages, now, c)
           R(i) == Compiler!Compiled(pages, i, known, f[i - 1].ctx)
           S(i) == Compiler!Compiled(pages, i, now, g[i - 1].ctx)
           ids == Changed(known, now)
           P == {n \in Nat : n <= Len(pages) => f[n].ctx = g[n].ctx}
<1>0. Len(pages) \in Nat /\ \A n \in 1 .. Len(pages) : Len(pages[n].refs) \in Nat
  BY ChaptersTyped
<1>1. /\ f[0].ctx = c /\ g[0].ctx = c
      /\ \A n \in 1 .. Len(pages) : f[n].ctx = R(n).ctx /\ g[n].ctx = S(n).ctx
      /\ Compiler!Pass(pages, known, c) = f[Len(pages)]
      /\ Compiler!Pass(pages, now, c) = g[Len(pages)]
  BY <1>0, PassSteps
<1>2. /\ \A n \in 0 .. Len(pages) : PagesTo(f, pages, known, n)
      /\ \A n \in 0 .. Len(pages) : PagesTo(g, pages, now, n)
  BY PassPages
<1> HIDE DEF f, g, ids
<1>3. ASSUME NEW i \in 1 .. Len(pages), f[i - 1].ctx = g[i - 1].ctx
      PROVE  R(i).ctx = S(i).ctx /\ PageLike(R(i).html, S(i).html, ids)
  <2> DEFINE e == f[i - 1].ctx
             r == Compiler!Compiled(pages, i, known, e)
             s == Compiler!Compiled(pages, i, now, e)
  <2>1. Len(pages[i].refs) \in Nat
    BY <1>0
  <2>2. r.ctx = s.ctx /\ PageLike(r.html, s.html, ids)
    BY <2>1, CompiledOnChange, Zenon DEF ids
  <2>3. R(i) = r /\ S(i) = s
    BY <1>3
  <2> HIDE DEF r, s, R, S
  <2> QED BY <2>2, <2>3
<1> HIDE DEF R, S
<1>4. \A n \in Nat : n \in P
  <2>1. 0 \in P
    BY <1>1
  <2>2. ASSUME NEW n \in Nat, n \in P PROVE n + 1 \in P
    <3> SUFFICES ASSUME n + 1 <= Len(pages) PROVE f[n + 1].ctx = g[n + 1].ctx
      OBVIOUS
    <3>1. n + 1 \in 1 .. Len(pages) /\ n + 1 - 1 = n /\ f[n].ctx = g[n].ctx
      BY <2>2
    <3> QED BY <1>1, <1>3, <3>1
  <2> HIDE DEF P
  <2> QED BY <2>1, <2>2, NatInd, Zenon
<1> DEFINE N == Len(pages)
           p == f[N].htmls
           q == g[N].htmls
<1>5. /\ Len(p) = N /\ DOMAIN p = 1 .. N /\ Len(q) = N /\ DOMAIN q = 1 .. N
      /\ \A i \in 1 .. N : p[i] = R(i).html /\ q[i] = S(i).html
  <2>1. N \in 0 .. N
    BY <1>0
  <2>2. \A s : IsList(s) => DOMAIN s = 1 .. Len(s)
    BY LenProperties DEF IsList
  <2> QED BY <1>2, <2>1, <2>2, ZenonT(40) DEF PagesTo, R, S
<1>6. ASSUME NEW i \in 1 .. N PROVE PageLike(p[i], q[i], ids)
  <2>1. i - 1 \in Nat /\ i - 1 <= N
    BY <1>0
  <2>2. f[i - 1].ctx = g[i - 1].ctx
    BY <1>4, <2>1
  <2> HIDE DEF p, q
  <2> QED BY <1>3, <1>5, <2>2
<1> HIDE DEF p, q
<1> QED BY <1>1, <1>5, <1>6, Zenon DEF p, q, N, ids

---------------------------------------------------------------------------
(* The book: labels.                                                       *)

\* The page an anchor is of has it.
LEMMA OwnerOf ==
  ASSUME NEW pages \in Seq(Compiler!BookChapter),
         NEW id \in Compiler!Sections(pages) \cup Compiler!Figures(pages)
  PROVE  /\ Compiler!Owner(pages, id) \in 1 .. Len(pages)
         /\ IF id \in Compiler!Sections(pages)
              THEN id # None /\ pages[Compiler!Owner(pages, id)].sec = id
              ELSE id \in ToSet(pages[Compiler!Owner(pages, id)].figs)
<1>0. Len(pages) \in Nat /\ DOMAIN pages = 1 .. Len(pages)
  BY ChaptersTyped
<1>1. CASE id \in Compiler!Sections(pages)
  <2> DEFINE S == {i \in DOMAIN pages : pages[i].sec = id}
  <2>1. Compiler!Owner(pages, id) = Max(S)
    BY <1>1, Zenon DEF Compiler!Owner, Compiler!Max, Max
  <2>2. id # None /\ S # {}
    BY <1>1 DEF Compiler!Sections
  <2>3. S \in SUBSET (0 .. Len(pages))
    BY <1>0
  <2>4. Max(S) \in S
    BY <1>0, <2>2, <2>3, MaxOf
  <2> HIDE DEF S
  <2>5. Max(S) \in 1 .. Len(pages) /\ pages[Max(S)].sec = id
    BY <1>0, <2>4 DEF S
  <2> QED BY <1>1, <2>1, <2>2, <2>5, Zenon
<1>2. CASE id \notin Compiler!Sections(pages)
  <2> DEFINE S == {i \in DOMAIN pages : id \in ToSet(pages[i].figs)}
  <2>1. Compiler!Owner(pages, id) = Min(S)
    BY <1>2, Zenon DEF Compiler!Owner, Compiler!Min, Min, Compiler!ToSet, ToSet
  <2>2. S # {}
    <3>1. \A x : x \in Compiler!Figures(pages) => \E i \in DOMAIN pages : x \in ToSet(pages[i].figs)
      BY DEF Compiler!Figures, Compiler!ToSet, ToSet
    <3> QED BY <1>2, <3>1
  <2>3. S \in SUBSET Nat
    BY <1>0
  <2>4. Min(S) \in S
    BY <2>2, <2>3, MinOf
  <2> HIDE DEF S
  <2>5. Min(S) \in 1 .. Len(pages) /\ id \in ToSet(pages[Min(S)].figs)
    BY <1>0, <2>4 DEF S
  <2> QED BY <1>2, <2>1, <2>5, Zenon
<1> QED BY <1>1, <1>2

\* What the labels are.
LEMMA CrossrefIs ==
  ASSUME NEW pages
  PROVE  LET known == Compiler!Crossref(pages)
         IN  /\ DOMAIN known = Compiler!Sections(pages) \cup Compiler!Figures(pages)
             /\ \A id \in DOMAIN known :
                  /\ known[id].href = pages[Compiler!Owner(pages, id)].href
                  /\ known[id].anchor = <<"xref", id>>
                  /\ known[id].label =
                       IF id \in Compiler!Sections(pages)
                         THEN <<Compiler!Num(pages, Compiler!Owner(pages, id))>>
                         ELSE <<Compiler!Num(pages, Compiler!Owner(pages, id)), Compiler!FigN(pages, id)>>
<1> DEFINE known == Compiler!Crossref(pages)
           ids == Compiler!Sections(pages) \cup Compiler!Figures(pages)
           own(id) == pages[Compiler!Owner(pages, id)].href
           label(id) == IF id \in Compiler!Sections(pages)
                          THEN <<Compiler!Num(pages, Compiler!Owner(pages, id))>>
                          ELSE <<Compiler!Num(pages, Compiler!Owner(pages, id)), Compiler!FigN(pages, id)>>
<1>1. known = [id \in ids |-> [href |-> own(id), anchor |-> <<"xref", id>>, label |-> label(id)]]
  BY Zenon DEF Compiler!Crossref
<1> HIDE DEF known, ids, own, label
<1>2. /\ DOMAIN known = ids
      /\ \A id \in ids : /\ known[id].href = own(id) /\ known[id].anchor = <<"xref", id>>
                         /\ known[id].label = label(id)
  BY <1>1
<1> QED BY <1>2, Zenon DEF known, ids, own, label

\* The numbered pages up to one: more of them the further on it is.
LEMMA NumApart ==
  ASSUME NEW pages \in Seq(Compiler!BookChapter), NEW i \in 1 .. Len(pages),
         NEW j \in 1 .. Len(pages), Compiler!Num(pages, i) = Compiler!Num(pages, j),
         Compiler!Num(pages, i) # 0
  PROVE  i = j
<1> DEFINE V == {k \in 1 .. Len(pages) : pages[k].numbered}
           rank(n) == Cardinality({k \in V : k <= n})
<1>0. Len(pages) \in Nat
  BY ChaptersTyped
<1>1. ASSUME NEW n \in 1 .. Len(pages), Compiler!Num(pages, n) # 0
      PROVE  n \in V /\ Compiler!Num(pages, n) = rank(n)
  <2>1. pages[n].numbered /\ Compiler!Num(pages, n) = Cardinality({k \in 1 .. n : pages[k].numbered})
    <3>1. Compiler!Num(pages, n) = IF pages[n].numbered THEN Cardinality({k \in 1 .. n : pages[k].numbered}) ELSE 0
      BY Zenon DEF Compiler!Num, Compiler!Cardinality, Cardinality
    <3> QED BY <1>1, <3>1
  <2>2. {k \in 1 .. n : pages[k].numbered} = {k \in V : k <= n}
    BY <1>0
  <2> QED BY <2>1, <2>2
<1>2. \A k, m \in V : k # m => rank(k) # rank(m)
  <2>1. V \in SUBSET (1 .. Len(pages))
    OBVIOUS
  <2> HIDE DEF V
  <2> QED BY <1>0, <2>1, Ranked
<1> HIDE DEF V, rank
<1>3. i \in V /\ j \in V /\ rank(i) = rank(j)
  BY <1>1
<1> QED BY <1>2, <1>3

\* Two figures of a page have two numbers.
LEMMA FigNApart ==
  ASSUME NEW pages \in Seq(Compiler!BookChapter),
         NEW x \in Compiler!Figures(pages) \ Compiler!Sections(pages),
         NEW y \in Compiler!Figures(pages) \ Compiler!Sections(pages),
         Compiler!Owner(pages, x) = Compiler!Owner(pages, y),
         Compiler!FigN(pages, x) = Compiler!FigN(pages, y)
  PROVE  x = y
<1> DEFINE o == Compiler!Owner(pages, x)
           figs == pages[o].figs
           F(z) == Min({k \in DOMAIN figs : figs[k] = z})
           T(n) == {f \in {figs[k] : k \in 1 .. n} : Compiler!Owner(pages, f) = o}
<1>1. o \in 1 .. Len(pages) /\ x \in ToSet(figs) /\ y \in ToSet(figs)
  BY OwnerOf
<1>2. figs \in Seq(STRING)
  BY <1>1, ChaptersTyped
<1>3. Compiler!FigN(pages, x) = Cardinality(T(F(x))) /\ Compiler!FigN(pages, y) = Cardinality(T(F(y)))
  <2>1. ASSUME NEW z
        PROVE  Compiler!FigN(pages, z) = 
                 LET g == pages[Compiler!Owner(pages, z)].figs
                 IN  Cardinality({f \in {g[k] : k \in 1 .. Min({k \in DOMAIN g : g[k] = z})} :
                                    Compiler!Owner(pages, f) = Compiler!Owner(pages, z)})
    BY Zenon DEF Compiler!FigN, Compiler!Min, Min, Compiler!Cardinality, Cardinality
  <2>2. ASSUME NEW z, Compiler!Owner(pages, z) = o PROVE Compiler!FigN(pages, z) = Cardinality(T(F(z)))
    <3> HIDE DEF o
    <3>1. Compiler!FigN(pages, z) =
            Cardinality({f \in {figs[k] : k \in 1 .. Min({k \in DOMAIN figs : figs[k] = z})} :
                                    Compiler!Owner(pages, f) = o})
      BY <2>1, <2>2, SMTT(30)
    <3> QED BY <3>1
  <2> QED BY <2>2
<1>o. Compiler!Owner(pages, y) = o
  OBVIOUS
<1> HIDE DEF o, figs
<1>4. ASSUME NEW z, z \in ToSet(figs)
      PROVE  /\ F(z) \in 1 .. Len(figs) /\ figs[F(z)] = z
             /\ \A k \in 1 .. Len(figs) : figs[k] = z => F(z) <= k
  <2> DEFINE S == {k \in DOMAIN figs : figs[k] = z}
  <2>1. DOMAIN figs = 1 .. Len(figs) /\ Len(figs) \in Nat
    BY <1>2
  <2>2. S \in SUBSET Nat /\ S # {}
    BY <1>4, <2>1 DEF ToSet
  <2>3. Min(S) \in S /\ \A k \in S : Min(S) <= k
    BY <2>2, MinOf
  <2> HIDE DEF S
  <2>4. F(z) = Min(S)
    BY Zenon DEF S
  <2> HIDE DEF F
  <2> QED BY <2>1, <2>3, <2>4 DEF S
<1>5. ASSUME NEW n \in 1 .. Len(figs) PROVE IsFiniteSet(T(n))
  <2>1. n \in Nat /\ IsFiniteSet(1 .. n)
    BY <1>2, FS_Interval
  <2>2. IsFiniteSet({figs[k] : k \in 1 .. n})
    <3> DEFINE g == [k \in 1 .. n |-> figs[k]]
               R == {figs[k] : k \in 1 .. n}
    <3>1. g \in Surjection(1 .. n, R)
      BY DEF Surjection
    <3> HIDE DEF g, R
    <3> QED BY <2>1, <3>1, FS_Surjection DEF R
  <2> QED BY <2>2, FS_Subset
<1>6. ASSUME NEW v \in ToSet(figs), NEW w \in ToSet(figs), Compiler!Owner(pages, w) = o, F(v) < F(w)
      PROVE  Cardinality(T(F(v))) # Cardinality(T(F(w)))
  <2>1. /\ F(v) \in 1 .. Len(figs) /\ F(w) \in 1 .. Len(figs) /\ figs[F(w)] = w
        /\ \A k \in 1 .. Len(figs) : figs[k] = w => F(w) <= k
    BY <1>4
  <2> DEFINE m == F(v)
             n == F(w)
  <2>2. m \in 1 .. Len(figs) /\ n \in 1 .. Len(figs) /\ figs[n] = w /\ m < n
        /\ \A k \in 1 .. Len(figs) : figs[k] = w => n <= k
    BY <1>6, <2>1
  <2> HIDE DEF m, n
  <2>3. T(m) \subseteq T(n)
    BY <2>2
  <2>4. w \in T(n) /\ w \notin T(m)
    BY <1>6, <2>2
  <2>5. IsFiniteSet(T(m)) /\ IsFiniteSet(T(n))
    BY <1>5, <2>2
  <2> HIDE DEF T
  <2>6. Cardinality(T(m)) < Cardinality(T(n)) /\ Cardinality(T(m)) \in Nat /\ Cardinality(T(n)) \in Nat
    BY <2>3, <2>4, <2>5, FS_Subset, FS_CardinalityType
  <2> QED BY <2>6 DEF m, n
<1> HIDE DEF T, F
<1>7. F(x) = F(y)
  <2>1. F(x) \in Int /\ F(y) \in Int
    BY <1>1, <1>2, <1>4
  <2>2. Cardinality(T(F(x))) = Cardinality(T(F(y)))
    BY <1>3
  <2> QED BY <1>1, <1>6, <1>o, <2>1, <2>2 DEF o
<1> QED BY <1>1, <1>4, <1>7

\* No two sections or figures of numbered pages have one label.
LEMMA LabelsApart ==
  ASSUME NEW pages \in Seq(Compiler!BookChapter)
  PROVE  LET known == Compiler!Crossref(pages)
         IN  \A x, y \in DOMAIN known :
               known[x].label = known[y].label => x = y \/ known[x].label[1] = 0
<1> DEFINE known == Compiler!Crossref(pages)
           S == Compiler!Sections(pages)
           num(id) == Compiler!Num(pages, Compiler!Owner(pages, id))
           fig(id) == Compiler!FigN(pages, id)
<1>1. /\ DOMAIN known = S \cup Compiler!Figures(pages)
      /\ \A id \in DOMAIN known :
           known[id].label = IF id \in S THEN <<num(id)>> ELSE <<num(id), fig(id)>>
  BY CrossrefIs
<1> HIDE DEF known, num, fig
<1>2. ASSUME NEW x \in DOMAIN known, NEW y \in DOMAIN known,
             known[x].label = known[y].label, known[x].label[1] # 0
      PROVE  x = y
  <2>1. /\ num(x) = num(y) /\ num(x) # 0 /\ (x \in S <=> y \in S)
        /\ x \notin S => fig(x) = fig(y)
    <3>1. \A a, b, e, f : <<a>> # <<b, e>> /\ (<<a>> = <<b>> => a = b) /\ (<<a, b>> = <<e, f>> => a = e /\ b = f)
      OBVIOUS
    <3>2. \A a, b : <<a>>[1] = a /\ <<a, b>>[1] = a
      OBVIOUS
    <3>3. known[x].label[1] = num(x)
      BY <1>1, <3>2, ZenonT(40)
    <3>4. known[x].label = IF x \in S THEN <<num(x)>> ELSE <<num(x), fig(x)>>
      BY <1>1
    <3>5. known[x].label = IF y \in S THEN <<num(y)>> ELSE <<num(y), fig(y)>>
      BY <1>1, <1>2
    <3>6. num(x) # 0
      BY <1>2, <3>3
    <3>7. x \in S <=> y \in S
      BY <3>1, <3>4, <3>5, ZenonT(40)
    <3>8. CASE x \in S
      BY <3>1, <3>4, <3>5, <3>6, <3>7, <3>8, Zenon
    <3>9. CASE x \notin S
      <4>1. <<num(x), fig(x)>> = <<num(y), fig(y)>>
        BY <3>4, <3>5, <3>7, <3>9
      <4> QED BY <3>6, <3>7, <3>9, <4>1
    <3> QED BY <3>8, <3>9
  <2>2. Compiler!Owner(pages, x) = Compiler!Owner(pages, y)
    BY <1>1, <2>1, OwnerOf, NumApart DEF num
  <2>3. CASE x \in S
    BY <1>1, <2>1, <2>2, <2>3, OwnerOf
  <2>4. CASE x \notin S
    BY <1>1, <2>1, <2>2, <2>4, FigNApart DEF fig
  <2> QED BY <2>3, <2>4
<1> QED BY <1>2 DEF known

---------------------------------------------------------------------------
(* The book: where links lead.                                             *)

\* The pages of a book end with the lists of terms and of sources.
EndsInLists(pages) ==
  /\ pages \in Seq(Compiler!BookChapter)
  /\ \A h \in Compiler!Aggregates : \E i \in 1 .. Len(pages) : pages[i].href = h
  /\ \A i, j \in 1 .. Len(pages) : i < j /\ pages[i].href \in Compiler!Aggregates =>
       \A k \in 1 .. Len(pages[j].refs) : pages[j].refs[k][1] = "xref"

\* What is written where: the ids of the pages of the build.
BuildOf(htmls, pages) ==
  /\ DOMAIN htmls = 1 .. Len(pages)
  /\ \A i \in 1 .. Len(pages) :
       /\ htmls[i].href = pages[i].href /\ htmls[i].near = Compiler!Neighbours(pages, i)
       /\ DOMAIN htmls[i].items = 1 .. Len(pages[i].refs)
       /\ \A m \in 1 .. Len(pages[i].refs) :
            htmls[i].items[m].link = LinkOf(pages[i].refs[m], pages[i].href, Compiler!Crossref(pages))
       /\ Own(pages[i]) \subseteq htmls[i].ids
       /\ pages[i].href = "glossary" => \A m \in 1 .. i : \A k \in TermsOf(pages[m]) : <<"gls", k>> \in htmls[i].ids
       /\ pages[i].href = "references" => \A m \in 1 .. i : \A k \in CitesOf(pages[m]) : <<"cite", k>> \in htmls[i].ids
       /\ \A j \in DOMAIN htmls[i].terms : UsedBy(pages, htmls[i].terms[j], i)

LEMMA BuildWrites ==
  ASSUME NEW pages \in Seq(Compiler!BookChapter)
  PROVE  BuildOf(Compiler!Pass(pages, Compiler!Crossref(pages), Compiler!Fresh).htmls, pages)
<1> DEFINE known == Compiler!Crossref(pages)
           c == Compiler!Fresh
           f == Passes(pages, known, c)
           N == Len(pages)
           h == f[N].htmls
           R(i) == Compiler!Compiled(pages, i, known, f[i - 1].ctx)
<1>0. N \in Nat /\ \A n \in 1 .. N : Len(pages[n].refs) \in Nat
  BY ChaptersTyped
<1>1. c.firsts = << >> /\ IsList(c.firsts)
  BY EmptySeq DEF Compiler!Fresh, IsList
<1>2. /\ \A n \in 1 .. N : f[n].ctx = R(n).ctx
      /\ Compiler!Pass(pages, known, c) = f[N]
  BY <1>0, PassSteps
<1>3. \A n \in 0 .. N : PagesTo(f, pages, known, n) /\ KnownTo(f, pages, c, n)
  BY <1>1, PassPages, PassKnows
<1> HIDE DEF c, known, f
<1>4. DOMAIN h = 1 .. N /\ \A i \in 1 .. N : h[i] = R(i).html
  <2>1. N \in 0 .. N
    BY <1>0
  <2>2. \A s : IsList(s) => DOMAIN s = 1 .. Len(s)
    BY LenProperties DEF IsList
  <2> QED BY <1>3, <2>1, <2>2 DEF PagesTo
<1>5. ASSUME NEW i \in 1 .. N PROVE PageIs(pages, i, known, f[i - 1].ctx, R(i)) /\ KnownTo(f, pages, c, i)
  <2>1. i - 1 \in 0 .. N /\ i \in 0 .. N /\ Len(pages[i].refs) \in Nat
    BY <1>0
  <2>2. IsList(f[i - 1].ctx.firsts)
    BY <1>3, <2>1 DEF PagesTo
  <2> QED BY <1>3, <2>1, <2>2, CompiledThrough, Zenon
<1> HIDE DEF R, h
<1>6. ASSUME NEW i \in 1 .. N
      PROVE  /\ pages[i].href = "glossary" => \A m \in 1 .. i : \A k \in TermsOf(pages[m]) : <<"gls", k>> \in h[i].ids
             /\ pages[i].href = "references" => \A m \in 1 .. i : \A k \in CitesOf(pages[m]) : <<"cite", k>> \in h[i].ids
             /\ \A j \in DOMAIN h[i].terms : UsedBy(pages, h[i].terms[j], i)
  <2> DEFINE e == f[i].ctx
  <2>1. h[i] = R(i).html /\ R(i).ctx = e
    BY <1>2, <1>4
  <2>2. /\ pages[i].href = "glossary" => TermIds(e.firsts) \subseteq h[i].ids
        /\ pages[i].href = "references" => CiteIds(e.cited) \subseteq h[i].ids
        /\ h[i].terms = IF pages[i].href = "glossary" THEN e.firsts ELSE << >>
    BY <1>5, <2>1 DEF PageIs
  <2>3. /\ \A m \in 1 .. i : TermsOf(pages[m]) \subseteq KeysOf(e.firsts)
        /\ \A j \in DOMAIN e.firsts : UsedBy(pages, e.firsts[j], i)
        /\ CitesIn(pages, i) \subseteq e.cited
    BY <1>1, <1>5 DEF KnownTo
  <2> HIDE DEF e
  <2>4. \A k \in KeysOf(e.firsts) : <<"gls", k>> \in TermIds(e.firsts)
    BY DEF KeysOf, TermIds
  <2>5. \A k \in e.cited : <<"cite", k>> \in CiteIds(e.cited)
    BY DEF CiteIds
  <2>6. \A m \in 1 .. i : CitesOf(pages[m]) \subseteq CitesIn(pages, i)
    BY DEF CitesIn
  <2>7. \A j \in DOMAIN h[i].terms : UsedBy(pages, h[i].terms[j], i)
    <3>1. DOMAIN << >> = {}
      OBVIOUS
    <3> QED BY <2>2, <2>3, <3>1
  <2> QED BY <2>2, <2>3, <2>4, <2>5, <2>6, <2>7
<1>7. BuildOf(h, pages)
  BY <1>4, <1>5, <1>6, ZenonT(40) DEF BuildOf, PageIs, known, N
<1> QED BY <1>2, <1>7 DEF h, known, c

\* Every link of the pages leads to one that has what it is to.
LandsFrom(htmls, i) ==
  /\ \A j \in DOMAIN htmls[i].items :
       LET it == htmls[i].items[j]
       IN  it.link # Compiler!Missing => Compiler!Lands(htmls, htmls[i].href, it.link)
  /\ \A j \in DOMAIN htmls[i].terms :
       \E k \in DOMAIN htmls :
         /\ htmls[k].href = htmls[i].terms[j].href
         /\ \E m \in DOMAIN htmls[k].items :
              htmls[k].items[m].link.anchor = <<"gls", htmls[i].terms[j].key>>
  /\ htmls[i].near \subseteq {htmls[k].href : k \in DOMAIN htmls}

AllLand(htmls) == \A i \in DOMAIN htmls : LandsFrom(htmls, i)

LEMMA BuildLands ==
  ASSUME NEW pages, EndsInLists(pages), NEW h, BuildOf(h, pages)
  PROVE  AllLand(h)
<1> DEFINE known == Compiler!Crossref(pages)
           N == Len(pages)
           link(i, m) == LinkOf(pages[i].refs[m], pages[i].href, known)
<1>0. N \in Nat /\ pages \in Seq(Compiler!BookChapter) /\ DOMAIN pages = 1 .. N
  BY ChaptersTyped DEF EndsInLists
<1>1. \A i \in 1 .. N : /\ pages[i].href # ""
                        /\ Len(pages[i].refs) \in Nat
                        /\ \A m \in 1 .. Len(pages[i].refs) :
                             pages[i].refs[m] = <<pages[i].refs[m][1], pages[i].refs[m][2]>>
  BY <1>0, ChaptersTyped
<1>2. "glossary" \in Compiler!Aggregates /\ "references" \in Compiler!Aggregates
  BY DEF Compiler!Aggregates
<1>3. \A p, a : [page |-> p, anchor |-> a].page = p /\ [page |-> p, anchor |-> a].anchor = a
  OBVIOUS
<1>a. "glossary" # "" /\ "references" # "" /\ "xref" # "gls" /\ "xref" # "cite" /\ "gls" # "cite"
  OBVIOUS
<1>4. ASSUME NEW i \in 1 .. N, NEW m \in 1 .. Len(pages[i].refs), pages[i].refs[m][1] # "xref",
             NEW g \in 1 .. N, pages[g].href \in Compiler!Aggregates
      PROVE  i \in 1 .. g
  BY <1>0, <1>4 DEF EndsInLists
<1>5. ASSUME NEW i \in 1 .. N, NEW m \in 1 .. Len(pages[i].refs), link(i, m) # Compiler!Missing
      PROVE  Compiler!Lands(h, pages[i].href, link(i, m))
  <2> DEFINE ref == pages[i].refs[m]
  <2>1. CASE Xref(ref, known)
    <3> DEFINE key == ref[2]
               o == Compiler!Owner(pages, key)
    <3>1. /\ key \in Compiler!Sections(pages) \cup Compiler!Figures(pages)
          /\ known[key].href = pages[o].href /\ known[key].anchor = <<"xref", key>>
      BY <2>1, CrossrefIs DEF Xref
    <3>2. o \in 1 .. N /\ <<"xref", key>> \in Own(pages[o])
      BY <1>0, <3>1, OwnerOf DEF Own
    <3>3. link(i, m) = [page |-> IF known[key].href = pages[i].href THEN "" ELSE known[key].href,
                        anchor |-> known[key].anchor]
      BY <2>1, Zenon DEF LinkOf, Compiler!relHref, Compiler!Link
    <3> HIDE DEF key, o, link, ref, known
    <3>4. /\ link(i, m).page = IF known[key].href = pages[i].href THEN "" ELSE known[key].href
          /\ link(i, m).anchor = <<"xref", key>>
      <4> DEFINE pg == IF known[key].href = pages[i].href THEN "" ELSE known[key].href
                 an == known[key].anchor
      <4>1. link(i, m) = [page |-> pg, anchor |-> an]
        BY <3>3
      <4> HIDE DEF pg, an
      <4>2. link(i, m).page = pg /\ link(i, m).anchor = an
        BY <4>1
      <4> QED BY <3>1, <4>2 DEF pg, an
    <3>5. h[o].href = pages[o].href /\ <<"xref", key>> \in h[o].ids /\ o \in DOMAIN h
      BY <3>2 DEF BuildOf
    <3>6. pages[o].href = IF link(i, m).page = "" THEN pages[i].href ELSE link(i, m).page
      BY <1>1, <3>1, <3>2, <3>4
    <3> QED BY <3>4, <3>5, <3>6, ZenonT(40) DEF Compiler!Lands
  <2>2. CASE ~Xref(ref, known) /\ Term(ref)
    <3>1. PICK g \in 1 .. N : pages[g].href = "glossary"
      BY <1>2 DEF EndsInLists
    <3>2. ref[1] = "gls" /\ ref = <<"gls", ref[2]>> /\ ref[2] \in TermsOf(pages[i])
      BY <1>1, <2>2 DEF Term, TermsOf, TermsTo
    <3>3. i \in 1 .. g
      BY <1>2, <1>4, <1>a, <3>1, <3>2
    <3>4. link(i, m) = [page |-> "glossary", anchor |-> ref]
      BY <2>2, Zenon DEF LinkOf
    <3> HIDE DEF ref, link
    <3>5. link(i, m).page = "glossary" /\ link(i, m).anchor = ref
      BY <3>4
    <3>6. h[g].href = "glossary" /\ ref \in h[g].ids /\ g \in DOMAIN h
      BY <3>1, <3>2, <3>3 DEF BuildOf
    <3> QED BY <1>a, <3>5, <3>6, Zenon DEF Compiler!Lands
  <2>3. CASE ~Xref(ref, known) /\ ~Term(ref) /\ Cite(ref)
    <3>1. PICK g \in 1 .. N : pages[g].href = "references"
      BY <1>2 DEF EndsInLists
    <3>2. ref[1] = "cite" /\ ref = <<"cite", ref[2]>> /\ ref[2] \in CitesOf(pages[i])
      BY <1>1, <2>3 DEF Cite, CitesOf, CitesTo
    <3>3. i \in 1 .. g
      BY <1>2, <1>4, <1>a, <3>1, <3>2
    <3>4. link(i, m) = [page |-> "references", anchor |-> ref]
      BY <2>3, Zenon DEF LinkOf
    <3> HIDE DEF ref, link
    <3>5. link(i, m).page = "references" /\ link(i, m).anchor = ref
      BY <3>4
    <3>6. h[g].href = "references" /\ ref \in h[g].ids /\ g \in DOMAIN h
      BY <3>1, <3>2, <3>3 DEF BuildOf
    <3> QED BY <1>a, <3>5, <3>6, Zenon DEF Compiler!Lands
  <2>4. CASE ~Xref(ref, known) /\ ~Term(ref) /\ ~Cite(ref)
    BY <1>5, <2>4, Zenon DEF LinkOf
  <2> QED BY <2>1, <2>2, <2>3, <2>4, Zenon
<1>6. ASSUME NEW i \in 1 .. N, NEW j \in DOMAIN h[i].terms
      PROVE  \E k \in 1 .. N :
               /\ h[k].href = h[i].terms[j].href
               /\ \E m \in DOMAIN h[k].items : h[k].items[m].link.anchor = <<"gls", h[i].terms[j].key>>
  <2> DEFINE e == h[i].terms[j]
  <2>1. UsedBy(pages, e, i)
    BY <1>6 DEF BuildOf
  <2> HIDE DEF e
  <2>0. PICK k \in 1 .. i : pages[k].href = e.href /\ \E m \in 1 .. Len(pages[k].refs) :
          Term(pages[k].refs[m]) /\ pages[k].refs[m][2] = e.key
    BY <2>1, Zenon DEF UsedBy
  <2>2. PICK m \in 1 .. Len(pages[k].refs) :
          pages[k].href = e.href /\ Term(pages[k].refs[m]) /\ pages[k].refs[m][2] = e.key
    BY <2>0, Zenon
  <2>3. k \in 1 .. N
    BY <1>0
  <2>4. pages[k].refs[m] = <<"gls", e.key>>
    BY <1>1, <2>2, <2>3 DEF Term
  <2>5. LinkOf(pages[k].refs[m], pages[k].href, known) = [page |-> "glossary", anchor |-> <<"gls", e.key>>]
    <3>1. ~Xref(pages[k].refs[m], known)
      BY <1>a, <2>2 DEF Xref, Term
    <3> QED BY <2>2, <2>4, <3>1, Zenon DEF LinkOf
  <2> HIDE DEF known
  <2>6. /\ h[k].href = pages[k].href /\ m \in DOMAIN h[k].items
        /\ h[k].items[m].link = LinkOf(pages[k].refs[m], pages[k].href, known)
    BY <2>3 DEF BuildOf, known
  <2>7. h[k].items[m].link.anchor = <<"gls", e.key>>
    BY <2>5, <2>6
  <2> QED BY <2>2, <2>3, <2>6, <2>7, Zenon DEF e
<1>7. ASSUME NEW i \in 1 .. N PROVE h[i].near \subseteq {h[k].href : k \in 1 .. N}
  <2>1. h[i].near = Compiler!Neighbours(pages, i) /\ \A k \in 1 .. N : h[k].href = pages[k].href
    BY DEF BuildOf
  <2> QED BY <1>0, <2>1 DEF Compiler!Neighbours
<1>8. ASSUME NEW i \in 1 .. N, NEW j \in DOMAIN h[i].items, h[i].items[j].link # Compiler!Missing
      PROVE  Compiler!Lands(h, h[i].href, h[i].items[j].link)
  <2>1. j \in 1 .. Len(pages[i].refs) /\ h[i].href = pages[i].href /\ h[i].items[j].link = link(i, j)
    BY <1>8 DEF BuildOf
  <2> HIDE DEF link
  <2> QED BY <1>5, <1>8, <2>1
<1>9. DOMAIN h = 1 .. N
  BY DEF BuildOf
<1> HIDE DEF N
<1>10. ASSUME NEW i \in 1 .. N PROVE LandsFrom(h, i)
  <2>1. \A j \in DOMAIN h[i].items : h[i].items[j].link # Compiler!Missing =>
          Compiler!Lands(h, h[i].href, h[i].items[j].link)
    BY <1>8
  <2>2. \A j \in DOMAIN h[i].terms : \E k \in 1 .. N :
          /\ h[k].href = h[i].terms[j].href
          /\ \E m \in DOMAIN h[k].items : h[k].items[m].link.anchor = <<"gls", h[i].terms[j].key>>
    BY <1>6
  <2>3. h[i].near \subseteq {h[k].href : k \in 1 .. N}
    BY <1>7
  <2> QED BY <1>9, <2>1, <2>2, <2>3, Zenon DEF LandsFrom
<1> QED BY <1>9, <1>10, Zenon DEF AllLand

\* What a manifest lists ends in the lists, without the pages that are missing.
LEMMA LoadedEnds ==
  ASSUME NEW listed, Compiler!Manifest(listed)
  PROVE  EndsInLists(Compiler!Loaded(listed))
<1> DEFINE T == {p \in ToSet(listed) : p.there}
           s == Kept(listed, T)
<1>1. Compiler!Loaded(listed) = s
  BY Zenon DEF Compiler!Loaded, Compiler!Kept, Kept, Compiler!FlattenSeq, FlattenSeq, Compiler!ToSet, ToSet
<1>2. /\ listed \in Seq(Compiler!BookChapter)
      /\ \A h \in Compiler!Aggregates : \E i \in DOMAIN listed : listed[i].href = h /\ listed[i].there
      /\ \A i, j \in DOMAIN listed : i < j /\ listed[i].href \in Compiler!Aggregates =>
           \A k \in DOMAIN listed[j].refs : listed[j].refs[k][1] = "xref"
  BY DEF Compiler!Manifest
<1> HIDE DEF s, T
<1>3. s \in Seq(Compiler!BookChapter)
  BY <1>2, KeptPlaces DEF s
<1>4. PICK p : KeptAt(listed, s, T, p)
  BY <1>2, KeptPlaces DEF s
<1>5. Len(s) \in Nat /\ DOMAIN listed = 1 .. Len(listed) /\ \A i \in 1 .. Len(s) : s[i] = listed[p[i]] /\ p[i] \in DOMAIN listed
  BY <1>2, <1>3, <1>4, LenProperties DEF KeptAt
<1>6. ASSUME NEW a \in Compiler!Aggregates PROVE \E i \in 1 .. Len(s) : s[i].href = a
  <2>1. PICK i \in DOMAIN listed : listed[i].href = a /\ listed[i].there
    BY <1>2
  <2>2. listed[i] \in T
    BY <2>1 DEF T, ToSet
  <2>3. PICK j \in 1 .. Len(s) : p[j] = i
    BY <1>4, <1>5, <2>2 DEF KeptAt
  <2> QED BY <1>5, <2>1, <2>3
<1>7. ASSUME NEW i \in 1 .. Len(s), NEW j \in 1 .. Len(s), i < j, s[i].href \in Compiler!Aggregates,
             NEW k \in 1 .. Len(s[j].refs)
      PROVE  s[j].refs[k][1] = "xref"
  <2>1. p[i] < p[j] /\ p[i] \in DOMAIN listed /\ p[j] \in DOMAIN listed
    BY <1>4, <1>5, <1>7 DEF KeptAt
  <2>2. s[i] = listed[p[i]] /\ s[j] = listed[p[j]]
    BY <1>5
  <2>3. k \in DOMAIN s[j].refs
    BY <1>3, ChaptersTyped
  <2> QED BY <1>2, <1>7, <2>1, <2>2, <2>3, SMTT(30)
<1>8. EndsInLists(s)
  BY <1>3, <1>6, <1>7, Zenon DEF EndsInLists
<1> QED BY <1>1, <1>8

---------------------------------------------------------------------------
(* The book: the answers of the development server.                        *)

\* What DevAsBuilt says of an answer; and what holds of one beside a build with the
\* labels that the server has loaded.
AsBuilt(a, built, keys, ids) ==
  IF a.kind = "page" THEN \E i \in DOMAIN built : PageLike(a.htmls[1], built[i], ids)
  ELSE /\ Len(a.htmls) = Len(built)
       /\ \A i \in DOMAIN built :
            /\ Compiler!Like(a.htmls[i], built[i], ids)
            /\ IF built[i].href # "references" THEN a.htmls[i].ids = built[i].ids
               ELSE /\ built[i].ids \subseteq a.htmls[i].ids
                    /\ a.htmls[i].ids \ built[i].ids \subseteq CiteIds(keys)
AsLoaded(a, built, keys) ==
  IF a.kind = "page" THEN \E i \in DOMAIN built : built[i] = a.htmls[1]
  ELSE /\ Len(a.htmls) = Len(built)
       /\ \A i \in DOMAIN built :
            /\ SameBody(built[i], a.htmls[i])
            /\ IF built[i].href # "references" THEN a.htmls[i] = built[i]
               ELSE /\ built[i].ids \subseteq a.htmls[i].ids
                    /\ a.htmls[i].ids \ built[i].ids \subseteq CiteIds(keys)

BuildOn(pages, known) == Compiler!Pass(pages, known, Compiler!Fresh).htmls

\* The context of an answer: nothing used yet, and some sources cited.
LEMMA Contexts ==
  /\ Compiler!Fresh.firsts = << >> /\ Compiler!Fresh.cited = {} /\ IsList(<< >>)
  /\ [Compiler!Fresh EXCEPT !.cited = {}] = Compiler!Fresh
  /\ \A k : /\ [Compiler!Fresh EXCEPT !.cited = k].firsts = << >>
            /\ [Compiler!Fresh EXCEPT !.cited = k].cited = k
<1> DEFINE F == Compiler!Fresh
<1>1. F = [firsts |-> << >>, cited |-> {}]
  BY DEF Compiler!Fresh
<1>2. IsList(<< >>)
  BY EmptySeq DEF IsList
<1> HIDE DEF F
<1>3. F.firsts = << >> /\ F.cited = {} /\ [F EXCEPT !.cited = {}] = F
  <2>1. ASSUME NEW s, NEW t, NEW r, r = [firsts |-> s, cited |-> t]
        PROVE  r.firsts = s /\ r.cited = t /\ [r EXCEPT !.cited = t] = r
    BY <2>1
  <2> QED BY <1>1, <2>1
<1>4. ASSUME NEW k PROVE [F EXCEPT !.cited = k].firsts = << >> /\ [F EXCEPT !.cited = k].cited = k
  BY <1>1
<1> QED BY <1>2, <1>3, <1>4 DEF F

\* A page in a pass over the book from nothing is a page of the build.
LEMMA ListAsBuilt ==
  ASSUME NEW pages \in Seq(Compiler!BookChapter), NEW known, NEW i \in DOMAIN pages
  PROVE  i \in DOMAIN BuildOn(pages, known)
<1>1. i \in 1 .. Len(pages)
  BY ChaptersTyped
<1>2. DOMAIN Compiler!Pass(pages, known, Compiler!Fresh).htmls = 1 .. Len(pages)
  BY Contexts, PassesAlike
<1> QED BY <1>1, <1>2 DEF BuildOn

\* A page by itself, but for the lists, is the page of the build.
LEMMA PageAsBuilt ==
  ASSUME NEW pages \in Seq(Compiler!BookChapter), NEW known, NEW i \in DOMAIN pages, NEW d,
         pages[i].href \notin Compiler!Aggregates
  PROVE  /\ i \in DOMAIN BuildOn(pages, known)
         /\ BuildOn(pages, known)[i] = Compiler!Compiled(pages, i, known, d).html
<1> DEFINE f == Passes(pages, known, Compiler!Fresh)
           N == Len(pages)
<1>1. i \in 1 .. N /\ N \in Nat /\ Len(pages[i].refs) \in Nat
  BY ChaptersTyped
<1>2. Compiler!Pass(pages, known, Compiler!Fresh) = f[N]
  BY <1>1, PassSteps
<1>3. PagesTo(f, pages, known, N)
  <2>1. N \in 0 .. N
    BY <1>1
  <2>2. IsList(Compiler!Fresh.firsts)
    BY Contexts
  <2> QED BY <2>1, <2>2, PassPages
<1> HIDE DEF f
<1>4. f[N].htmls[i] = Compiler!Compiled(pages, i, known, f[i - 1].ctx).html
  BY <1>1, <1>3 DEF PagesTo
<1>5. AlikeTwice(pages[i], f[i - 1].ctx, d, Compiler!Compiled(pages, i, known, f[i - 1].ctx),
                 Compiler!Compiled(pages, i, known, d))
  BY <1>1, CompiledAlike, Zenon
<1>6. Compiler!Compiled(pages, i, known, f[i - 1].ctx).html = Compiler!Compiled(pages, i, known, d).html
  BY <1>5, Zenon DEF AlikeTwice
<1> QED BY <1>2, <1>4, <1>6, ListAsBuilt DEF BuildOn

\* What is searched is the build, but for sources cited before.
LEMMA SearchAsBuilt ==
  ASSUME NEW pages \in Seq(Compiler!BookChapter), NEW known, NEW keys, NEW a, a.kind # "page",
         a.htmls = Compiler!Pass(pages, known, [Compiler!Fresh EXCEPT !.cited = keys]).htmls
  PROVE  AsLoaded(a, BuildOn(pages, known),
                  Compiler!Pass(pages, known, [Compiler!Fresh EXCEPT !.cited = keys]).ctx.cited)
<1> DEFINE c == Compiler!Fresh
           d == [Compiler!Fresh EXCEPT !.cited = keys]
           N == Len(pages)
           p == Compiler!Pass(pages, known, c).htmls
           r == Compiler!Pass(pages, known, d)
<1>1. /\ IsList(c.firsts) /\ c.firsts = d.firsts /\ c.cited \subseteq d.cited /\ d.cited = keys
      /\ IsList(d.firsts)
  BY Contexts
<1> HIDE DEF c, d
<1>2. /\ Len(p) = N /\ DOMAIN p = 1 .. N /\ Len(r.htmls) = N
      /\ \A i \in 1 .. N :
           /\ SameBody(p[i], r.htmls[i])
           /\ p[i].href # "references" => r.htmls[i] = p[i]
           /\ p[i].href = "references" =>
                p[i].ids \subseteq r.htmls[i].ids /\ r.htmls[i].ids \ p[i].ids \subseteq CiteIds(d.cited)
  BY <1>1, PassesAlike
<1>3. d.cited \subseteq r.ctx.cited
  <2>1. N \in Nat
    BY ChaptersTyped
  <2>2. N \in 0 .. N /\ r = Passes(pages, known, d)[N]
    BY <2>1, PassSteps
  <2>3. KnownTo(Passes(pages, known, d), pages, d, N)
    BY <1>1, <2>2, PassKnows
  <2> QED BY <2>2, <2>3 DEF KnownTo
<1>4. CiteIds(d.cited) \subseteq CiteIds(r.ctx.cited)
  BY <1>3 DEF CiteIds
<1>5. a.htmls = r.htmls /\ BuildOn(pages, known) = p
  BY DEF BuildOn, c, d
<1> HIDE DEF p, r
<1>6. AsLoaded(a, p, r.ctx.cited)
  BY <1>2, <1>4, <1>5 DEF AsLoaded
<1> QED BY <1>5, <1>6 DEF r, d

\* Beside a build with other labels, it is like that one but for what these relabel.
LEMMA LoadedAsBuilt ==
  ASSUME NEW pages \in Seq(Compiler!BookChapter), NEW known, NEW now, NEW a, NEW keys,
         AsLoaded(a, BuildOn(pages, known), keys)
  PROVE  AsBuilt(a, BuildOn(pages, now), keys, Changed(known, now))
<1> DEFINE p == BuildOn(pages, known)
           q == BuildOn(pages, now)
           ids == Changed(known, now)
           N == Len(pages)
<1>1. /\ DOMAIN p = 1 .. N /\ DOMAIN q = 1 .. N /\ Len(p) = N /\ Len(q) = N
      /\ \A i \in 1 .. N : PageLike(p[i], q[i], ids)
  <2>1. IsList(Compiler!Fresh.firsts)
    BY Contexts
  <2> QED BY <2>1, PassesOnChange, Zenon DEF BuildOn
<1>2. AsLoaded(a, p, keys)
  OBVIOUS
<1> HIDE DEF p, q, ids, N
<1>3. ASSUME a.kind = "page" PROVE AsBuilt(a, q, keys, ids)
  <2>1. PICK i \in 1 .. N : p[i] = a.htmls[1]
    BY <1>1, <1>2, <1>3 DEF AsLoaded
  <2>2. PageLike(a.htmls[1], q[i], ids)
    BY <1>1, <2>1
  <2> QED BY <1>1, <1>3, <2>2, Zenon DEF AsBuilt
<1>4. ASSUME a.kind # "page" PROVE AsBuilt(a, q, keys, ids)
  <2>1. Len(a.htmls) = N
    BY <1>1, <1>2, <1>4 DEF AsLoaded
  <2>2. ASSUME NEW i \in 1 .. N
        PROVE  /\ Compiler!Like(a.htmls[i], q[i], ids)
               /\ IF q[i].href # "references" THEN a.htmls[i].ids = q[i].ids
                  ELSE /\ q[i].ids \subseteq a.htmls[i].ids
                       /\ a.htmls[i].ids \ q[i].ids \subseteq CiteIds(keys)
    <3>1. /\ SameBody(p[i], a.htmls[i])
          /\ IF p[i].href # "references" THEN a.htmls[i] = p[i]
             ELSE /\ p[i].ids \subseteq a.htmls[i].ids
                  /\ a.htmls[i].ids \ p[i].ids \subseteq CiteIds(keys)
      BY <1>1, <1>2, <1>4 DEF AsLoaded
    <3>2. Compiler!Like(p[i], q[i], ids) /\ p[i].ids = q[i].ids
      BY <1>1 DEF PageLike
    <3>3. p[i].href = q[i].href
      BY <3>2, Zenon DEF Compiler!Like
    <3>4. Compiler!Like(a.htmls[i], q[i], ids)
      BY <3>1, <3>2, Zenon DEF Compiler!Like, SameBody
    <3> QED BY <3>1, <3>2, <3>3, <3>4
  <2> QED BY <1>1, <1>4, <2>1, <2>2, Zenon DEF AsBuilt
<1> QED BY <1>3, <1>4 DEF q, ids

---------------------------------------------------------------------------
(* The book: the invariant of the compiler and of the development server.  *)

Original(b, l) == Compiler!Loaded(b[l])
Labels(b, l)   == Compiler!Crossref(Original(b, l))
Build(b, l)    == BuildOn(Original(b, l), Labels(b, l))
Progress(b, l) == Passes(Original(b, l), Labels(b, l), Compiler!Fresh)

\* Labels are those of the book as it was loaded, whatever edits make of its pages.
Loads(b) ==
  /\ DOMAIN text = Compiler!Langs /\ DOMAIN xref = Compiler!Langs /\ DOMAIN site = Compiler!Langs
  /\ \A l \in Compiler!Langs : /\ text[l] \in Seq(Compiler!BookChapter)
                               /\ xref[l] = Labels(b, l)
  /\ edits \in Nat
  /\ edits = 0 => \A l \in Compiler!Langs : text[l] = Original(b, l)

\* What the build has written: of the languages it is through with everything, of the
\* one it is at the pages before the one it is at, in whose context it goes on.
Writes(b) ==
  /\ building \in Compiler!Langs \cup {"dev"}
  /\ building = "en" => site["zh"] = << >>
  /\ building # "en" => site["en"] = Build(b, "en")
  /\ building = "dev" => site["zh"] = Build(b, "zh")
  /\ building \in Compiler!Langs =>
       /\ at \in 1 .. Len(Original(b, building)) + 1
       /\ site[building] = Progress(b, building)[at - 1].htmls
       /\ ctx = Progress(b, building)[at - 1].ctx
       /\ edits = 0 /\ served = << >>

BookIs(b) == /\ b \in Books /\ Loads(b) /\ Writes(b)
             /\ \A a \in ToSet(served) : AsBuilt(a, Compiler!Built(a.lang), cited, Compiler!Relabelled(a.lang))

BookInv == \E b \in Books : BookIs(b)

\* The books are as assumed.
LEMMA Originals ==
  ASSUME NEW b \in Books, NEW l \in Compiler!Langs
  PROVE  /\ EndsInLists(Original(b, l)) /\ Original(b, l) \in Seq(Compiler!BookChapter)
         /\ Len(Original(b, l)) \in Nat /\ IsList(Compiler!Fresh.firsts)
<1>1. EndsInLists(Original(b, l))
  BY BooksAssumption, LoadedEnds DEF Original
<1> QED BY <1>1, ChaptersTyped, Contexts DEF EndsInLists

LEMMA LangsAre == Compiler!Langs = {"en", "zh"} /\ "en" # "zh" /\ "dev" # "en" /\ "dev" # "zh"
BY DEF Compiler!Langs

\* The book starts in the invariant.
LEMMA BookStarts == Compiler!Init => BookInv
<1> SUFFICES ASSUME Compiler!Init PROVE BookInv
  OBVIOUS
<1>1. PICK b \in Books : /\ text = [l \in Compiler!Langs |-> Compiler!Loaded(b[l])]
                         /\ xref = [l \in Compiler!Langs |-> Compiler!Crossref(Compiler!Loaded(b[l]))]
  BY Zenon DEF Compiler!Init
<1>2. /\ building = "en" /\ at = 1 /\ ctx = Compiler!Fresh
      /\ site = [l \in Compiler!Langs |-> << >>]
      /\ edits = 0 /\ served = << >>
  BY Zenon DEF Compiler!Init
<1>3. Loads(b)
  BY <1>1, <1>2, Originals DEF Loads, Original, Labels
<1>4. Writes(b)
  <2>1. Len(Original(b, "en")) \in Nat
    BY Originals, LangsAre
  <2>2. Progress(b, "en")[0].ctx = Compiler!Fresh /\ Progress(b, "en")[0].htmls = << >>
    BY <2>1, PassSteps DEF Progress
  <2>3. site["zh"] = << >> /\ site["en"] = << >>
    BY <1>2, LangsAre
  <2>4. 1 \in 1 .. Len(Original(b, "en")) + 1 /\ 1 - 1 = 0
    BY <2>1
  <2> QED BY <1>2, <2>2, <2>3, <2>4, LangsAre, Zenon DEF Writes
<1>5. ToSet(served) = {}
  BY <1>2, SetOfEmpty
<1> QED BY <1>3, <1>4, <1>5, Zenon DEF BookInv, BookIs

\* What the build has written lands.
LEMMA BookLands == BookInv => Compiler!LinksLand
<1> SUFFICES ASSUME NEW b \in Books, BookIs(b) PROVE Compiler!LinksLand
  BY Zenon DEF BookInv
<1>1. Loads(b) /\ Writes(b)
  BY Zenon DEF BookIs
<1>2. ASSUME NEW l \in Compiler!Langs, building = "dev" \/ (l = "en" /\ building = "zh")
      PROVE  AllLand(site[l])
  <2>1. site[l] = Build(b, l)
    BY <1>1, <1>2, LangsAre DEF Writes
  <2>2. BuildOf(Build(b, l), Original(b, l))
    BY Originals, BuildWrites DEF Build, BuildOn, Labels
  <2> QED BY <2>1, <2>2, Originals, BuildLands
<1>3. ASSUME NEW l \in Compiler!Langs, NEW x \in DOMAIN xref[l], NEW y \in DOMAIN xref[l],
             xref[l][x].label = xref[l][y].label
      PROVE  x = y \/ xref[l][x].label[1] = 0
  <2>1. xref[l] = Compiler!Crossref(Original(b, l)) /\ Original(b, l) \in Seq(Compiler!BookChapter)
    BY <1>1, Originals DEF Loads, Labels
  <2> QED BY <1>3, <2>1, LabelsApart, ZenonT(40)
<1> QED BY <1>2, <1>3, Zenon DEF Compiler!LinksLand, AllLand, LandsFrom

\* The answers of the development server are the build's.
LEMMA BookServes == BookInv => Compiler!DevAsBuilt
BY Zenon DEF BookInv, BookIs, AsBuilt, PageLike, CiteIds, Compiler!DevAsBuilt, Compiler!ToSet, ToSet

\* What the development server is compared with: a build of what is on disk, and the
\* labels that it has otherwise.
LEMMA BuiltIs ==
  ASSUME NEW b \in Books, Loads(b), Writes(b), building = "dev", NEW l \in Compiler!Langs
  PROVE  /\ Compiler!Built(l) = BuildOn(text[l], Compiler!Crossref(text[l]))
         /\ Compiler!Relabelled(l) = Changed(xref[l], Compiler!Crossref(text[l]))
<1>1. site[l] = Build(b, l)
  BY LangsAre DEF Writes
<1>2. edits = 0 => BuildOn(text[l], Compiler!Crossref(text[l])) = Build(b, l)
  BY DEF Loads, Build, Labels
<1>3. edits # 0 => Compiler!Built(l) = BuildOn(text[l], Compiler!Crossref(text[l]))
  BY Zenon DEF Compiler!Built, BuildOn
<1>4. edits = 0 => Compiler!Built(l) = site[l]
  BY Zenon DEF Compiler!Built
<1>5. Compiler!Relabelled(l) = Changed(xref[l], Compiler!Crossref(text[l]))
  BY Zenon DEF Compiler!Relabelled, Changed
<1> QED BY <1>1, <1>2, <1>3, <1>4, <1>5

\* A page that is written follows those before it, in their context.
LEMMA WritePageKeeps ==
  ASSUME NEW b \in Books, BookIs(b), Compiler!WritePage PROVE BookIs(b)'
<1> DEFINE l == building
           f == Progress(b, l)
           N == Len(Original(b, l))
           r == Compiler!Compiled(Original(b, l), at, Labels(b, l), ctx)
<1>1. Loads(b) /\ Writes(b)
  BY Zenon DEF BookIs
<1>2. l \in Compiler!Langs /\ at <= Len(text[l])
  BY Zenon DEF Compiler!WritePage
<1>3. /\ at \in 1 .. N + 1 /\ site[l] = f[at - 1].htmls /\ ctx = f[at - 1].ctx
      /\ edits = 0 /\ served = << >>
  BY <1>1, <1>2, Zenon DEF Writes
<1>4. text[l] = Original(b, l) /\ xref[l] = Labels(b, l)
  BY <1>1, <1>2, <1>3 DEF Loads
<1>5. N \in Nat /\ at \in 1 .. N
  BY <1>2, <1>3, <1>4, Originals
<1>6. f[at].ctx = r.ctx /\ f[at].htmls = Append(site[l], r.html)
  BY <1>3, <1>5, PassSteps DEF Progress
<1>7. /\ site' = [site EXCEPT ![l] = Append(site[l], r.html)] /\ ctx' = r.ctx
      /\ at' = at + 1 /\ UNCHANGED <<text, xref, building, cited, edits, served>>
  BY <1>4 DEF Compiler!WritePage, Compiler!Context
<1> HIDE DEF r
<1>8. /\ DOMAIN site' = DOMAIN site /\ site'[l] = Append(site[l], r.html)
      /\ \A m \in Compiler!Langs : m # l => site'[m] = site[m]
  BY <1>1, <1>2, <1>7 DEF Loads
<1>9. Loads(b)'
  BY <1>1, <1>7, <1>8 DEF Loads
<1>10. at' \in 1 .. N + 1 /\ at' - 1 = at
  BY <1>5, <1>7
<1>11. Writes(b)'
  <2>1. building' = building /\ site'[l] = f[at' - 1].htmls /\ ctx' = f[at' - 1].ctx
    BY <1>6, <1>7, <1>8, <1>10
  <2>2. building = "en" => site'["zh"] = << >>
    BY <1>1, <1>8, LangsAre DEF Writes
  <2>3. building # "en" => site'["en"] = Build(b, "en")
    BY <1>1, <1>2, <1>8, LangsAre DEF Writes
  <2>4. building # "dev"
    BY <1>2, LangsAre
  <2> QED BY <1>1, <1>3, <1>7, <1>10, <2>1, <2>2, <2>3, <2>4 DEF Writes
<1>12. ToSet(served') = {}
  BY <1>3, <1>7, SetOfEmpty
<1> QED BY <1>9, <1>11, <1>12 DEF BookIs

\* A language is through when its last page is written.
LEMMA NextLanguageKeeps ==
  ASSUME NEW b \in Books, BookIs(b), Compiler!NextLanguage PROVE BookIs(b)'
<1> DEFINE l == building
           N == Len(Original(b, l))
<1>1. Loads(b) /\ Writes(b)
  BY Zenon DEF BookIs
<1>2. l \in Compiler!Langs /\ at > Len(text[l])
  BY Zenon DEF Compiler!NextLanguage
<1>3. /\ at \in 1 .. N + 1 /\ site[l] = Progress(b, l)[at - 1].htmls
      /\ edits = 0 /\ served = << >>
  BY <1>1, <1>2, Zenon DEF Writes
<1>4. text[l] = Original(b, l) /\ N \in Nat /\ at - 1 = N
  <2>1. text[l] = Original(b, l) /\ N \in Nat
    BY <1>1, <1>2, <1>3, Originals DEF Loads
  <2> QED BY <1>2, <1>3, <2>1
<1>5. site[l] = Build(b, l)
  BY <1>3, <1>4, PassSteps DEF Progress, Build, BuildOn
<1>6. /\ building' = (IF l = "en" THEN "zh" ELSE "dev") /\ at' = 1 /\ ctx' = Compiler!Fresh
      /\ UNCHANGED <<text, xref, site, cited, edits, served>>
  BY DEF Compiler!NextLanguage
<1>7. Loads(b)'
  BY <1>1, <1>6 DEF Loads
<1>8. Writes(b)'
  <2>1. CASE l = "en"
    <3>1. Len(Original(b, "zh")) \in Nat
      BY Originals, LangsAre
    <3>2. Progress(b, "zh")[0].ctx = Compiler!Fresh /\ Progress(b, "zh")[0].htmls = << >>
      BY <3>1, PassSteps DEF Progress
    <3>3. building' = "zh" /\ at' = 1 /\ 1 \in 1 .. Len(Original(b, "zh")) + 1 /\ 1 - 1 = 0
      BY <1>6, <2>1, <3>1
    <3>4. site'["zh"] = << >> /\ site'["en"] = Build(b, "en") /\ edits' = 0 /\ served' = << >>
      BY <1>1, <1>3, <1>5, <1>6, <2>1 DEF Writes
    <3> QED BY <1>6, <3>2, <3>3, <3>4, LangsAre, Zenon DEF Writes
  <2>2. CASE l = "zh"
    <3>1. building' = "dev" /\ site'["zh"] = Build(b, "zh") /\ site'["en"] = Build(b, "en")
      BY <1>1, <1>5, <1>6, <2>2, LangsAre DEF Writes
    <3> QED BY <3>1, LangsAre, Zenon DEF Writes
  <2> QED BY <1>2, <2>1, <2>2, LangsAre
<1>9. ToSet(served') = {}
  BY <1>3, <1>6, SetOfEmpty
<1> QED BY <1>7, <1>8, <1>9 DEF BookIs

\* An edit leaves the labels that are loaded and the site, and no answer.
LEMMA EditKeeps ==
  ASSUME NEW b \in Books, BookIs(b), NEW l \in Compiler!Langs, NEW i, Compiler!Edit(l, i)
  PROVE  BookIs(b)'
<1>1. Loads(b) /\ Writes(b)
  BY Zenon DEF BookIs
<1>2. PICK new \in Texts :
        text' = [text EXCEPT ![l][i] = [@ EXCEPT !.numbered = new.numbered, !.sec = new.sec,
                                                 !.figs = new.figs, !.refs = new.refs]]
  BY Zenon DEF Compiler!Edit
<1>3. /\ building = "dev" /\ i \in DOMAIN text[l] /\ edits' = edits + 1 /\ served' = << >>
      /\ UNCHANGED <<xref, building, at, ctx, site, cited>>
  BY Zenon DEF Compiler!Edit
<1> DEFINE page == [text[l][i] EXCEPT !.numbered = new.numbered, !.sec = new.sec,
                                      !.figs = new.figs, !.refs = new.refs]
           pages == [text[l] EXCEPT ![i] = page]
<1>4. text' = [text EXCEPT ![l] = pages]
  BY <1>2
<1>5. pages \in Seq(Compiler!BookChapter)
  <2>1. text[l] \in Seq(Compiler!BookChapter) /\ i \in 1 .. Len(text[l])
    BY <1>1, <1>3, ChaptersTyped DEF Loads
  <2>2. text[l][i] \in Compiler!BookChapter /\ new \in Compiler!Source
    BY <2>1, ChaptersTyped, BooksAssumption
  <2>3. page \in Compiler!BookChapter
    BY <2>2 DEF Compiler!BookChapter, Compiler!Source
  <2> HIDE DEF page
  <2> QED BY <2>1, <2>3, ExceptSeq
<1> HIDE DEF pages
<1>6. DOMAIN text' = DOMAIN text /\ \A m \in Compiler!Langs : text'[m] = IF m = l THEN pages ELSE text[m]
  BY <1>1, <1>4 DEF Loads
<1>7. edits' \in Nat /\ edits' # 0
  BY <1>1, <1>3 DEF Loads
<1>8. Loads(b)'
  BY <1>1, <1>3, <1>5, <1>6, <1>7 DEF Loads
<1>9. Writes(b)'
  BY <1>1, <1>3, LangsAre DEF Writes
<1>10. ToSet(served') = {}
  BY <1>3, SetOfEmpty
<1> QED BY <1>8, <1>9, <1>10 DEF BookIs

\* An answer that is the build's keeps the invariant.
LEMMA AnswerKeeps ==
  ASSUME NEW b \in Books, BookIs(b), NEW l \in Compiler!Langs, NEW kind, NEW htmls, NEW cites,
         building = "dev", Compiler!Answer(l, kind, htmls, cites),
         AsLoaded([lang |-> l, kind |-> kind, htmls |-> htmls], BuildOn(text[l], xref[l]), cites)
  PROVE  BookIs(b)'
<1> DEFINE a == [lang |-> l, kind |-> kind, htmls |-> htmls]
<1>1. Loads(b) /\ Writes(b)
  BY Zenon DEF BookIs
<1>2. /\ served' = <<a>> /\ cited' = cites
      /\ UNCHANGED <<text, xref, building, at, ctx, site, edits>>
  BY Zenon DEF Compiler!Answer
<1>3. a.lang = l
  OBVIOUS
<1> HIDE DEF a
<1>4. Loads(b)'
  BY <1>1, <1>2 DEF Loads
<1>5. Writes(b)'
  BY <1>1, <1>2, LangsAre DEF Writes
<1>6. AsBuilt(a, Compiler!Built(l), cites, Compiler!Relabelled(l))
  <2>1. text[l] \in Seq(Compiler!BookChapter)
    BY <1>1 DEF Loads
  <2>2. AsBuilt(a, BuildOn(text[l], Compiler!Crossref(text[l])), cites,
                Changed(xref[l], Compiler!Crossref(text[l])))
    BY <2>1, LoadedAsBuilt DEF a
  <2> QED BY <1>1, <2>2, BuiltIs
<1>7. /\ Compiler!Built(l)' = Compiler!Built(l) /\ Compiler!Relabelled(l)' = Compiler!Relabelled(l)
      /\ ToSet(served') = {a}
  <2>1. Compiler!Built(l)' = Compiler!Built(l)
    BY <1>2, Zenon DEF Compiler!Built
  <2>2. Compiler!Relabelled(l)' = Compiler!Relabelled(l)
    BY <1>2, Zenon DEF Compiler!Relabelled
  <2>3. ToSet(served') = {a}
    BY <1>2 DEF ToSet
  <2> QED BY <2>1, <2>2, <2>3
<1>8. \A e \in ToSet(served') : AsBuilt(e, Compiler!Built(e.lang)', cited', Compiler!Relabelled(e.lang)')
  BY <1>2, <1>3, <1>6, <1>7
<1> QED BY <1>4, <1>5, <1>8 DEF BookIs

\* The page that is asked for.
LEMMA PageKeeps ==
  ASSUME NEW b \in Books, BookIs(b), NEW l \in Compiler!Langs, NEW i, Compiler!Page(l, i)
  PROVE  BookIs(b)'
<1> DEFINE pages == text[l]
           known == xref[l]
           a(htmls) == [lang |-> l, kind |-> "page", htmls |-> htmls]
<1>1. building = "dev" /\ i \in DOMAIN pages /\ pages \in Seq(Compiler!BookChapter)
  BY Zenon DEF Compiler!Page, BookIs, Loads
<1>2. ASSUME NEW h, \E j \in DOMAIN BuildOn(pages, known) : BuildOn(pages, known)[j] = h, NEW k
      PROVE  AsLoaded(a(<<h>>), BuildOn(pages, known), k)
  <2>1. a(<<h>>).kind = "page" /\ a(<<h>>).htmls[1] = h
    OBVIOUS
  <2> HIDE DEF a
  <2> QED BY <1>2, <2>1, Zenon DEF AsLoaded
<1> HIDE DEF a
<1>3. CASE pages[i].href \in Compiler!Aggregates
  <2> DEFINE r == Compiler!Pass(pages, known, [Compiler!Fresh EXCEPT !.cited = Compiler!Cleared])
  <2>1. Compiler!Answer(l, "page", <<r.htmls[i]>>, r.ctx.cited)
    BY <1>3, Zenon DEF Compiler!Page
  <2>2. r = Compiler!Pass(pages, known, Compiler!Fresh)
    BY Contexts DEF Compiler!Cleared
  <2>3. i \in DOMAIN BuildOn(pages, known) /\ BuildOn(pages, known)[i] = r.htmls[i]
    BY <1>1, <2>2, ListAsBuilt, Zenon DEF BuildOn
  <2> HIDE DEF r
  <2>4. AsLoaded(a(<<r.htmls[i]>>), BuildOn(pages, known), r.ctx.cited)
    BY <1>2, <2>3
  <2> QED BY <1>1, <2>1, <2>4, AnswerKeeps, Zenon DEF a
<1>4. CASE pages[i].href \notin Compiler!Aggregates
  <2> DEFINE d == [Compiler!Fresh EXCEPT !.cited = cited]
             r == Compiler!Compiled(pages, i, known, d)
  <2>1. Compiler!Answer(l, "page", <<r.html>>, r.ctx.cited)
    BY <1>4, Zenon DEF Compiler!Page
  <2> HIDE DEF d
  <2>2. i \in DOMAIN BuildOn(pages, known) /\ BuildOn(pages, known)[i] = r.html
    BY <1>1, <1>4, PageAsBuilt
  <2> HIDE DEF r
  <2>3. AsLoaded(a(<<r.html>>), BuildOn(pages, known), r.ctx.cited)
    BY <1>2, <2>2
  <2> QED BY <1>1, <2>1, <2>3, AnswerKeeps, Zenon DEF a
<1> QED BY <1>3, <1>4

\* The index of search.
LEMMA SearchKeeps ==
  ASSUME NEW b \in Books, BookIs(b), NEW l \in Compiler!Langs, Compiler!Search(l)
  PROVE  BookIs(b)'
<1> DEFINE pages == text[l]
           known == xref[l]
           r == Compiler!Pass(pages, known, [Compiler!Fresh EXCEPT !.cited = cited])
           a == [lang |-> l, kind |-> "search", htmls |-> r.htmls]
<1>1. building = "dev" /\ pages \in Seq(Compiler!BookChapter)
  BY Zenon DEF Compiler!Search, BookIs, Loads
<1>2. Compiler!Answer(l, "search", r.htmls, r.ctx.cited)
  BY Zenon DEF Compiler!Search
<1>3. a.kind = "search" /\ a.htmls = r.htmls /\ "search" # "page"
  OBVIOUS
<1> HIDE DEF a
<1>4. AsLoaded(a, BuildOn(pages, known), r.ctx.cited)
  BY <1>1, <1>3, SearchAsBuilt
<1> QED BY <1>1, <1>2, <1>4, AnswerKeeps, Zenon DEF a

\* A step of the compiler keeps the invariant.
LEMMA BookKeeps == BookInv /\ [Compiler!Next]_(Compiler!vars) => BookInv'
<1> SUFFICES ASSUME NEW b \in Books, BookIs(b), [Compiler!Next]_(Compiler!vars) PROVE BookIs(b)'
  BY Zenon DEF BookInv
<1>1. CASE UNCHANGED Compiler!vars
  <2>1. UNCHANGED <<text, xref, building, at, ctx, site, cited, edits, served>>
    BY <1>1, Zenon DEF Compiler!vars
  <2>2. \A l : /\ Compiler!Built(l)' = Compiler!Built(l)
               /\ Compiler!Relabelled(l)' = Compiler!Relabelled(l)
    BY <2>1, Zenon DEF Compiler!Built, Compiler!Relabelled
  <2> QED BY <2>1, <2>2 DEF BookIs, Loads, Writes
<1>2. CASE Compiler!Next
  <2>1. \/ Compiler!WritePage \/ Compiler!NextLanguage
        \/ \E l \in Compiler!Langs : \/ Compiler!Search(l)
                                     \/ \E i \in 1 .. Len(text[l]) : Compiler!Page(l, i) \/ Compiler!Edit(l, i)
    BY <1>2, Zenon DEF Compiler!Next
  <2> QED BY <2>1, WritePageKeeps, NextLanguageKeeps, SearchKeeps, PageKeeps, EditKeeps, Zenon
<1> QED BY <1>1, <1>2

---------------------------------------------------------------------------
(* The invariant of the site.                                              *)

RouterInv == /\ url \in Path /\ lang \in LangSegs
             /\ answer = NoAnswer \/ answer = Served(url)

SiteInv == /\ part \in {"router", "book", "release"}
           /\ part = "router" => RouterInv
           /\ part # "router" => answer = NoAnswer
           /\ part = "book" => BookInv
           /\ part = "release" => ReleaseInv

\* The site starts in the invariant.
LEMMA SiteStarts == SiteInit => SiteInv
<1> SUFFICES ASSUME SiteInit PROVE SiteInv
  OBVIOUS
<1>1. \A u \in Urls : u \in Path
  <2> SUFFICES ASSUME NEW u \in Urls PROVE u \in Path
    OBVIOUS
  <2>1. u \in Seq(Segment) /\ u # << >>
    BY FilesAssumption
  <2>2. u \in Seq(Segm)
    BY <2>1, SegmentTyped, SeqMonotonic
  <2> QED BY <2>1, <2>2 DEF Path
<1>2. CASE part = "router" /\ Init
  BY <1>1, <1>2 DEF SiteInv, RouterInv, Init
<1>3. CASE part = "book" /\ NoRouter /\ Compiler!Init
  <2>1. BookInv
    BY <1>3, BookStarts, Zenon
  <2> QED BY <1>3, <2>1 DEF SiteInv, NoRouter
<1>4. CASE part = "release" /\ NoRouter /\ Servers!Init
  <2>1. ReleaseInv
    BY <1>4, ReleaseInit, Zenon
  <2> QED BY <1>4, <2>1 DEF SiteInv, NoRouter
<1> QED BY <1>2, <1>3, <1>4, Zenon DEF SiteInit

\* A step of the site is one of its part, or changes no variable of it.
LEMMA OwnSteps ==
  ASSUME [SiteNext]_siteVars
  PROVE  /\ part' = part
         /\ part = "router"  => [Next]_vars
         /\ part # "router"  => UNCHANGED vars
         /\ part = "book"    => [Compiler!Next]_(Compiler!vars)
         /\ part = "release" => [Servers!Next]_(Servers!vars)
<1>1. CASE SiteNext
  <2>1. "router" # "book" /\ "router" # "release" /\ "book" # "release"
    OBVIOUS
  <2> QED BY <1>1, <2>1, Zenon DEF SiteNext
<1>2. CASE UNCHANGED siteVars
  <2>1. part' = part /\ UNCHANGED vars /\ UNCHANGED serverVars
    BY <1>2, Zenon DEF siteVars
  <2>2. UNCHANGED Servers!vars
    BY <2>1, Zenon DEF serverVars, Servers!vars, Servers!pods
  <2>3. UNCHANGED Compiler!vars
    BY <1>2, Zenon DEF siteVars, bookVars, Compiler!vars
  <2> QED BY <2>1, <2>2, <2>3, Zenon
<1> QED BY <1>1, <1>2, Zenon

\* A step of the router keeps its invariant.
LEMMA RouterKeeps == RouterInv /\ [Next]_vars => RouterInv'
<1> SUFFICES ASSUME RouterInv, [Next]_vars PROVE RouterInv'
  OBVIOUS
<1>1. CASE Serve
  <2>1. UNCHANGED <<url, dynamic, lang>> /\ answer' = Served(url)
    BY <1>1 DEF Serve
  <2>2. Served(url)' = Served(url)
    BY <2>1 DEF Served, Owns
  <2> QED BY <2>1, <2>2, Zenon DEF RouterInv
<1>2. CASE Follow
  <2>1. answer = Served(url) /\ Served(url).kind = "redirect"
    BY <1>2, Kinds DEF Follow, RouterInv
  <2>2. answer.to \in Path
    BY <2>1, RedirectsToPaths DEF RouterInv
  <2> QED BY <1>2, <2>2, Zenon DEF RouterInv, Follow
<1>3. CASE UNCHANGED vars
  <2>1. UNCHANGED <<url, answer, dynamic, lang>>
    BY <1>3 DEF vars
  <2>2. Served(url)' = Served(url)
    BY <2>1 DEF Served, Owns
  <2> QED BY <2>1, <2>2, Zenon DEF RouterInv
<1> QED BY <1>1, <1>2, <1>3 DEF Next

\* A step of the site keeps the invariant.
LEMMA SiteKeeps == SiteInv /\ [SiteNext]_siteVars => SiteInv'
<1> SUFFICES ASSUME SiteInv, [SiteNext]_siteVars PROVE SiteInv'
  OBVIOUS
<1>1. part' = part /\ part \in {"router", "book", "release"}
  BY OwnSteps, Zenon DEF SiteInv
<1>2. part = "router" => RouterInv'
  BY OwnSteps, RouterKeeps, Zenon DEF SiteInv
<1>3. part # "router" => answer' = NoAnswer
  <2>1. part # "router" => answer' = answer
    BY OwnSteps, Zenon DEF vars
  <2> QED BY <2>1, Zenon DEF SiteInv
<1>4. part = "release" => ReleaseInv'
  BY OwnSteps, ReleaseNext, Zenon DEF SiteInv
<1>5. NoAnswer' = NoAnswer
  BY DEF NoAnswer
<1>6. part = "book" => BookInv'
  BY OwnSteps, BookKeeps, Zenon DEF SiteInv
<1> QED BY <1>1, <1>2, <1>3, <1>4, <1>5, <1>6, Zenon DEF SiteInv

\* There is no answer, or it is the one serve has for the URL.
LEMMA Answered ==
  ASSUME SiteInv, answer # NoAnswer
  PROVE  url \in Path /\ lang \in LangSegs /\ answer = Served(url)
BY Zenon DEF SiteInv, RouterInv

---------------------------------------------------------------------------
(* The theorems.                                                           *)

\* The strengthened invariant holds of the site.
THEOREM Invariance == SiteSpec => []SiteInv
BY SiteStarts, SiteKeeps, PTL DEF SiteSpec

\* A file is served under its clean URL only, however browsers come to it; the index
\* of a directory has its name besides.
THEOREM FilesHaveOneUrl == SiteSpec => []OneSpelling
<1>1. SiteInv => OneSpelling
  <2> SUFFICES ASSUME SiteInv, answer.kind = "file"
               PROVE  url = Clean(answer.to) \/ Last(answer.to) = IndexHtml
    BY DEF OneSpelling
  <2>1. url \in Path /\ answer = Served(url)
    BY Answered, Kinds
  <2> QED BY <2>1, ServedClean
<1> QED BY <1>1, Invariance, PTL

\* routeOf, which decides before anything is served and again afterwards, reports as
\* unknown exactly the URLs serve answers with the not-found page.
THEOREM ReportedAsServed == SiteSpec => []UnknownIffNotFound
<1>1. SiteInv => UnknownIffNotFound
  BY Answered, UnknownIsNotFound DEF UnknownIffNotFound
<1> QED BY <1>1, Invariance, PTL

\* A redirect that adds or takes away a slash goes to something that is served, but for
\* precompressed siblings: no rule, document or dynamic route is in its way.
THEOREM SlashesAreServed == SiteSpec => []SlashesLand
<1>1. SiteInv => SlashesLand
  <2> SUFFICES ASSUME SiteInv, answer.kind = "redirect", url # <<Empty>>,
                      Unslashed(url) = Unslashed(answer.to)
               PROVE  Served(answer.to).kind \in {"file", "redirect"} \/ HasExt(answer.to, "gz")
    BY DEF SlashesLand
  <2>1. url \in Path /\ lang \in LangSegs /\ answer = Served(url)
    BY Answered, Kinds
  <2> QED BY <2>1, SlashLands
<1> QED BY <1>1, Invariance, PTL

\* An old link of a chapter that has been renamed or regrouped takes one hop: no rule
\* matches what a rule leads to, and no file adds a slash to it.
THEOREM OldLinksTakeOneHop == SiteSpec => OneHop
<1>1. SiteInv /\ [SiteNext]_siteVars
        => [(answer.kind = "redirect" /\ Excepted(url) /\ answer' = NoAnswer)
              => Served(url').kind # "redirect"]_vars
  <2> SUFFICES ASSUME SiteInv, [SiteNext]_siteVars, answer.kind = "redirect", Excepted(url),
                      answer' = NoAnswer
               PROVE  Served(url').kind # "redirect"
    OBVIOUS
  <2>1. url \in Path /\ lang \in LangSegs /\ answer = Served(url) /\ part = "router"
    BY Answered, Kinds DEF SiteInv
  <2>2. [Next]_vars
    BY <2>1, OwnSteps
  <2>3. Follow
    <3>1. ~Serve
      BY Kinds DEF Serve
    <3>2. vars' # vars
      BY Kinds DEF vars
    <3> QED BY <2>2, <3>1, <3>2 DEF Next
  <2>4. url' = Served(url).to
    BY <2>1, <2>3 DEF Follow
  <2> QED BY <2>1, <2>4, OneHopOnly
<1> QED BY <1>1, Invariance, PTL DEF SiteSpec, OneHop

\* Every link the build writes, to a section, a figure, a term, a source, a first use
\* or a neighbour, lands where it has written what the link is to, and no two labels
\* of numbered pages are the same, whatever the book.
THEOREM LinksOfTheBuildLand == SiteSpec => []LinksLand
<1>1. SiteInv => LinksLand
  BY BookLands, Zenon DEF SiteInv, LinksLand
<1> QED BY <1>1, Invariance, PTL

\* The development server answers with what a build of what is on disk now would
\* write, whatever it has been asked for and whichever pages have been rewritten
\* before, but for how references to sections and figures that this relabels are shown
\* and, in the index of search, for sources that earlier answers cited.
THEOREM AnsweredAsBuilt == SiteSpec => []DevAsBuilt
<1>1. SiteInv => DevAsBuilt
  BY BookServes, Zenon DEF SiteInv, DevAsBuilt
<1> QED BY <1>1, Invariance, PTL

\* However releases overlap, readers are routed to a server that answers, and answers
\* of a server that is told to stop are whole, its drain permitting.
THEOREM ReadersAreServed == SiteSpec => []ReleaseServes
<1>1. SiteInv => ReleaseServes
  BY ReleaseServing, Zenon DEF SiteInv, ReleaseServes
<1> QED BY <1>1, Invariance, PTL
=============================================================================
