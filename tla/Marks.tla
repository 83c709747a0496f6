------------------------------- MODULE Marks -------------------------------
(***************************************************************************)
(* The marks over an article (src/app/src/anchor.ts and the effect of      *)
(* src/app/src/comments.tsx that draws them): a reader selects a passage,  *)
(* its text and a little context are stored as the anchor of a comment or  *)
(* of a private note, and every page that shows the article finds the text *)
(* again and draws a mark over it.                                         *)
(*                                                                         *)
(* A letter is known by its place in the article. A text node is the set   *)
(* of its letters: between two places in breaks once the article is        *)
(* normalized, or less when marks divide it. A selection lies in one block *)
(* of the article, whose text is what the selection says.                  *)
(***************************************************************************)
EXTENDS Naturals, Sequences, FiniteSets, SequencesExt

CONSTANTS Articles, \* the versions the book may have of the article
          CTX,      \* letters of context on each side of a quote
          Lengths,  \* how many letters are selected; at least four in the code
          MaxPosts, \* bound: comments and notes posted
          None

Sorts == {"comment", "note"}

VARIABLES article, \* the version on show: its text and the breaks in it
          stored,  \* sort -> the anchors on the server, oldest first
          list,    \* sort -> those the page has been answered
          loaded,  \* the comments were answered: list is not null
          drawn,   \* the letters under the mark of each of them, comments first
          orphans, \* the comments of them that were not found
          mark,    \* the anchor of the passage selected, or None
          posts    \* comments and notes posted so far

vars == <<article, stored, list, loaded, drawn, orphans, mark, posts>>

Letters == DOMAIN article.text

\* What the effect goes through.
Shown == IF loaded THEN list["comment"] \o list["note"] ELSE << >>

Marked == UNION {drawn[i] : i \in DOMAIN drawn}

TypeOK == /\ article \in Articles
          /\ loaded \in BOOLEAN /\ DOMAIN drawn = DOMAIN Shown
          /\ Marked \subseteq Letters /\ orphans \subseteq DOMAIN list["comment"]

Nothing == [sort \in Sorts |-> << >>]

Init == /\ article \in Articles
        /\ stored = Nothing
        /\ list = Nothing /\ loaded = FALSE
        /\ drawn = << >> /\ orphans = {} /\ mark = None /\ posts = 0

----------------------------------------------------------------------------
(* anchor.ts.                                                              *)

\* The text nodes outside the marks.
TextIndex(marked) ==
  LET free == Letters \ marked
      Joined(x, y) == \A z \in x .. y : z \in free /\ (z < y => z \notin article.breaks)
  IN  {{y \in free : Joined(x, y) /\ Joined(y, x)} : x \in free}

\* Their letters, in the order of the text.
Index(nodes) ==
  LET letters == UNION nodes
  IN  [o \in 1 .. Cardinality(letters) |->
         CHOOSE x \in letters : Cardinality({y \in letters : y <= x}) = o]

TextOf(index) == [o \in DOMAIN index |-> article.text[index[o]]]

Stands(exact, text, p) == p + Len(exact) <= Len(text) /\ SubSeq(text, p + 1, p + Len(exact)) = exact

Positions(exact, text) == {p \in 0 .. Len(text) : Stands(exact, text, p)}

Least(S) == CHOOSE p \in S : \A q \in S : p <= q

Score(text, a, p) ==
  LET end == p + Len(a.exact)
  IN  (IF Len(a.prefix) <= p /\ Stands(a.prefix, text, p - Len(a.prefix)) THEN Len(a.prefix) ELSE 0)
        + (IF Stands(a.suffix, text, end) THEN Len(a.suffix) ELSE 0)

\* Mutant: of positions that score the same the last is taken.
FindAnchor_Last(index, a) ==
  LET text == TextOf(index)
      ps   == Positions(a.exact, text)
      best == {p \in ps : \A q \in ps : Score(text, a, q) <= Score(text, a, p)}
      p    == CHOOSE p \in best : \A q \in best : q <= p
  IN  IF ps = {} THEN {} ELSE {index[o] : o \in p + 1 .. p + Len(a.exact)}

\* The letters of the quote where its context fits best, the first of such
\* places; none when the quote is gone.
FindAnchor(index, a) ==
  LET text == TextOf(index)
      ps   == Positions(a.exact, text)
      p    == Least({q \in ps : \A r \in ps : Score(text, a, r) <= Score(text, a, q)})
  IN  IF ps = {} THEN {} ELSE {index[o] : o \in p + 1 .. p + Len(a.exact)}

\* The context is that of the first place where the quote stands outside the
\* marks on show, and there is none when there is no such place.
BuildAnchor(first, last) ==
  LET text  == TextOf(Index(TextIndex(Marked)))
      exact == SubSeq(article.text, first, last)
      ps    == Positions(exact, text)
      idx   == Least(ps)
      end   == idx + Len(exact)
      From(p) == IF p < CTX THEN 0 ELSE p - CTX
  IN  [exact  |-> exact,
       prefix |-> IF ps = {} THEN << >> ELSE SubSeq(text, From(idx) + 1, idx),
       suffix |-> IF ps = {} THEN << >>
                  ELSE SubSeq(text, end + 1, IF end + CTX < Len(text) THEN end + CTX ELSE Len(text))]

\* surroundContents takes the letters out of their node, which keeps those
\* before the mark; those after it are in a node that nodes does not have.
MarkRange(nodes, span) ==
  {{x \in node : \A y \in node \cap span : x < y} : node \in nodes}

----------------------------------------------------------------------------
(* The effect of the comment section.                                      *)

\* Marks one after the other, all in the nodes of one index; before[i] are the
\* nodes left when the i-th is drawn.
Draw(nodes, marks) ==
  LET Span(i) == FindAnchor(Index(nodes), marks[i].anchor)
      before[i \in 1 .. Len(marks)] ==
        IF i = 1 THEN nodes ELSE MarkRange(before[i - 1], Span(i - 1))
  IN  [i \in 1 .. Len(marks) |-> Span(i) \cap UNION before[i]]

\* Mutant: the marks on show are not taken off first.
Redraw_Over(comments, notes) ==
  LET nodes == TextIndex(Marked)
  IN  /\ drawn' = Draw(nodes, comments \o notes)
      /\ orphans' = {i \in DOMAIN comments : FindAnchor(Index(nodes), comments[i].anchor) = {}}

\* The old marks are taken off, the text nodes joined, the new marks drawn.
Redraw(comments, notes) ==
  LET nodes == TextIndex({})
  IN  /\ drawn' = Draw(nodes, comments \o notes)
      /\ orphans' = {i \in DOMAIN comments : FindAnchor(Index(nodes), comments[i].anchor) = {}}

\* An answer with one of the lists, or none to be had.
ListComes ==
  /\ \E sort \in Sorts : \E items \in {stored[sort], << >>} :
       /\ list' = [list EXCEPT ![sort] = items]
       /\ loaded' = (loaded \/ sort = "comment")
  /\ IF loaded' THEN Redraw(list'["comment"], list'["note"]) ELSE UNCHANGED <<drawn, orphans>>
  /\ UNCHANGED <<article, stored, mark, posts>>

\* check: a selection in the article becomes an anchor, any other takes it away.
Select ==
  /\ \/ mark' = None
     \/ \E first, last \in Letters :
          /\ last + 1 - first \in Lengths
          /\ mark' = [anchor |-> BuildAnchor(first, last), article |-> article, span |-> first .. last,
                      clear |-> \A x \in Marked : x > last + CTX]
  /\ UNCHANGED <<article, stored, list, loaded, drawn, orphans, posts>>

\* post and postNote; the lists are asked for again and come in their time.
Post ==
  /\ mark # None
  /\ posts < MaxPosts /\ posts' = posts + 1
  /\ \E sort \in Sorts : stored' = [stored EXCEPT ![sort] = Append(@, mark)]
  /\ mark' = None
  /\ UNCHANGED <<article, list, loaded, drawn, orphans>>

Delete ==
  /\ \E sort \in Sorts : \E i \in DOMAIN stored[sort] :
       stored' = [stored EXCEPT ![sort] = RemoveAt(@, i)]
  /\ UNCHANGED <<article, list, loaded, drawn, orphans, mark, posts>>

\* A version of the book is published and the page loaded again.
Publish == /\ article' \in Articles \ {article}
           /\ list' = Nothing /\ loaded' = FALSE
           /\ drawn' = << >> /\ orphans' = {} /\ mark' = None
           /\ UNCHANGED <<stored, posts>>

Next == ListComes \/ Select \/ Post \/ Delete \/ Publish

Spec == Init /\ [][Next]_vars

----------------------------------------------------------------------------
(* Properties.                                                             *)

Found(m) == FindAnchor(Index(TextIndex({})), m.anchor)

SameNode(x, y) == \E node \in TextIndex({}) : {x, y} \subseteq node

\* Whatever was drawn before, the page shows the marks a page that starts anew
\* would show: the letters of a quote that are not under its mark are those at
\* or after a letter of their text node that is under the mark of a comment
\* drawn earlier; and the comments listed as moved are those whose quote is
\* nowhere in the article.
MarksOfLists ==
  \A i \in DOMAIN Shown :
    /\ drawn[i] = {x \in Found(Shown[i]) :
                     \A j \in 1 .. i - 1 : \A y \in drawn[j] : SameNode(x, y) => x < y}
    /\ i \in DOMAIN list["comment"] => (i \in orphans <=> Found(Shown[i]) = {})

\* A reader who selects the first place where a passage stands, or the only
\* one, with no mark on show before the end of its context, finds the mark
\* there as long as the article stays as it is.
FoundAgain ==
  \A i \in DOMAIN Shown :
    LET m == Shown[i]
        ps == Positions(m.anchor.exact, article.text)
    IN  (/\ m.article = article
         /\ \/ Cardinality(ps) = 1
            \/ m.clear /\ Least(ps) + 1 \in m.span /\ \A x \in m.span : x > Least(ps))
          => Found(m) = m.span

\* A mark survives edits elsewhere on the page: a comment whose quote stands in
\* the article, and shares no letter with another's, has a mark (anchor.ts, at
\* its head).
MarkSurvives ==
  \A i \in DOMAIN Shown :
    LET span == Found(Shown[i])
    IN  (span # {} /\ \A j \in DOMAIN Shown \ {i} : span \cap Found(Shown[j]) = {})
          => drawn[i] # {}
=============================================================================
