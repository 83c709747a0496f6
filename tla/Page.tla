-------------------------------- MODULE Page --------------------------------
(***************************************************************************)
(* The components of an open page, composed: a behaviour is of one of      *)
(* them, and the variables of the others stay as they are. The lists of    *)
(* comments, the composers, the marks over the article, the account        *)
(* widgets, the runnable cells, a figure and the shell around them share   *)
(* the page and no state that any of them writes.                          *)
(***************************************************************************)
EXTENDS CommentsView, Integers, Sequences

CONSTANTS
  Passages, Comments, MaxTexts,      \* of Composers
  MaxPosts,                          \* of Composers and of Marks
  Articles, CTX, Lengths,            \* of Marks
  MaxAsks, MaxToggles,               \* of AccountWidgets
  Cells, Codes, MaxRuns,             \* of RunnableCells
  Params, Length, Keys, Opening, Q, MaxSets, \* of FigureRuntime
  Sections, Queries, Hits,           \* of Shell
  None                               \* nothing announced, shown or selected

VARIABLES part,   \* the component, one of Parts
          open, mark, text, texts, aim, posts, listed,
          user, menu, items, tabAsked, asks, tabShown, on, saved, toggles,
          calls, sure, spent,
          host, loads, mounts, reduced, discrete, p, t, playing, last,
          frames, raf, at, timer, live, sets,
          article, stored, anchors, loaded, drawn, orphans, selected, posted,
          py, scripts, font, runs, status, out, pictures, opened, style, added,
          width, nav, toc, drawer, tocDrawer, searchOpen, held,
          q, docs, sel, early, pos, told, ticking, frame, active, shifted

Drafts  == INSTANCE Composers
Marks   == INSTANCE Marks WITH list <- anchors, mark <- selected, posts <- posted
Widgets == INSTANCE AccountWidgets WITH me <- user, asked <- tabAsked, shown <- tabShown
Python  == INSTANCE RunnableCells WITH figs <- pictures, open <- opened
Figure  == INSTANCE FigureRuntime
Reading == INSTANCE Shell

\* The bounds are numbers.
ASSUME BoundsAssumption == MaxTexts \in Nat /\ MaxAsks \in Nat /\ MaxToggles \in Nat

\* The text of an article is a sequence, and a selection is of some letters.
ASSUME ArticlesAssumption ==
  /\ \A a \in Articles : a.text \in Seq({a.text[x] : x \in DOMAIN a.text})
  /\ CTX \in Nat /\ Lengths \subseteq Nat \ {0}

\* Programs are what the cells make of them.
ASSUME ProgramsAssumption == Codes \subseteq Python!Code

\* Each setting of a figure has a length, of which there is a greatest, and keys.
ASSUME TimelinesAssumption ==
  /\ Length \in [Params -> Nat]
  /\ \E longest \in Params : \A other \in Params : Length[other] <= Length[longest]
  /\ Keys \in [Params -> SUBSET Int]
  /\ Opening \subseteq Int
  /\ Q \in Nat \ {0}

\* The search field may be empty, and every query lists a number of items.
ASSUME FieldAssumption == "" \in Queries
ASSUME HitsAssumption  == Hits \in [Queries -> Nat]

lists     == <<me, db, stage, issued, reads, shown, asked>>
composers == <<open, mark, text, texts, aim, posts, listed>>
widgets   == <<user, menu, items, tabAsked, asks, tabShown, on, saved, toggles,
               calls, sure, spent>>
figure    == <<host, loads, mounts, reduced, discrete, p, t, playing, last,
               frames, raf, at, timer, live, sets>>
marks     == <<article, stored, anchors, loaded, drawn, orphans, selected, posted>>
cells     == <<py, scripts, font, runs, status, out, pictures, opened, style, added>>
shell     == <<width, nav, toc, drawer, tocDrawer, searchOpen, held,
               q, docs, sel, early, pos, told, ticking, frame, active, shifted>>
pageVars  == <<part, lists, composers, marks, widgets, cells, figure, shell>>

\* What the variables of the other components are.
NoDrafts == /\ open = 0 /\ mark = 0 /\ text = 0 /\ texts = 0 /\ aim = 0 /\ posts = 0
            /\ listed = 0
NoMarks == /\ article = 0 /\ stored = 0 /\ anchors = 0 /\ loaded = 0 /\ drawn = 0
           /\ orphans = 0 /\ selected = 0 /\ posted = 0
NoWidgets == /\ user = 0 /\ menu = 0 /\ items = 0 /\ tabAsked = 0 /\ asks = 0
             /\ tabShown = 0 /\ on = 0 /\ saved = 0 /\ toggles = 0 /\ calls = 0
             /\ sure = 0 /\ spent = 0
NoCells == /\ py = 0 /\ scripts = 0 /\ font = 0 /\ runs = << >> /\ status = 0 /\ out = 0
           /\ pictures = 0 /\ opened = 0 /\ style = 0 /\ added = 0
NoFigure == /\ host = 0 /\ loads = 0 /\ mounts = 0 /\ reduced = 0 /\ discrete = 0
            /\ p = 0 /\ t = 0 /\ playing = FALSE /\ last = 0 /\ frames = 0 /\ raf = 0
            /\ at = 0 /\ timer = 0 /\ live = 0 /\ sets = 0

NoShell == /\ width = 0 /\ nav = FALSE /\ toc = FALSE /\ drawer = FALSE /\ tocDrawer = FALSE
           /\ searchOpen = FALSE /\ held = FALSE /\ q = 0
           /\ docs = 0 /\ sel = 0 /\ early = FALSE /\ pos = 0 /\ told = FALSE /\ ticking = FALSE
           /\ frame = FALSE /\ active = 0 /\ shifted = FALSE

Parts == {"lists", "composers", "marks", "widgets", "cells", "figure", "shell"}

PageInit ==
  /\ part \in Parts
  /\ Init
  /\ IF part = "composers" THEN Drafts!Init  ELSE NoDrafts
  /\ IF part = "marks"     THEN Marks!Init   ELSE NoMarks
  /\ IF part = "widgets"   THEN Widgets!Init ELSE NoWidgets
  /\ IF part = "cells"     THEN Python!Init  ELSE NoCells
  /\ IF part = "figure"    THEN Figure!Init  ELSE NoFigure
  /\ IF part = "shell"     THEN Reading!Init ELSE NoShell

PageNext ==
  /\ UNCHANGED part
  /\ \/ part = "lists"     /\ Next
          /\ UNCHANGED <<composers, marks, widgets, cells, figure, shell>>
     \/ part = "composers" /\ Drafts!Next
          /\ UNCHANGED <<lists, marks, widgets, cells, figure, shell>>
     \/ part = "marks"     /\ Marks!Next
          /\ UNCHANGED <<lists, composers, widgets, cells, figure, shell>>
     \/ part = "widgets"   /\ Widgets!Next
          /\ UNCHANGED <<lists, composers, marks, cells, figure, shell>>
     \/ part = "cells"     /\ Python!Next
          /\ UNCHANGED <<lists, composers, marks, widgets, figure, shell>>
     \/ part = "figure"    /\ Figure!Next
          /\ UNCHANGED <<lists, composers, marks, widgets, cells, shell>>
     \/ part = "shell"     /\ Reading!Next
          /\ UNCHANGED <<lists, composers, marks, widgets, cells, figure>>

\* The fairness of CommentsView, RunnableCells and FigureRuntime, each for its
\* behaviours.
PageFairness ==
  /\ \A w \in Writes : WF_lists(part = "lists" /\ (Server(w) \/ Handler(w)))
  /\ \A n \in 1 .. MaxReads :
       WF_lists(part = "lists" /\ \E rd \in reads : rd.n = n /\ Listing(rd))
  /\ WF_cells(part = "cells" /\ Python!Network)
  /\ \A r \in 1 .. MaxRuns : WF_cells(part = "cells" /\ r \in Python!Ids /\ Python!Continue(r))
  /\ WF_figure(part = "figure" /\ Figure!Frame)
  /\ WF_figure(part = "figure" /\ Figure!Announce)

PageSpec == PageInit /\ [][PageNext]_pageVars /\ PageFairness

----------------------------------------------------------------------------
(* The properties of the components, each for its own behaviours; those of *)
(* CommentsView hold in the others too, where no list request is answered. *)

\* Composers: no text is submitted twice, a text is sent as what it was begun as, a
\* note never in public, and the popover does not come to bar every further selection.
SentAsBegun ==
  part = "composers" => Drafts!OneSubmission /\ Drafts!SentAsBegun /\ Drafts!NeverStuck

\* Marks: the page shows the marks a page that starts anew would show.
MarksOfLists == part = "marks" => Marks!MarksOfLists

\* Marks: a passage is found again where it was selected.
FoundAgain == part = "marks" => Marks!FoundAgain

\* Marks: a quote that stands in the article has its mark (anchor.ts, at its head).
MarkSurvives == part = "marks" => Marks!MarkSurvives

\* AccountWidgets: the answer to the latest choice of a tab is that tab's, and the
\* button comes to be right again after overlaps and errors.
WidgetsTrue == part = "widgets" => Widgets!ItemsOfTab /\ Widgets!ButtonTrue

\* RunnableCells: charts name the CJK font only once the interpreter has it, and
\* no run fails for want of it.
StyledWithFont == part = "cells" => Python!StyledWithFont /\ Python!FontIsOptional

\* RunnableCells: a cell shows figures of its own, of one run, and nothing of an
\* earlier run stays in a cell whose latest run overlapped none.
CellShowsItsRun == part = "cells" => Python!CellShowsItsRun

\* RunnableCells: no status line is left saying that something goes on.
NoStaleProgress == part = "cells" => Python!NoStaleProgress

\* FigureRuntime: one loop of frames, while playing only, and imports and mounts that
\* do not repeat.
OneLoop == part = "figure" => Figure!OneLoop /\ Figure!MountedOnce

\* FigureRuntime: the picture is of the position the transport shows, and what
\* was announced last is what a figure at rest shows.
PictureTold == part = "figure" => Figure!PictureTold

\* FigureRuntime: the picture is of the position shown (transport.ts:190).
RendersShown == part = "figure" => Figure!RendersShown

\* RunnableCells and FigureRuntime: every run and every playback comes to an end.
RunsEnd == Python!RunsEnd /\ Figure!PlaybackEnds

\* Shell: the page does not scroll under what is over it, of which there is one.
OverlaysHold == part = "shell" => Reading!OverlaysHold

\* Shell: the page is held still only while something is over it.
HeldMeanwhile == part = "shell" => Reading!HeldMeanwhile

\* Shell: the selection is of an item listed, while items are (Reader.tsx:531).
SelectionInRange == part = "shell" => Reading!SelectionInRange

\* Shell: the active heading is that of the position once no event and no frame is
\* due, and the selection of the search dialog is 0 or of an item listed, but -1 after
\* an ArrowDown that came while nothing was listed.
ShellFollows == part = "shell" => Reading!ShellFollows
=============================================================================
