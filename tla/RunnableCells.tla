--------------------------- MODULE RunnableCells ---------------------------
(***************************************************************************)
(* The runnable Python cells of one page (src/app/src/runtime/live.ts).    *)
(* Every cell runs in one Pyodide interpreter, loaded on the first Run and *)
(* kept in a promise, and may await one CJK font, kept in another. A run   *)
(* is asynchronous up to the Python call, so runs of several cells, and    *)
(* several runs of one cell, overlap, and Reset does not stop them.        *)
(*                                                                         *)
(* An action is what the event loop runs without a break: a handler, or    *)
(* the code from one await to the next. Abstracted: the editor, the        *)
(* highlighter and the frame budget; a cell's code is reduced to what it   *)
(* asks of the page and what becomes of it.                                *)
(***************************************************************************)
EXTENDS Naturals, FiniteSets, Sequences

CONSTANTS Cells,
          Codes,    \* the programs a reader may leave in an editor
          MaxRuns,  \* bound on the clicks on Run
          None

VARIABLES py,       \* pyPromise: "none", "loading", "ready" or "failed"
          scripts,  \* pyodide.js script elements appended to the document
          font,     \* cjkFontPromise: "none", "fetching" or "ready"
          runs,     \* the runs started so far, in order; see Run
          status,   \* cell -> its status line
          out,      \* cell -> the run whose text it shows
          figs,     \* cell -> the runs whose figures it shows
          open,     \* the interpreter: runs whose pyplot figures are open
          style,    \* the interpreter: rcParams name the CJK font
          added     \* the interpreter: the font manager has the CJK font

page   == <<status, out, figs>>
python == <<open, style, added>>
load   == <<py, scripts>>
vars   == <<load, font, runs, page, python>>

\* What running the code comes to: it ends; it raises; drawing its animation
\* raises; or the page refuses one of its figures.
Outcome == {"ends", "raises", "badfigure", "badsvg"}

\* mpl only with pkgs, and draws only with mpl.
Code == [pkgs: BOOLEAN,     \* imports numpy or matplotlib
         mpl: BOOLEAN,      \* usesMpl
         cjk: BOOLEAN,      \* CJK_RE
         draws: BOOLEAN,    \* opens a pyplot figure
         outcome: Outcome]

Awaiting == {"python", "packages", "font", "paint"}

Result == {"none", "noPython", "noPackages", "raised", "printed"}

Run == [cell: Cells, code: Codes, stage: Awaiting \cup {"ended"},
        cjk: BOOLEAN,       \* theme.cjk
        alone: BOOLEAN,     \* no other run of the cell was under way
        result: Result]

Progress == {"loadingPython", "running", "loadingPackages", "loadingFont"}

Ids == 1 .. Len(runs)

TypeOK == /\ py \in {"none", "loading", "ready", "failed"}
          /\ font \in {"none", "fetching", "ready"}
          /\ scripts \in 0 .. 1
          /\ runs \in Seq(Run)
          /\ status \in [Cells -> Progress \cup {"blank", "noPython", "noOutput", "error"}]
          /\ out \in [Cells -> Ids \cup {None}]
          /\ figs \in [Cells -> SUBSET Ids]
          /\ open \subseteq Ids
          /\ style \in BOOLEAN /\ added \in BOOLEAN

Init == /\ py = "none" /\ scripts = 0 /\ font = "none"
        /\ runs = << >>
        /\ status = [c \in Cells |-> "blank"]
        /\ out = [c \in Cells |-> None]
        /\ figs = [c \in Cells |-> {}]
        /\ open = {} /\ style = FALSE /\ added = FALSE

Of(c) == {r \in Ids : runs[r].cell = c}

UnderWay(c) == {r \in Of(c) : runs[r].stage # "ended"}

Say(c, text) == status' = [status EXCEPT ![c] = text]

Cell(r) == runs[r].cell

---------------------------------------------------------------------------
(* The page's two cached promises.                                         *)

LoadPython(c) == \* the head of getPyodide
  IF py = "none"
  THEN py' = "loading" /\ scripts' = scripts + 1 /\ Say(c, "loadingPython")
  ELSE UNCHANGED <<load, status>>

PythonLoads == /\ py = "loading"
               /\ py' = "ready"
               /\ UNCHANGED <<scripts, font, runs, page, python>>

\* The rejected promise stays cached: no later Run loads Python.
PythonFails == /\ py = "loading"
               /\ py' = "failed"
               /\ UNCHANGED <<scripts, font, runs, page, python>>

\* The continuations of the runs that await the font, in one turn.
WithFont(ok) == [r \in Ids |-> IF runs[r].stage = "font"
                               THEN [runs[r] EXCEPT !.stage = "paint", !.cjk = ok]
                               ELSE runs[r]]

Running(ids) == [c \in Cells |-> IF \E r \in ids : Cell(r) = c
                                   THEN "running" ELSE status[c]]

AwaitFont == {r \in Ids : runs[r].stage = "font"}

FontLoads == /\ font = "fetching"
             /\ font' = "ready" /\ added' = TRUE
             /\ runs' = WithFont(TRUE)
             /\ status' = Running(AwaitFont)
             /\ UNCHANGED <<load, out, figs, open, style>>

\* Mutant: a run goes on as if it had its font.
FontFails_Styled == /\ font = "fetching"
                    /\ font' = "none"
                    /\ runs' = WithFont(TRUE)
                    /\ status' = Running(AwaitFont)
                    /\ UNCHANGED <<load, out, figs, python>>

\* Mutant: the catch that clears the promise swallows the rejection unawaited.
FontFails_Silent == /\ font = "fetching"
                    /\ font' = "none"
                    /\ UNCHANGED <<load, runs, page, python>>

FontFails == /\ font = "fetching"
             /\ font' = "none"
             /\ runs' = WithFont(FALSE)
             /\ status' = Running(AwaitFont)
             /\ UNCHANGED <<load, out, figs, python>>

---------------------------------------------------------------------------
(* A run, await by await.                                                  *)

\* Mutant: the figures of the cell's last run stay until new ones replace them.
Click_KeepFigures(c, k) ==
  /\ Len(runs) < MaxRuns
  /\ runs' = Append(runs, [cell |-> c, code |-> k, stage |-> "python", cjk |-> FALSE,
                           alone |-> UnderWay(c) = {}, result |-> "none"])
  /\ out' = [out EXCEPT ![c] = None]
  /\ LoadPython(c)
  /\ UNCHANGED <<font, figs, python>>

Click(c, k) == \* Run, or Ctrl+Enter in the editor
  /\ Len(runs) < MaxRuns
  /\ runs' = Append(runs, [cell |-> c, code |-> k, stage |-> "python", cjk |-> FALSE,
                           alone |-> UnderWay(c) = {}, result |-> "none"])
  /\ out' = [out EXCEPT ![c] = None]
  /\ figs' = [figs EXCEPT ![c] = {}]
  /\ LoadPython(c)
  /\ UNCHANGED <<font, python>>

Goto(r, stage) == runs' = [runs EXCEPT ![r].stage = stage]

End(r, result) == runs' = [runs EXCEPT ![r].stage = "ended", ![r].result = result]

NoPython(r) == /\ runs[r].stage = "python"
               /\ py = "failed"
               /\ End(r, "noPython")
               /\ Say(Cell(r), "noPython")
               /\ UNCHANGED <<load, font, out, figs, python>>

WithPython(r) == /\ runs[r].stage = "python"
                 /\ py = "ready"
                 /\ IF runs[r].code.pkgs
                    THEN Goto(r, "packages") /\ Say(Cell(r), "loadingPackages")
                    ELSE Goto(r, "paint") /\ Say(Cell(r), "running")
                 /\ UNCHANGED <<load, font, out, figs, python>>

\* The theme is read, and a chart with CJK text awaits ensureCjkFont.
WithPackages(r) ==
  LET k == runs[r].code IN
  /\ runs[r].stage = "packages"
  /\ IF k.mpl /\ k.cjk
     THEN /\ font' = IF font = "none" THEN "fetching" ELSE font
          /\ IF font = "ready"
             THEN /\ runs' = [runs EXCEPT ![r].stage = "paint", ![r].cjk = TRUE]
                  /\ Say(Cell(r), "running")
             ELSE /\ Goto(r, "font")
                  /\ IF font = "none" THEN Say(Cell(r), "loadingFont")
                                      ELSE UNCHANGED status
     ELSE Goto(r, "paint") /\ Say(Cell(r), "running") /\ UNCHANGED font
  /\ UNCHANGED <<load, out, figs, python>>

\* Mutant: the run ends without a word on its status line.
PackagesFail_Silent(r) == /\ runs[r].stage = "packages"
                          /\ End(r, "noPackages")
                          /\ out' = [out EXCEPT ![Cell(r)] = r]
                          /\ UNCHANGED <<load, font, status, figs, python>>

PackagesFail(r) == /\ runs[r].stage = "packages"
                   /\ End(r, "noPackages")
                   /\ out' = [out EXCEPT ![Cell(r)] = r]
                   /\ Say(Cell(r), "error")
                   /\ UNCHANGED <<load, font, figs, python>>

\* Mutant: __run_user_code leaves the figures of an earlier run open.
Drawn_KeepOpen(r) == open \cup (IF runs[r].code.draws THEN {r} ELSE {})

Drawn(r) == \* close("all"), then exec
  IF runs[r].code.draws THEN {r} ELSE {}

\* __run_user_code and what run does with its answer: one synchronous stretch.
Execute(r) ==
  LET c == Cell(r)
      k == runs[r].code
  IN  /\ runs[r].stage = "paint"
      /\ style' = (style \/ runs[r].cjk)
      /\ out' = [out EXCEPT ![c] = r]
      /\ \/ /\ k.outcome = "raises"    \* exec raises past __capture
            /\ open' = Drawn(r)
            /\ figs' = figs
            /\ Say(c, "error") /\ End(r, "raised")
         \/ /\ k.outcome = "badfigure" \* the traceback is printed, no figure shown
            /\ open' = {}
            /\ figs' = figs
            /\ Say(c, "blank") /\ End(r, "printed")
         \/ /\ k.outcome = "badsvg"    \* mountFigs clears the figures, then throws
            /\ open' = {}
            /\ figs' = [figs EXCEPT ![c] = {}]
            /\ Say(c, "error") /\ End(r, "raised")
         \/ /\ k.outcome = "ends"
            /\ open' = {}
            /\ figs' = IF Drawn(r) # {} THEN [figs EXCEPT ![c] = Drawn(r)] ELSE figs
            /\ \E text \in IF Drawn(r) # {} THEN {"blank"} ELSE {"blank", "noOutput"} : Say(c, text)
            /\ End(r, "printed")
      /\ UNCHANGED <<load, font, added>>

Reset(c) == /\ out' = [out EXCEPT ![c] = None]
            /\ figs' = [figs EXCEPT ![c] = {}]
            /\ Say(c, "blank")
            /\ UNCHANGED <<load, font, runs, python>>
---------------------------------------------------------------------------
Clicks == \E c \in Cells : Reset(c) \/ \E k \in Codes : Click(c, k)

Continue(r) == \/ NoPython(r) \/ WithPython(r)
               \/ WithPackages(r) \/ PackagesFail(r)
               \/ Execute(r)

Network == PythonLoads \/ PythonFails \/ FontLoads \/ FontFails

Next == Clicks \/ Network \/ \E r \in Ids : Continue(r)

\* Requests settle, one way or the other, and the event loop reaches every
\* continuation; that the reader clicks is not assumed.
Fairness == /\ WF_vars(Network)
            /\ \A r \in 1 .. MaxRuns : WF_vars(r \in Ids /\ Continue(r))

Spec == Init /\ [][Next]_vars /\ Fairness

---------------------------------------------------------------------------
(* Properties.                                                             *)

\* "failures degrade to tofu rather than breaking execution": a run with Python
\* and its packages whose code comes to an end prints what it printed,
\* whatever became of the font it, or a run of another cell, waited for.
FontIsOptional == \A r \in Ids : runs[r].code.outcome = "ends"
                                    => runs[r].result # "raised"

\* Charts are drawn in the CJK font only once the font manager has it: the
\* rcParams outlive the run that set them, so no order of fetches, failures
\* and runs may leave them naming a font that was never added.
StyledWithFont == style => added

\* The interpreter is shared and a run that raised leaves its figures open,
\* yet a cell only ever shows figures of its own, and of a single run.
OwnFigures == \A c \in Cells : figs[c] \subseteq Of(c) /\ Cardinality(figs[c]) <= 1

\* When a cell's latest run began with no other under way there, nothing of an
\* earlier run is left in the cell from the moment Run was clicked: neither its
\* text nor, since a run without figures mounts none, its figures.
LoneRunShown ==
  \A c \in Cells : \A r \in Of(c) :
    runs[r].alone /\ (\A s \in Of(c) : s <= r)
      => out[c] \in {None, r} /\ figs[c] \subseteq {r}

\* A cell shows a run of its own: its latest, as long as none overlapped it.
CellShowsItsRun == OwnFigures /\ LoneRunShown

\* A status line that says something is going on is telling the truth: the
\* functions that load Python and the font write to the line of whichever cell
\* called them first, and still no line is left behind once its cell is quiet.
NoStaleProgress == \A c \in Cells : UnderWay(c) = {} => status[c] \notin Progress

\* Every run comes to an end, also when Python, a package or the font it
\* shares with other runs fails to load.
RunsEnd == \A r \in 1 .. MaxRuns :
             (r \in Ids /\ runs[r].stage # "ended") ~> (r \in Ids /\ runs[r].stage = "ended")
===========================================================================
