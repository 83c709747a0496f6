---------------------------- MODULE AgentTurnLoop ----------------------------
(***************************************************************************)
(* One scripted task through the turn loop of an agent: script, assemble   *)
(* and run of src/app/src/figures/agent-turn-loop.ts, a turn per action.   *)
(* The wording of a turn and the six stages it is drawn in are left out.   *)
(***************************************************************************)
EXTENDS Naturals, Sequences, FiniteSets, SequencesExt, FiniteSetsExt

CONSTANT Params  \* [catalog, budget]

VARIABLES par, it,
          ctx,   \* the context of the last turn: [tools, verbatim, state]
          used,  \* executed actions
          log,   \* tokens of the event log
          exit   \* "none", "success" or "budget"

vars == <<par, it, ctx, used, log, exit>>

W == 16000
B_FIXED == 1800
B_TASK == 450
B_OUT == 2000
SUMMARY == 60
SESSION_RAW == 300

TOOLS == [run_tests |-> 620, read_file |-> 480, edit_file |-> 910, search_code |-> 540,
          list_dir |-> 320, git_diff |-> 380, open_pull_request |-> 760, web_search |-> 690]
PHASE_TOOLS == [investigate |-> {"run_tests", "read_file", "search_code", "list_dir"},
                edit        |-> {"read_file", "edit_file", "run_tests"},
                verify      |-> {"run_tests", "git_diff"}]

Turn(phase, tool, verdict, y, obs, raw) ==
  [phase |-> phase, tool |-> tool, verdict |-> verdict, y |-> y, obs |-> obs, raw |-> raw]

\* Turns without a tool: a question, output that does not parse, final answers
\* that the completion check fails or passes.
HEAD == << Turn("investigate", "run_tests", "allowed", 140, 2900, 9600),
            Turn("investigate", "read_file", "allowed", 120, 3600, 3780),
            Turn("edit", "edit_file", "denied", 180, 90, 390),
            Turn("edit", "none", "ask", 160, 60, 220),
            Turn("edit", "edit_file", "allowed", 420, 700, 1180),
            Turn("edit", "none", "invalid", 300, 80, 380),
            Turn("edit", "run_tests", "allowed", 110, 2300, 8370),
            Turn("verify", "none", "fails", 90, 400, 1390) >>
TAIL(phase) == << Turn(phase, "edit_file", "allowed", 260, 500, 820),
                   Turn(phase, "run_tests", "allowed", 110, 1400, 7070),
                   Turn("verify", "none", "passes", 120, 0, 1320) >>
script == IF par.catalog = "flat" THEN HEAD \o TAIL("verify")
          ELSE HEAD \o << Turn("verify", "edit_file", "unmounted", 250, 120, 490) >> \o TAIL("edit")

toolsFor(turn) == IF par.catalog = "flat" THEN DOMAIN TOOLS ELSE PHASE_TOOLS[turn.phase]
tools(turn)    == MapThenSumSet(LAMBDA k : TOOLS[k], toolsFor(turn))
room(turn)     == W - B_FIXED - B_TASK - tools(turn) - B_OUT

\* What the last n of the turns before this one take in full.
Full(n) == FoldLeft(LAMBDA a, x : a + x.y + x.obs, 0, SubSeq(script, it - n + 1, it))

\* Mutant: the lines that summarize older turns are not counted.
Fit_Unsummed(n, turn) == Full(n) <= room(turn)

Fit(n, turn) == Full(n) + SUMMARY * (it - n) <= room(turn)

\* assemble: the newest turns while each of them still fits, the rest a line each.
Verbatim(turn) == Max({n \in 0 .. it : \A m \in 1 .. n : Fit(m, turn)})
assemble(turn) ==
  [tools |-> tools(turn), verbatim |-> Verbatim(turn),
   state |-> Full(Verbatim(turn)) + SUMMARY * (it - Verbatim(turn))]

Init == /\ par \in Params /\ it = 0
        /\ ctx = [tools |-> 0, verbatim |-> 0, state |-> 0]
        /\ used = 0 /\ log = SESSION_RAW /\ exit = "none"

Take ==
  /\ exit = "none"
  /\ LET turn == script[it + 1]
         n    == used + IF turn.verdict = "allowed" THEN 1 ELSE 0
     IN  /\ ctx' = assemble(turn)
         /\ used' = n
         /\ log' = log + turn.raw
         /\ exit' = IF turn.verdict = "passes" THEN "success"
                    ELSE IF n >= par.budget THEN "budget" ELSE "none"
  /\ it' = it + 1
  /\ UNCHANGED par

Next == Take

Ended == exit # "none"

----------------------------------------------------------------------------
(* Properties.                                                             *)

\* "B_fixed + B_task + B_state,t + B_tools,t + B_out,t <= W" on every turn, with
\* no turn summarized that would have fitted.
ContextFits ==
  it > 0 =>
    /\ B_FIXED + B_TASK + ctx.state + ctx.tools + B_OUT <= W
    /\ ctx.verbatim < it - 1 =>
         LET older == script[it - 1 - ctx.verbatim]
         IN  B_FIXED + B_TASK + ctx.state - SUMMARY + older.y + older.obs + ctx.tools + B_OUT > W

\* "when it is used up, the stop check ends the run before the completion check
\* can pass": the exit told is success exactly when the script's actions fit.
StopTold ==
  LET needed == Cardinality({i \in DOMAIN script : script[i].verdict = "allowed"})
  IN  /\ used <= par.budget
      /\ Ended => (exit = "success" <=> par.budget > needed)

\* What a turn brings into the context is in the log, and a tool runs only when
\* it is mounted.
LogHolds ==
  /\ ctx.state <= log
  /\ it > 0 /\ script[it].verdict = "allowed" => script[it].tool \in toolsFor(script[it])
=============================================================================
