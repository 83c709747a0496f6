------------------------- MODULE ContextCompaction -------------------------
(***************************************************************************)
(* An agent's session under a bounded context window: simulate of          *)
(* src/app/src/figures/context-compaction.ts. Each call appends a turn,    *)
(* compacts the older turns when the input with the output reserve is over *)
(* a threshold, looks up a fact the call needs, perhaps fetching it back   *)
(* from the log, and reuses what the prefix cache has of the call before.  *)
(*                                                                         *)
(* An item is told from others by its turn and what it is of the turn; a   *)
(* summary, by the number of compactions. The events and the drawing are   *)
(* left out.                                                               *)
(***************************************************************************)
EXTENDS Naturals, Sequences, FiniteSets, SequencesExt, FiniteSetsExt

CONSTANT Params  \* [policy, threshold, window, reserve]

VARIABLES par,
          call,      \* the next call
          memory,    \* [history, holds, pointers, compactions]
          outcome,   \* fact -> "none", "used", "fetched" or "lost"
          sent,      \* the input of the last call
          tokens     \* totals: [prefill, noCache, log]

vars == <<par, call, memory, outcome, sent, tokens>>

Item(turn, part, n, fact) == [turn |-> turn, part |-> part, tokens |-> n, fact |-> fact]

PINNED == << Item(0, "system", 2400, 0), Item(0, "tools", 8600, 0), Item(0, "request", 350, 0) >>
TAIL == 3
SUMMARY_TOKENS == [truncate |-> 0, summary |-> 2400, checkpoint |-> 3200]
FETCH_TOKENS == 900

\* The session: the tokens of the assistant's message and of the tool's result.
TURNS == << <<900, 9400>>, <<700, 11500>>, <<600, 6200>>, <<800, 10100>>, <<500, 4700>>,
            <<700, 8200>>, <<600, 500>>, <<900, 8600>>, <<500, 6700>>, <<1200, 1100>>,
            <<700, 9700>>, <<1100, 700>>, <<600, 9500>>, <<800, 11000>>, <<700, 7300>>,
            <<1300, 800>>, <<700, 14200>>, <<600, 5200>>, <<800, 900>>, <<600, 9200>>,
            <<700, 10100>>, <<900, 800>>, <<800, 1100>>, <<600, 7000>>, <<1400, 0>> >>
N == Len(TURNS)

\* The user's messages, and the facts: where they are said and when needed.
user  == [t \in 1 .. N |-> CASE t = 5 -> 260 [] t = 9 -> 220 [] OTHER -> 0]
FACTS == << [on |-> "result", at |-> 1, need |-> 12, keptBy |-> {}],
            [on |-> "user",   at |-> 5, need |-> 16, keptBy |-> {"checkpoint"}],
            [on |-> "result", at |-> 7, need |-> 23, keptBy |-> {"summary", "checkpoint"}],
            [on |-> "user",   at |-> 9, need |-> 25, keptBy |-> {"summary", "checkpoint"}] >>

fact(t, part) ==
  Max({0} \cup {f \in DOMAIN FACTS : FACTS[f].at = t /\ FACTS[f].on = part})

size(items) == FoldLeft(LAMBDA n, x : n + x.tokens, 0, items)

\* What a call sends: the pinned items, the summary if there is one, the turns.
summary(m) ==
  IF par.policy = "truncate" \/ m.compactions = 0 THEN << >>
  ELSE << Item(m.compactions, "summary", SUMMARY_TOKENS[par.policy], 0) >>
input(m) == PINNED \o summary(m) \o m.history

Over(n, share) == 100 * (n + par.reserve) > share * par.window

\* The last turns that stay: TAIL of them, fewer if they do not fit, at least one.
tailOf(m, k) ==
  LET turns == {m.history[i].turn : i \in DOMAIN m.history}
      last  == {u \in turns : Cardinality({v \in turns : v > u}) < k}
  IN  SelectSeq(m.history, LAMBDA x : x.turn \in last)

fits(m, k) ==
  ~Over(size(PINNED) + SUMMARY_TOKENS[par.policy] + size(tailOf(m, k)), par.threshold)

kept(m) ==
  LET most == Min({TAIL, Cardinality({m.history[i].turn : i \in DOMAIN m.history})})
  IN  Max({Min({1, most})} \cup {k \in 2 .. most : fits(m, k)})

\* Mutant: the facts of the turns dropped go nowhere.
Compacted_Dropping(m) ==
  LET tail == tailOf(m, kept(m))
  IN  IF tail = m.history THEN m
      ELSE [m EXCEPT !.history = tail, !.compactions = @ + 1]

\* compact: facts of what is dropped go into the summary, or get a pointer.
Compacted(m) ==
  LET tail    == tailOf(m, kept(m))
      dropped == {x.fact : x \in ToSet(m.history) \ ToSet(tail)} \ {0}
      held    == {f \in dropped : par.policy \in FACTS[f].keptBy}
  IN  IF tail = m.history THEN m
      ELSE [history |-> tail, holds |-> m.holds \cup held,
            pointers |-> m.pointers \cup
                           (IF par.policy = "checkpoint" THEN dropped \ held ELSE {}),
            compactions |-> m.compactions + 1]

\* Where a fact is that has been said.
Said(m, f) == IF \E x \in ToSet(m.history) : x.fact = f /\ x.part = FACTS[f].on THEN "window"
              ELSE IF f \in m.holds THEN "held"
              ELSE IF f \in m.pointers THEN "pointer"
              ELSE "log"

stateOf(m, f) == IF outcome[f] # "none" THEN outcome[f]
                 ELSE IF call <= FACTS[f].at THEN "future" ELSE Said(m, f)

Needed(t) == {f \in DOMAIN FACTS : FACTS[f].need = t}

Init == /\ par \in Params /\ call = 0
        /\ memory = [history |-> << >>, holds |-> {}, pointers |-> {}, compactions |-> 0]
        /\ outcome = [f \in DOMAIN FACTS |-> "none"]
        /\ sent = << >> /\ tokens = [prefill |-> 0, noCache |-> 0, log |-> 0]

\* The turn a call begins with.
Turn(t) ==
  IF t = 0 THEN << >>
  ELSE SelectSeq(<< Item(t, "user", user[t], fact(t, "user")),
                    Item(t, "asst", TURNS[t][1], 0),
                    Item(t, "result", TURNS[t][2], fact(t, "result")) >>,
                 LAMBDA x : x.tokens > 0)

\* The tokens of a call's input up to where it first differs from the input of
\* the call before.
Shared(items) ==
  LET differ == {i \in DOMAIN items : i > Len(sent) \/ items[i] # sent[i]}
  IN  size(SubSeq(items, 1, Min({Len(items) + 1} \cup differ) - 1))

Call ==
  /\ call <= N
  /\ LET grown   == [memory EXCEPT !.history = @ \o Turn(call)]
         ready   == IF Over(size(input(grown)), par.threshold) THEN Compacted(grown) ELSE grown
         fetches == {f \in Needed(call) : Said(ready, f) = "pointer"}
         excerpt == IF fetches = {} THEN << >>
                    ELSE << Item(call, "excerpt", FETCH_TOKENS, Max(fetches)) >>
         fetched == [ready EXCEPT !.history = @ \o excerpt]
         final   == IF Over(size(input(fetched)), 100) THEN Compacted(fetched) ELSE fetched
         items   == input(final)
     IN  /\ memory' = final
         /\ outcome' = [f \in DOMAIN FACTS |->
                          IF f \notin Needed(call) THEN outcome[f]
                          ELSE CASE Said(ready, f) \in {"window", "held"} -> "used"
                                 [] Said(ready, f) = "pointer"            -> "fetched"
                                 [] OTHER                                 -> "lost"]
         /\ sent' = items
         /\ tokens' = [prefill |-> tokens.prefill + size(items) - Shared(items),
                       noCache |-> tokens.noCache + size(items),
                       log     |-> tokens.log + size(Turn(call) \o excerpt)]
  /\ call' = call + 1
  /\ UNCHANGED par

Next == Call

Ended == call > N

----------------------------------------------------------------------------
(* Properties.                                                             *)

\* "and never send T(X) + R > W": whatever is fetched back, and whatever part of
\* the window the threshold is.
NeverOver == ~Over(size(sent), 100)

\* A fact that a call has used or fetched was in the input of that call, in its
\* own words, in the summary or as the excerpt; a fact that is lost was in none.
FactsTrue ==
  \A f \in DOMAIN FACTS :
    call = FACTS[f].need + 1 =>
      LET read == f \in memory.holds \/ \E x \in ToSet(sent) : x.fact = f
      IN  outcome[f] \in {"used", "fetched"} <=> read

\* A checkpoint loses nothing and a summary only what it cannot hold; every
\* fact said is in one of the places it can be looked for.
NothingLost ==
  \A f \in DOMAIN FACTS :
    /\ par.policy = "checkpoint" => stateOf(memory, f) \notin {"log", "lost"}
    /\ par.policy \in FACTS[f].keptBy => stateOf(memory, f) \in {"future", "window", "held", "used"}

\* Every token of the log was sent at least once, without compaction exactly
\* once: the cache misses nothing it had, and a compaction costs at most a window.
CacheFollows ==
  call > 0 =>
    LET once == size(PINNED) + tokens.log
    IN  /\ once <= tokens.prefill
        /\ tokens.prefill <= once + memory.compactions * par.window
        /\ tokens.prefill <= tokens.noCache
=============================================================================
