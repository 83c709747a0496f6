----------------------------- MODULE TreeSearch -----------------------------
(***************************************************************************)
(* Beam search and best-first search of a seeded binary tree under a       *)
(* budget of generated nodes: search and its lean replay, curves, of       *)
(* src/app/src/figures/tree-search.ts, one expansion per action. The       *)
(* scores and the solutions a seed draws are parameters; what v* is of a   *)
(* node matters only as being positive, that is, a solution below it. The  *)
(* statuses and rankings that are drawn are left out.                      *)
(***************************************************************************)
EXTENDS Integers, Sequences, FiniteSets, FiniteSetsExt, SequencesExt

CONSTANTS Params,  \* [score, solutions, policy, budget, choice]
          DEPTH

VARIABLES par, it,
          frontier,  \* beam: the retained states, best first
          at,        \* beam: how many of them are expanded
          waiting,   \* best-first: the states not expanded
          leaves,    \* generated leaves
          told       \* [lostAt, firstSolutionAt, returned, over]

vars == <<par, it, frontier, at, waiting, leaves, told>>

\* Nodes are numbered breadth-first from 0; the root is generated.
NODES     == 2 ^ (DEPTH + 1) - 1
kidsOf(i) == {2 * i + 1, 2 * i + 2}
isLeaf(i) == i >= NODES \div 2
Leaves    == NODES \div 2 .. NODES - 1
generated == 1 + 2 * it

\* Those at the last depth below a node, and whether one of them is a solution.
Below(i) ==
  LET under[d \in 0 .. DEPTH] ==
        IF d = 0 THEN {i} ELSE under[d - 1] \cup UNION {kidsOf(n) : n \in under[d - 1]}
  IN  under[DEPTH] \cap Leaves
holds(i) == Below(i) \cap par.solutions # {}

\* desc: higher scores first, then lower numbers.
Before(a, b) == par.score[a] > par.score[b] \/ (par.score[a] = par.score[b] /\ a < b)
Ranked(S) == [r \in 1 .. Cardinality(S) |->
                CHOOSE x \in S : Cardinality({y \in S : Before(y, x)}) = r - 1]
Top(S, n) == SubSeq(Ranked(S), 1, Min({n, Cardinality(S)}))

\* The nodes of a beam of width w run to full depth, and the widest that fits.
beamWork(w) == 1 + FoldLeft(LAMBDA n, d : n + 2 * Min({w, 2 ^ (d - 1)}), 0, [d \in 1 .. DEPTH |-> d])
beamWidth(budget) == Max({1} \cup {w \in 2 .. 2 ^ (DEPTH - 1) : beamWork(w) <= budget})

Init == /\ par \in Params /\ it = 0
        /\ frontier = <<0>> /\ at = 0
        /\ waiting = {0}
        /\ leaves = {}
        /\ told = [lostAt |-> -1, firstSolutionAt |-> -1, returned |-> -1, over |-> FALSE]

\* generate: both children of a node.
Generated(node) ==
  LET found == {k \in kidsOf(node) : isLeaf(k)}
  IN  /\ leaves' = leaves \cup found
      /\ told' = [told EXCEPT !.firstSolutionAt =
                    IF @ < 0 /\ found \cap par.solutions # {} THEN it ELSE @]
      /\ it' = it + 1

Children == UNION {kidsOf(frontier[i]) : i \in DOMAIN frontier}
LastLevel == isLeaf(2 * frontier[1] + 1)

\* Mutant: a beam one wider than what fits is retained.
Retained_Wider == Top(Children, beamWidth(par.budget) + 1)

Retained == Top(Children, beamWidth(par.budget))

\* A state of the beam that others of its level follow, or the last level's last.
ExpandInBeam ==
  /\ par.policy = "beam" /\ at < Len(frontier)
  /\ at + 1 < Len(frontier) \/ LastLevel
  /\ Generated(frontier[at + 1])
  /\ at' = at + 1
  /\ UNCHANGED <<par, frontier, waiting>>

\* The last state of a level: its children are ranked and the rest pruned.
ExpandAndPrune ==
  /\ par.policy = "beam" /\ at + 1 = Len(frontier) /\ ~LastLevel
  /\ it' = it + 1
  /\ told' = [told EXCEPT !.lostAt =
                IF /\ @ < 0
                   /\ \E n \in ToSet(frontier) : holds(n)
                   /\ \A n \in ToSet(Retained) : ~holds(n)
                THEN it ELSE @]
  /\ frontier' = Retained /\ at' = 0
  /\ UNCHANGED <<par, waiting, leaves>>

Goes == /\ waiting # {} /\ generated + 2 <= par.budget
        /\ ~(par.choice = "check" /\ told.firstSolutionAt >= 0)

ExpandBest ==
  /\ par.policy = "best" /\ ~told.over /\ Goes
  /\ LET node == Ranked(waiting)[1]
     IN  /\ Generated(node)
         /\ waiting' = (waiting \ {node}) \cup {k \in kidsOf(node) : ~isLeaf(k)}
  /\ UNCHANGED <<par, frontier, at>>

\* The final choice among the generated leaves.
Choose ==
  /\ ~told.over
  /\ IF par.policy = "beam" THEN LastLevel /\ at = Len(frontier) ELSE ~Goes
  /\ LET pool == IF par.choice = "check" THEN leaves \cap par.solutions ELSE leaves
     IN  told' = [told EXCEPT !.over = TRUE,
                    !.returned = IF pool = {} THEN -1 ELSE Ranked(pool)[1]]
  /\ UNCHANGED <<par, it, frontier, at, waiting, leaves>>

Next == ExpandInBeam \/ ExpandAndPrune \/ ExpandBest \/ Choose

Ended == told.over

\* curves: the beam's levels and the best-first expansions again, without steps.
replayBeam ==
  LET level[d \in 0 .. DEPTH - 1] ==
        IF d = 0 THEN {0}
        ELSE ToSet(Top(UNION {kidsOf(n) : n \in level[d - 1]}, beamWidth(par.budget)))
  IN  UNION {kidsOf(n) : n \in level[DEPTH - 1]}
replayBest ==
  LET after[k \in 0 .. NODES \div 2] ==  \* the states expanded
        IF k = 0 THEN {}
        ELSE LET open == ({0} \cup UNION {kidsOf(n) : n \in after[k - 1]}) \ (after[k - 1] \cup Leaves)
             IN  after[k - 1] \cup {Ranked(open)[1]}
      k == Min({(par.budget - 1) \div 2, NODES \div 2})
  IN  UNION {kidsOf(n) : n \in after[k]} \cap Leaves
Replayed == IF par.policy = "beam" THEN replayBeam ELSE replayBest

----------------------------------------------------------------------------
(* Properties.                                                             *)

WithinBudget == generated <= par.budget

\* A beam always comes to a leaf. It generates a solution unless, and only
\* unless, a pruning it reports has removed the last branch that holds one.
LossTold ==
  told.over /\ par.policy = "beam" =>
    /\ leaves # {}
    /\ told.lostAt < 0 <=> leaves \cap par.solutions # {}

\* A checker's choice is a solution whenever one was generated.
ChoiceChecked ==
  told.over /\ par.choice = "check" =>
    IF told.firstSolutionAt >= 0 THEN told.returned \in par.solutions ELSE told.returned = -1

\* The curves beside the tree show what the search of the tree does: at the same
\* budget the replay finds a solution, and has one as its best leaf, when the
\* search does.
ReplayAgrees ==
  told.over =>
    /\ told.firstSolutionAt >= 0 <=> Replayed \cap par.solutions # {}
    /\ par.choice = "score" =>
         told.returned = IF Replayed = {} THEN -1 ELSE Ranked(Replayed)[1]
=============================================================================
