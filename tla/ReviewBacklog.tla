---------------------------- MODULE ReviewBacklog ----------------------------
(***************************************************************************)
(* A review backlog with and without tracking of undecided claims:         *)
(* simulate and runs of src/app/src/figures/review-backlog.ts. The figure  *)
(* simulates both settings over one draw of arrivals and capacities, and   *)
(* so does an action here, an interval at a time; the draws are small sets *)
(* instead of the seeded stream. Age buckets and mean waits are left out.  *)
(***************************************************************************)
EXTENDS Naturals, Sequences, FiniteSets, SequencesExt, FiniteSetsExt, Lists

CONSTANTS Params,      \* what simulate is called with, see Param
          Arrivals,    \* what G may be in an interval
          Capacities,  \* what K may be
          INTERVALS

VARIABLES par, it,
          queue,   \* setting -> cohorts [a, n], oldest first
          totals,  \* setting -> [decided, passed]
          met      \* the arrivals so far, by interval

vars == <<par, it, queue, totals, met>>

Param == [deadline: Nat \ {0}]

Settings == {"tracked", "untracked"}

Init == /\ par \in Params /\ it = 0
        /\ queue = [s \in Settings |-> << >>]
        /\ totals = [s \in Settings |-> [decided |-> 0, passed |-> 0]]
        /\ met = << >>

Pending(q) == Total([i \in DOMAIN q |-> q[i].n])

Arrived(q, G) == IF G = 0 THEN q ELSE Append(q, [a |-> it, n |-> G])

\* Cohorts that are decided to the last claim leave the queue.
Some(q) == Kept(q, {c \in ToSet(q) : c.n > 0})

\* Mutant: the newest claims are decided first.
Decided_Newest(q, K) ==
  LET after(i) == Pending(SubSeq(q, i + 1, Len(q)))
      left(i)  == q[i].n - Min({q[i].n, IF K > after(i) THEN K - after(i) ELSE 0})
  IN  Some([i \in DOMAIN q |-> [q[i] EXCEPT !.n = left(i)]])

\* Reviewers decide up to K claims, the oldest first.
Decided(q, K) ==
  LET before(i) == Pending(SubSeq(q, 1, i - 1))
      left(i)   == q[i].n - Min({q[i].n, IF K > before(i) THEN K - before(i) ELSE 0})
  IN  Some([i \in DOMAIN q |-> [q[i] EXCEPT !.n = left(i)]])

\* Without tracking, a claim pending for the deadline passes undecided.
Passed(s, q) ==
  IF s = "tracked" THEN q ELSE Kept(q, {c \in ToSet(q) : it - c.a + 1 < par.deadline})

Interval(G, K) ==
  LET here(s) == Arrived(queue[s], G)
      done(s) == Decided(here(s), K)
      left(s) == Passed(s, done(s))
  IN  /\ it < INTERVALS
      /\ queue' = [s \in Settings |-> left(s)]
      /\ totals' = [s \in Settings |->
                      [decided |-> totals[s].decided + Pending(here(s)) - Pending(done(s)),
                       passed  |-> totals[s].passed + Pending(done(s)) - Pending(left(s))]]
      /\ met' = Append(met, G)
      /\ it' = it + 1
      /\ UNCHANGED par

Next == \E G \in Arrivals, K \in Capacities : Interval(G, K)

Ended == it = INTERVALS

----------------------------------------------------------------------------
(* Properties.                                                             *)

\* Every claim that arrived is decided, passed or pending, and "Reviewers decide
\* the oldest claims first": behind the oldest pending claims all are pending.
ClaimsKept ==
  \A s \in Settings :
    /\ Total(met)
         = totals[s].decided + totals[s].passed + Pending(queue[s])
    /\ \A i \in DOMAIN queue[s] : i > 1 => queue[s][i].n = met[queue[s][i].a + 1]

\* No untracked claim outlives the deadline, and the tracked queue never
\* forgets: its oldest claim is at least as old as the other's.
DeadlineKept ==
  /\ \A i \in DOMAIN queue["untracked"] : it - queue["untracked"][i].a < par.deadline
  /\ queue["untracked"] # << >> =>
       queue["tracked"] # << >> /\ queue["tracked"][1].a <= queue["untracked"][1].a

\* "The visible backlog then stays short while the claims that passed
\* accumulate": letting claims pass never decides more of them, and the column
\* with them on top is never lower than the tracked backlog.
HiddenWork ==
  LET column(s) == Pending(queue[s]) + totals[s].passed
  IN  /\ Pending(queue["untracked"]) <= Pending(queue["tracked"])
      /\ column("tracked") <= column("untracked")
=============================================================================
