------------------------- MODULE ContinuousBatching -------------------------
(***************************************************************************)
(* Static and iteration-level batching on one trace of requests: simulate  *)
(* of app/src/figures/continuous-batching.ts.  The two policies run side   *)
(* by side, one step of model time at a time, so that they can be          *)
(* compared; in the source they run one after the other on the same        *)
(* requests.  Metrics over reals and the drawing are left out.             *)
(***************************************************************************)
EXTENDS Integers, Sequences, FiniteSets, SequencesExt, FiniteSetsExt, Lists

CONSTANTS Params   \* what simulate is called with, see Param

VARIABLES par, it,
          start,      \* by policy and request: the step it is admitted at, or -1
          queue,      \* by policy: arrived and not admitted
          occupant,   \* iteration-level: by slot, the request or 0
          cohortEnd   \* static: the last step of the cohort, -1 at first

vars == <<par, it, start, queue, occupant, cohortEnd>>

\* trace makes the requests in order of arrival, each with an output.
InOrder(specs) == \A i, j \in DOMAIN specs : i < j => specs[i].arrival <= specs[j].arrival
Param == {p \in [specs: Seq([arrival: Nat, out: Nat \ {0}]), slots: Nat \ {0}] : InOrder(p.specs)}

Policies == {"static", "iteration"}
Requests == DOMAIN par.specs
Slots    == 1 .. par.slots

\* The step a request admitted at s emits its last token.
FinishAt(r, s) == s + par.specs[r].out - 1
Finish(policy, r) == IF start[policy][r] = -1 THEN -1 ELSE FinishAt(r, start[policy][r])

Init ==
  /\ par \in Params
  /\ it = 0
  /\ start = [policy \in Policies |-> [r \in Requests |-> -1]]
  /\ queue = [policy \in Policies |-> << >>]
  /\ occupant = [j \in Slots |-> 0]
  /\ cohortEnd = -1

Arriving == Kept([r \in Requests |-> r], {r \in Requests : par.specs[r].arrival = it})
Queued(policy) == queue[policy] \o Arriving

Smaller(m, n) == IF m < n THEN m ELSE n

\* Static: the next cohort, once the longest request of the last is done.
Cohort ==
  IF it > cohortEnd THEN SubSeq(Queued("static"), 1,
                                Smaller(par.slots, Len(Queued("static"))))
  ELSE << >>

\* Mutant: a slot is free in the step its request still emits in.
Vacant_Early == {j \in Slots : occupant[j] = 0 \/ Finish("iteration", occupant[j]) <= it}

\* Iteration-level: slots whose request finished before this step.
Vacant == {j \in Slots : occupant[j] = 0 \/ Finish("iteration", occupant[j]) < it}

\* Who takes slot j: the waiting take the vacant slots in order.
Rank(j) == Cardinality({i \in Vacant : i <= j})
Taker(j) == IF j \in Vacant
              THEN IF Rank(j) <= Len(Queued("iteration")) THEN Queued("iteration")[Rank(j)] ELSE 0
              ELSE occupant[j]
Joining == SubSeq(Queued("iteration"), 1, Smaller(Cardinality(Vacant), Len(Queued("iteration"))))

Admitted == [policy \in Policies |-> IF policy = "static" THEN Cohort ELSE Joining]

Done(policy, at) == \A r \in Requests : start[policy][r] # -1 /\ Finish(policy, r) < at

\* One step of both simulations; a simulation that is done stays as it is.
Step ==
  /\ \E policy \in Policies : ~Done(policy, it)
  /\ start' = [policy \in Policies |-> [r \in Requests |->
                 IF r \in ToSet(Admitted[policy]) THEN it ELSE start[policy][r]]]
  /\ queue' = [policy \in Policies |->
                 SubSeq(Queued(policy), Len(Admitted[policy]) + 1, Len(Queued(policy)))]
  /\ occupant' = [j \in Slots |-> Taker(j)]
  /\ cohortEnd' = IF Cohort = << >> THEN cohortEnd
                  ELSE Max({FinishAt(r, it) : r \in ToSet(Cohort)})
  /\ it' = it + 1
  /\ UNCHANGED par

Next == Step
Spec == Init /\ [][Next]_vars /\ WF_vars(Next)

----------------------------------------------------------------------------
(* Properties.                                                             *)

Busy(policy, at) ==
  {r \in Requests : start[policy][r] # -1 /\ start[policy][r] <= at /\ at <= Finish(policy, r)}

\* The last step simulated.
Now == it - 1

\* Under both policies a step emits tokens for at most as many requests as
\* there are slots; under iteration-level scheduling a slot is idle only when
\* nobody waits, and every slot emits for its own request.
SlotsHeld ==
  it > 0 =>
    /\ \A policy \in Policies : Cardinality(Busy(policy, Now)) <= par.slots
    /\ Cardinality(Busy("iteration", Now)) < par.slots => queue["iteration"] = << >>
    /\ \A r \in Busy("iteration", Now) :
         Cardinality({j \in Slots : occupant[j] = r}) = 1

\* Requests are admitted first come, first served under both policies.
ServedInOrder ==
  \A policy \in Policies, r, q \in Requests :
    (r < q /\ start[policy][q] # -1) =>
      (start[policy][r] # -1 /\ start[policy][r] <= start[policy][q])

\* What the figure is drawn to show: on every trace, with any number of slots, no request
\* waits longer for its first token, or for its last, than it would under
\* static batching.
NeverLater ==
  \A r \in Requests : start["static"][r] # -1 =>
    start["iteration"][r] # -1 /\ start["iteration"][r] <= start["static"][r]

Ended   == \A policy \in Policies : Done(policy, it)
=============================================================================
