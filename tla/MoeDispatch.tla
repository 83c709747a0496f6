----------------------------- MODULE MoeDispatch -----------------------------
(***************************************************************************)
(* Top-k dispatch into expert buffers of fixed capacity: dispatch of       *)
(* src/app/src/figures/moe-dispatch.ts, one assignment per action. The     *)
(* seeded logits are a ranking of the experts per token; gates, the        *)
(* balance term and the drawing are left out.                              *)
(***************************************************************************)
EXTENDS Naturals, Sequences, FiniteSets, FiniteSetsExt, Functions

CONSTANTS Params,  \* what dispatch is called with, see Param
          T, E     \* tokens and experts

VARIABLES par, it,
          filled,  \* expert -> slots taken
          extra,   \* token -> experts it gained by rerouting
          claims   \* what became of each assignment, in order

vars == <<par, it, filled, extra, claims>>

\* rank[t] lists the experts, best first.
Param == [rank: [1 .. T -> {f \in [1 .. E -> 1 .. E] : IsInjective(f)}], k: 1 .. E,
          cap: Nat, policy: {"drop", "reroute"}]

Init == /\ par \in Params /\ it = 0
        /\ filled = [e \in 1 .. E |-> 0]
        /\ extra = [t \in 1 .. T |-> {}]
        /\ claims = << >>

\* Every token's first choice before any second choice.
tok    == (it % T) + 1
rank   == (it \div T) + 1
sel(t) == {par.rank[t][r] : r \in 1 .. par.k}
want   == par.rank[tok][rank]

\* Mutant: the experts a token was rerouted to earlier are forgotten.
taken_Selected == sel(tok)

taken == sel(tok) \cup extra[tok]

\* The place, among the token's preferences, of the best expert with a slot free.
open == {r \in 1 .. E : par.rank[tok][r] \notin taken /\ filled[par.rank[tok][r]] < par.cap}

\* The expert that runs the assignment, 0 when it is dropped.
at == IF filled[want] < par.cap THEN want
      ELSE IF par.policy = "reroute" /\ open # {} THEN par.rank[tok][Min(open)]
      ELSE 0

Assign ==
  /\ it < par.k * T
  /\ claims' = Append(claims, [tok |-> tok, want |-> want, at |-> at,
                               slot |-> IF at = 0 THEN 0 ELSE filled[at]])
  /\ filled' = [e \in 1 .. E |-> filled[e] + (IF e = at THEN 1 ELSE 0)]
  /\ extra' = [t \in 1 .. T |-> extra[t] \cup
                 (IF t = tok /\ at \notin {0, want} THEN {at} ELSE {})]
  /\ it' = it + 1
  /\ UNCHANGED par

Next == Assign

Ended == it = par.k * T

----------------------------------------------------------------------------
(* Properties.                                                             *)

Kept == {i \in DOMAIN claims : claims[i].at # 0}

\* Two assignments never share a slot, and no buffer is over its capacity.
SlotsApart ==
  /\ \A e \in 1 .. E : filled[e] <= par.cap
  /\ \A i, j \in Kept : i # j => <<claims[i].at, claims[i].slot>> # <<claims[j].at, claims[j].slot>>

\* No token is run twice by one expert: what it gets by rerouting is none of
\* those it selected or got before.
ExpertsDistinct ==
  \A i, j \in Kept : i # j /\ claims[i].tok = claims[j].tok => claims[i].at # claims[j].at

\* An assignment is dropped only when there is no slot left for it anywhere its
\* policy allows; so with a slot in every buffer for every token none is.
DroppedWhenFull ==
  \A i \in DOMAIN claims \ Kept :
    /\ filled[claims[i].want] = par.cap /\ par.cap < T
    /\ par.policy = "reroute" =>
         \A e \in 1 .. E : e \in sel(claims[i].tok) \cup extra[claims[i].tok] \/ filled[e] = par.cap
=============================================================================
