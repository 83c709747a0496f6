-------------------------- MODULE CapacityFigures --------------------------
(***************************************************************************)
(* The figures of app/src/figures that schedule work under a limit, of     *)
(* memory (KVBlocks, PagedBatching) or of slots, expert buffers and        *)
(* reviewers (ContinuousBatching, MoeDispatch, ReviewBacklog), side by     *)
(* side: a behaviour is of one figure.  What they are run on are           *)
(* constants, so that what is proved of a figure is proved for every       *)
(* workload it can be given.                                               *)
(***************************************************************************)
EXTENDS KVBlocks

CONSTANTS PagedParams, MAX_NEW, MAX_BATCH, Horizon

VARIABLES figure,             \* which figure the behaviour is of
          s1, s2, s3, s4, s5  \* what the figure at hand keeps besides par and it

Paged == INSTANCE PagedBatching WITH Params <- PagedParams, at <- s1

ASSUME MemoryAssumption ==
  /\ MAX_NEW \in Nat /\ MAX_BATCH \in Nat /\ Horizon \in Nat
  /\ \A p \in PagedParams : p \in Paged!Param

\* KVBlocks and PagedBatching: through every eviction, preemption, roll-back,
\* cancellation and release the free list, the reservations and the reference
\* counts agree with the block tables, a block in two tables is a full block of
\* the cached prompt, no token is lost, and tables hold what was stored.
MemoryHolds ==
  /\ figure = "kv"    => Accounted /\ SharedBlocksFull /\ TokensHeld /\ PlanFeasible
  /\ figure = "paged" => Paged!PoolShared /\ Paged!StoredFits

\* The figures that schedule requests.
Scheduling == figure \in {"kv", "paged"}

Serves == INSTANCE Serving WITH
  arrival <- IF ~Scheduling THEN << >> ELSE [r \in Requests |-> par.specs[r].arrival],
  slots   <- CASE figure = "kv" -> Len(par.specs) [] figure = "paged" -> MAX_BATCH [] OTHER -> 0,
  joined  <- IF ~Scheduling THEN {} ELSE {r \in Requests : req[r].status # "Future"},
  batch   <- IF ~Scheduling THEN << >> ELSE running \o admitted,
  over    <- IF ~Scheduling THEN {}
             ELSE {r \in Requests : req[r].status \in {"Finished", "Canceled"}}

\* KVBlocks and PagedBatching implement what a scheduler promises: first come,
\* first served, within the batch, and only the last taken are put back.
Schedules == Serves!Spec

----------------------------------------------------------------------------
(* Slots, expert buffers and reviewers.                                    *)

CONSTANTS SlotParams, ExpertParams, TOKENS, EXPERTS,
          BacklogParams, Arrivals, Capacities, INTERVALS

Slots == INSTANCE ContinuousBatching WITH Params <- SlotParams,
           start <- s1, queue <- s2, occupant <- s3, cohortEnd <- s4
Experts == INSTANCE MoeDispatch WITH Params <- ExpertParams, T <- TOKENS, E <- EXPERTS,
             filled <- s1, extra <- s2, claims <- s3
Backlog == INSTANCE ReviewBacklog WITH Params <- BacklogParams,
             queue <- s1, totals <- s2, met <- s3

ASSUME BatchingAssumption == \A p \in SlotParams : p \in Slots!Param

ASSUME DispatchAssumption == /\ TOKENS \in Nat \ {0} /\ EXPERTS \in Nat \ {0}
                             /\ \A p \in ExpertParams : p \in Experts!Param

ASSUME BacklogAssumption == /\ INTERVALS \in Nat
                            /\ \A n \in Arrivals \cup Capacities : n \in Nat
                            /\ \A p \in BacklogParams : p \in Backlog!Param

\* ContinuousBatching, MoeDispatch and ReviewBacklog: slots, expert buffers and
\* reviewers are never overbooked and never idle while someone they could take
\* waits; no request is later than under static batching, an assignment is dropped
\* only with every place for it full, and letting claims pass hides no work.
CapacityUsed ==
  /\ figure = "slots"   => Slots!SlotsHeld /\ Slots!ServedInOrder /\ Slots!NeverLater
  /\ figure = "experts" => Experts!SlotsApart /\ Experts!ExpertsDistinct /\ Experts!DroppedWhenFull
  /\ figure = "backlog" => Backlog!ClaimsKept /\ Backlog!DeadlineKept /\ Backlog!HiddenWork
=============================================================================
