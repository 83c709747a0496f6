----------------------------- MODULE Simulators -----------------------------
(***************************************************************************)
(* The figures of app/src/figures that simulate a system, side by side: a  *)
(* behaviour is of one figure, and the variables of the others stay as     *)
(* they are.                                                               *)
(***************************************************************************)
EXTENDS CapacityFigures, TLC

CONSTANTS PipelineParams, RolloutParams, LeaseParams, CursorParams,
          SessionParams, TurnParams, SearchParams

Figures == {"kv", "paged", "slots", "pipeline", "rollout", "experts", "backlog",
            "crash", "lease", "lifecycle", "cursor", "context", "turns", "search"}

Pipeline == INSTANCE PipelineSchedule WITH Params <- PipelineParams, R <- 2,
              ops <- s1, dev <- s2, progress <- s3, ended <- s4
Rollout == INSTANCE RolloutSchedule WITH Params <- RolloutParams, B <- 2, T_UPDATE <- 3,
             T_RESHARD <- 1, T_SEND <- 2, Horizon <- 40,
             learner <- s1, rollout <- s2, upds <- s3, useful <- s4
Effect == INSTANCE EffectCrash WITH played <- s1, journal <- s2, tickets <- s3
Lease  == INSTANCE LeaseFencing WITH Params <- LeaseParams, now <- s1
Lifecycle == INSTANCE RunLifecycle WITH Params <- {"fault", "exhausted", "cancel"}, shown <- s1
Cursor == INSTANCE ResumeCursor WITH Params <- CursorParams, trained <- s1
Session == INSTANCE ContextCompaction WITH Params <- SessionParams, call <- it,
             memory <- s1, outcome <- s2, sent <- s3, tokens <- s4
Turns == INSTANCE AgentTurnLoop WITH Params <- TurnParams,
           ctx <- s1, used <- s2, log <- s3, exit <- s4
Search == INSTANCE TreeSearch WITH Params <- SearchParams, DEPTH <- 3,
            frontier <- s1, at <- s2, waiting <- s3, leaves <- s4, told <- s5

ASSUME ProtocolAssumption == /\ \A p \in LeaseParams : p \in Lease!Param
                             /\ \A p \in CursorParams : p \in Cursor!Param

kvOnly   == <<prefix, failed>>
requests == <<pc, pool, req, waiting, running, admitted>>
spare    == <<s1, s2, s3, s4, s5>>
allVars  == <<figure, par, it, requests, kvOnly, spare>>

\* What the variables a figure has no use for are.
Spare5 == s5 = 0
Spare4 == s4 = 0 /\ Spare5
Spare3 == s3 = 0 /\ Spare4
Spare2 == s2 = 0 /\ Spare3
Spare1 == s1 = 0 /\ Spare2
NoRequests == /\ pc = 0 /\ pool = 0 /\ req = 0 /\ waiting = 0 /\ running = 0 /\ admitted = 0

SomeInit ==
  /\ \/ figure = "kv"        /\ Init           /\ Spare1
     \/ figure = "paged"     /\ Paged!Init     /\ Spare2
     \/ figure = "slots"     /\ Slots!Init     /\ Spare5
     \/ figure = "pipeline"  /\ Pipeline!Init  /\ Spare5 /\ it = 0
     \/ figure = "rollout"   /\ Rollout!Init   /\ Spare5
     \/ figure = "experts"   /\ Experts!Init   /\ Spare4
     \/ figure = "backlog"   /\ Backlog!Init   /\ Spare4
     \/ figure = "crash"     /\ Effect!Init    /\ Spare4 /\ it = 0
     \/ figure = "lease"     /\ Lease!Init     /\ Spare2 /\ it = 0
     \/ figure = "lifecycle" /\ Lifecycle!Init /\ Spare2
     \/ figure = "cursor"    /\ Cursor!Init    /\ Spare2
     \/ figure = "context"   /\ Session!Init   /\ Spare5
     \/ figure = "turns"     /\ Turns!Init     /\ Spare5
     \/ figure = "search"    /\ Search!Init
  /\ figure \notin {"kv", "paged"} => NoRequests
  /\ figure # "kv" => prefix = 0 /\ failed = 0

SomeNext ==
  /\ \/ figure = "kv"        /\ Next           /\ UNCHANGED spare
     \/ figure = "paged"     /\ Paged!Next     /\ UNCHANGED <<kvOnly, s2, s3, s4, s5>>
     \/ figure = "slots"     /\ Slots!Next     /\ UNCHANGED <<requests, kvOnly, s5>>
     \/ figure = "pipeline"  /\ Pipeline!Next  /\ UNCHANGED <<it, requests, kvOnly, s5>>
     \/ figure = "rollout"   /\ Rollout!Next   /\ UNCHANGED <<requests, kvOnly, s5>>
     \/ figure = "experts"   /\ Experts!Next   /\ UNCHANGED <<requests, kvOnly, s4, s5>>
     \/ figure = "backlog"   /\ Backlog!Next   /\ UNCHANGED <<requests, kvOnly, s4, s5>>
     \/ figure = "crash"     /\ Effect!Next    /\ UNCHANGED <<it, requests, kvOnly, s4, s5>>
     \/ figure = "lease"     /\ Lease!Next     /\ UNCHANGED <<it, requests, kvOnly, s2, s3, s4, s5>>
     \/ figure = "lifecycle" /\ Lifecycle!Next /\ UNCHANGED <<requests, kvOnly, s2, s3, s4, s5>>
     \/ figure = "cursor"    /\ Cursor!Next    /\ UNCHANGED <<requests, kvOnly, s2, s3, s4, s5>>
     \/ figure = "context"   /\ Session!Next   /\ UNCHANGED <<requests, kvOnly, s5>>
     \/ figure = "turns"     /\ Turns!Next     /\ UNCHANGED <<requests, kvOnly, s5>>
     \/ figure = "search"    /\ Search!Next    /\ UNCHANGED <<requests, kvOnly>>
  /\ UNCHANGED figure

Halted == CASE figure = "kv"        -> Stopped
            [] figure = "paged"     -> Paged!Ended
            [] figure = "slots"     -> Slots!Ended
            [] figure = "pipeline"  -> s4
            [] figure = "rollout"   -> Rollout!Ended
            [] figure = "experts"   -> Experts!Ended
            [] figure = "backlog"   -> Backlog!Ended
            [] figure = "crash"     -> Effect!Over
            [] figure = "lease"     -> Lease!Over
            [] figure = "lifecycle" -> Lifecycle!Over
            [] figure = "cursor"    -> Cursor!Over
            [] figure = "context"   -> Session!Ended
            [] figure = "turns"     -> Turns!Ended
            [] figure = "search"    -> Search!Ended

\* A simulation that is over stays so; TLC reports any other that stops as a
\* deadlock.
Rest == Halted /\ UNCHANGED allVars

\* A simulation goes on until it is over: weak fairness of its step,
\* with the condition that enables the step spelled out.
Loops == []<>Halted \/ []<><<SomeNext>>_allVars

SomeSpec == SomeInit /\ [][SomeNext \/ Rest]_allVars /\ Loops

----------------------------------------------------------------------------
(* The properties of the figures, each for its own behaviours.             *)

\* PipelineSchedule: no schedule waits for itself, its idle time is the bubble
\* the chapter derives, and no device holds more than its warm-up and one more.
\* RolloutSchedule: every trajectory is trained once, under the barrier by the
\* version that sampled it and otherwise within the bound but for what overtook
\* it, and the learner and the slots never wait for each other.
DevicesScheduled ==
  /\ figure = "pipeline" => Pipeline!NoDeadlock /\ Pipeline!BubbleAsDerived /\ Pipeline!PeakHeld
  /\ figure = "rollout"  => /\ Rollout!TrajectoriesKept /\ Rollout!OnPolicy /\ Rollout!LagBound
                            /\ Rollout!NeverStalled /\ Rollout!PoolsNotOverbooked

\* EffectCrash, LeaseFencing, RunLifecycle and ResumeCursor: what the figure
\* tells of the end is what the messages or steps it shows lead to; an effect
\* happens once under a policy that can ensure it, an older owner of a lease or
\* worker of a run never has the last word, and a run takes the diagram's edges.
ProtocolsTold ==
  /\ figure = "crash" => Effect!AnswersTrue /\ Effect!EndTold /\ Effect!EffectOnce
  /\ figure = "lease" => /\ Lease!LeaseKept /\ Lease!Fenced
                         /\ Lease!OutcomeTold /\ Lease!RunFits
  /\ figure = "lifecycle" => Lifecycle!EdgesTaken /\ Lifecycle!TokensFence /\ Lifecycle!RecordTold
  /\ figure = "cursor" => Cursor!CountsReplay

\* ContextCompaction, AgentTurnLoop and TreeSearch: an agent never exceeds its
\* window, its actions or its nodes, and what it reports as kept, lost, fetched
\* or found is what became of it.
BudgetsKept ==
  /\ figure = "context" => /\ Session!NeverOver /\ Session!FactsTrue
                           /\ Session!NothingLost /\ Session!CacheFollows
  /\ figure = "turns"   => Turns!ContextFits /\ Turns!StopTold /\ Turns!LogHolds
  /\ figure = "search"  => /\ Search!WithinBudget /\ Search!LossTold
                           /\ Search!ChoiceChecked /\ Search!ReplayAgrees

\* Every simulation ends with every request served, never because its
\* iterations ran out, and with its pool empty but for the cached prompt.
AllDrain ==
  <>(/\ Halted
     /\ figure = "kv" => Drained
     /\ figure = "paged" => Paged!Drained)
=============================================================================
