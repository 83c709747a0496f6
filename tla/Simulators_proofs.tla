------------------------- MODULE Simulators_proofs --------------------------
(***************************************************************************)
(* The theorems of Simulators, for any workload its figures can be given:  *)
(* its memory is accounted for, its capacity is used, and its schedulers   *)
(* serve.                                                                  *)
(***************************************************************************)
EXTENDS Simulators, KVBlocks_proofs

----------------------------------------------------------------------------
(* The theorems. The figures of CapacityFigures use what they have.         *)

CapacityInv ==
  /\ figure = "slots"   => SlotsInv
  /\ figure = "experts" => ExpertsInv
  /\ figure = "backlog" => BacklogInv

\* CapacityInv holds first.
LEMMA CapacityStart == SomeInit => CapacityInv
BY SlotsStart, ExpertsStart, BacklogStart, ZenonT(40) DEF SomeInit, CapacityInv

\* Every step of any figure keeps CapacityInv.
LEMMA CapacityStep == CapacityInv /\ [SomeNext \/ Rest]_allVars => CapacityInv'
<1> SUFFICES ASSUME CapacityInv, [SomeNext \/ Rest]_allVars PROVE CapacityInv'
  OBVIOUS
<1>1. figure' = figure
  BY ZenonT(40) DEF SomeNext, Rest, allVars
<1>2. CASE UNCHANGED allVars
  <2>1. UNCHANGED <<figure, par, it, s1, s2, s3, s4>>
    BY <1>2, SMTT(30) DEF allVars, spare
  <2> QED BY <2>1, SlotsStay, ExpertsStay, BacklogStay, ZenonT(40) DEF CapacityInv
<1>3. CASE SomeNext
  <2>1. /\ figure = "slots" => Slots!Next
        /\ figure = "experts" => Experts!Next
        /\ figure = "backlog" => Backlog!Next
    BY <1>3, ZenonT(40) DEF SomeNext
  <2> QED BY <1>1, <2>1, SlotsStep, ExpertsStep, BacklogStep, ZenonT(40) DEF CapacityInv
<1> QED BY <1>2, <1>3, Zenon DEF Rest

\* ContinuousBatching, MoeDispatch and ReviewBacklog: slots, expert buffers and
\* reviewers are never overbooked, and never idle while someone they could take
\* waits.
THEOREM CapacityIsUsed == SomeSpec => []CapacityUsed
<1>1. CapacityInv => CapacityUsed
  BY SlotsFacts, BacklogFacts, ZenonT(40) DEF CapacityInv, CapacityUsed, ExpertsInv
<1> QED BY <1>1, CapacityStart, CapacityStep, PTL DEF SomeSpec


----------------------------------------------------------------------------
MemoryInv ==
  /\ figure = "kv"    => KVInv
  /\ figure = "paged" => PagedInv

\* MemoryInv holds first.
LEMMA MemoryStart == SomeInit => MemoryInv
BY KVStart, PagedStart, Zenon DEF SomeInit, MemoryInv

\* Every step of any figure keeps MemoryInv.
LEMMA MemoryStep == MemoryInv /\ [SomeNext \/ Rest]_allVars => MemoryInv'
<1> SUFFICES ASSUME MemoryInv, [SomeNext \/ Rest]_allVars PROVE MemoryInv'
  OBVIOUS
<1>1. figure' = figure
  BY Zenon DEF SomeNext, Rest, allVars
<1>2. CASE UNCHANGED allVars
  <2>1. UNCHANGED vars /\ UNCHANGED <<par, it, pc, pool, req, waiting, running, admitted, s1>>
    BY <1>2 DEF allVars, spare, requests, kvOnly, vars
  <2> QED BY <2>1, <1>1, KVStay, PagedStay, ZenonT(40) DEF MemoryInv
<1>3. CASE SomeNext
  <2>1. /\ figure = "kv"    => Next
        /\ figure = "paged" => Paged!Next
    BY <1>3, ZenonT(40) DEF SomeNext
  <2> QED BY <1>1, <2>1, KVStep, PagedStep, ZenonT(40) DEF MemoryInv
<1> QED BY <1>2, <1>3, Zenon DEF Rest

\* KVBlocks and PagedBatching: memory is accounted for, and no token is lost.
THEOREM MemoryIsKept == SomeSpec => []MemoryHolds
<1>1. MemoryInv => MemoryHolds
  BY KVFacts, PagedFacts, ZenonT(40) DEF MemoryInv, MemoryHolds
<1> QED BY <1>1, MemoryStart, MemoryStep, PTL DEF SomeSpec


----------------------------------------------------------------------------

\* The scheduler's initial state.
LEMMA ServesStart == SomeInit => Serves!Init
<1> SUFFICES ASSUME SomeInit PROVE Serves!Init
  BY SMTT(30)
<1>1. Scheduling => /\ running = << >> /\ admitted = << >>
                    /\ \A r \in Requests : req[r].status = "Future"
  <2>1. CASE figure = "kv"
    <3>1. /\ running = << >> /\ admitted = << >>
          /\ req = [r \in Requests |-> [status |-> "Future", T |-> 0, generated |-> 0,
                     table |-> << >>, pending |-> << >>, hit |-> FALSE, s |-> 0, dq |-> 0]]
      BY <2>1, ZenonT(40) DEF SomeInit, Init
    <3> QED BY <3>1, SMTT(30)
  <2>2. CASE figure = "paged"
    <3>1. /\ running = << >> /\ admitted = << >>
          /\ req = [r \in Requests |-> [status |-> "Future", generated |-> 0,
                                        stored |-> 0, table |-> << >>]]
      BY <2>2, ZenonT(40) DEF SomeInit, Paged!Init, Paged!Requests, Requests
    <3> QED BY <3>1
  <2> QED BY <2>1, <2>2 DEF Scheduling
<1> QED BY <1>1 DEF Serves!Init

\* Every step of any figure is one of the scheduler or none.
LEMMA ServesStep ==
  MemoryInv /\ [SomeNext \/ Rest]_allVars => [Serves!Next]_(Serves!vars)
<1> SUFFICES ASSUME MemoryInv, [SomeNext \/ Rest]_allVars
             PROVE  Serves!Next \/ UNCHANGED Serves!vars
  OBVIOUS
<1>1. figure' = figure
  BY Zenon DEF SomeNext, Rest, allVars
<1>2. CASE UNCHANGED allVars
  <2>1. par' = par /\ running' = running /\ admitted' = admitted /\ req' = req
    BY <1>2, SMTT(30) DEF allVars, requests
  <2>2. Joined' = Joined /\ InPlan' = InPlan /\ Gone' = Gone
    BY <2>1 DEF Joined, InPlan, Gone, Over, Requests
  <2> QED BY <1>1, <2>1, <2>2, ServesStutter
<1>3. CASE SomeNext
  <2>1. /\ figure = "kv"    => Next
        /\ figure = "paged" => Paged!Next
    BY <1>3, Zenon DEF SomeNext
  <2>2. CASE ~Scheduling
    BY <1>1, <2>2 DEF Serves!vars, Scheduling
  <2>3. CASE Scheduling
    BY <1>1, <2>1, <2>3, KVServes, PagedServes, ZenonT(40) DEF MemoryInv, Scheduling
  <2> QED BY <2>2, <2>3
<1> QED BY <1>2, <1>3, Zenon DEF Rest

\* KVBlocks and PagedBatching implement Serving: first come, first served,
\* within the batch, and only the last taken are put back.
THEOREM SchedulersServe == SomeSpec => Schedules
<1>1. MemoryInv /\ [SomeNext \/ Rest]_allVars => [Serves!Next]_(Serves!vars)
  BY ServesStep
<1> QED BY <1>1, ServesStart, MemoryStart, MemoryStep, PTL DEF SomeSpec, Schedules, Serves!Spec
=============================================================================
