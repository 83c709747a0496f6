---------------------------- MODULE MCSimulators ----------------------------
(***************************************************************************)
(* The workloads the figures that simulate a system are checked on: every  *)
(* setting of a figure's controls where that is a small set, short traces  *)
(* and small pools elsewhere.                                              *)
(***************************************************************************)
EXTENDS Simulators

----------------------------------------------------------------------------
(* The workloads.                                                          *)

Asks(arrival, sys, prompt, out) ==
  [arrival |-> arrival, sys |-> sys, prompt |-> prompt, out |-> out]

\* The workload of the life of KV blocks, with its two orders in which R1 and
\* R2 finish.
Workload(r1First) == << Asks(1, TRUE, Sys + 3, IF r1First THEN 3 ELSE 8),
                        Asks(2, TRUE, Sys + 6, IF r1First THEN 6 ELSE 2),
                        Asks(3, TRUE, Sys + 1, 5),
                        Asks(4, FALSE, 10, 6),
                        Asks(9, FALSE, 26, 4) >>

\* The events the figure's controls offer, an iteration that fails and a request
\* that is canceled late besides the source's own (2 and 3).
Faults == {[kind |-> "none", at |-> 0]}
          \cup [kind: {"fail"}, at: {2, 9}]
          \cup [kind: {"cancel"}, at: {3, 5}]

\* Every capacity, order and event.
FigureControls == [specs: {Workload(o) : o \in BOOLEAN}, N: 8 .. 14, fault: Faults]

\* Traces of n requests in order of arrival.
Traces(n, Reqs) ==
  {s \in [1 .. n -> Reqs] : \A i \in 1 .. n - 1 : s[i].arrival <= s[i + 1].arrival}

\* Short traces over pools that just hold one request, or two.
ShortTraces == Traces(4, [arrival: {0, 1}, prompt: {1, 4}, out: {2, 4}])
PagedWorkloads ==
  [specs: ShortTraces, mode: {"paged"}, B: {2}, N: {4, 5}]
  \cup [specs: ShortTraces, mode: {"contiguous"}, B: {2}, N: {4, 7}]

SlotWorkloads == [specs: Traces(4, [arrival: {0, 1, 3}, out: {1, 2, 4}]), slots: {1, 2, 3}]

\* The three schedules, on an even and an odd number of devices, with fewer and
\* more micro-batches than devices.
PipelineWorkloads ==
  [kind: {"gpipe", "1f1b"}, v: {1}, p: {2, 4}, m: {1, 2, 5}]
    \cup [kind: {"int"}, v: {2, 4}, p: {2}, m: {1, 5}]
    \cup [kind: {"int"}, v: {2}, p: {3}, m: {2, 5}]

\* All that the controls of the figure allow.
LeaseControls == [receiver: {"none", "unchecked", "checked"},
                  pause: {2 * s : s \in 0 .. 20}, ttl: {2 * s : s \in 3 .. 14}]

\* The three policies over thresholds and windows of the controls, with the
\* smallest and the largest output reserve.
SessionControls == [policy: {"truncate", "summary", "checkpoint"},
                    threshold: {50, 65, 80, 90, 100}, reserve: {2000, 16000},
                    window: {48000, 56000, 64000, 96000, 128000, 200000}]

\* Eight trajectories, each quick or with a tool call that outlasts two updates.
Env(n)    == [kind |-> "env", dur |-> n]
Decode(n) == [kind |-> "decode", dur |-> n]
Quick     == << Env(1), Decode(2), Env(1) >>
Slow      == << Env(1), Decode(1), Env(14), Decode(2), Env(1) >>
RolloutWorkloads == [placement: {"shared", "separate"}, sync: {"sync", "async"},
                     specs: [1 .. 8 -> {Quick, Slow}]]

\* Every ranking of three experts by three tokens, of capacities from one to one
\* for every token.
Rankings == {[r \in 1 .. 3 |-> p[r]] : p \in Permutations(1 .. 3)}
ExpertWorkloads == [rank: [1 .. 3 -> Rankings], k: {1, 2}, cap: 1 .. 3, policy: {"drop", "reroute"}]

\* Trees of depth 3 with a solution or two, scored with and without ties, at
\* every budget.
SearchControls == [score: {[i \in 0 .. 14 |-> (a * i) % m] : a \in {1, 2, 3}, m \in {5, 7}},
                   solutions: {{i, j} : i, j \in 7 .. 14}, policy: {"beam", "best"},
                   budget: {7, 9, 11, 13, 15}, choice: {"score", "check"}]

\* Deadlines, and what may arrive and be decided in an interval.
BacklogControls == [deadline: 1 .. 3]
BacklogArrivals == 0 .. 2
BacklogCapacities == {0, 1, 3}

CursorControls == [model: {4, 8}, cursor: 0 .. 12]

TurnControls == [catalog: {"flat", "phases"}, budget: 3 .. 10]
=============================================================================
