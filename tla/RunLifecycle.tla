---------------------------- MODULE RunLifecycle ----------------------------
(***************************************************************************)
(* A training run walked through the control plane's state machine: frames *)
(* of src/app/src/figures/run-lifecycle.ts, a frame per action, and the    *)
(* edges of its diagram, by which the walk is judged.                      *)
(***************************************************************************)
EXTENDS Naturals, Sequences, FiniteSets, SequencesExt, TLC

CONSTANT Params  \* scenarios

VARIABLES par, it,
          shown  \* the frame: the transition just taken and the record after it

vars == <<par, it, shown>>

RETRIES == 3
Live    == {"pending", "starting", "running", "checkpointing", "recovering"}

\* What a frame changes of the one before it; a rejected write, by its token, is
\* of its own frame only.
Push(f, d) == d @@ [token |-> 0] @@ f

Created == [edge |-> "create", state |-> "none", gen |-> 0, revoked |-> FALSE, workers |-> "none",
            step |-> 0, ckpt |-> 0, ckptGen |-> 0, failures |-> 0, attempts |-> 0,
            token |-> 0, result |-> "none"]

Opening == << [edge |-> "reconcile", state |-> "pending"],
              [edge |-> "capacity", state |-> "starting", gen |-> 1, workers |-> "join"],
              [edge |-> "healthy", state |-> "running", workers |-> "all"],
              [edge |-> "save", state |-> "checkpointing", step |-> 1000],
              [edge |-> "commit", state |-> "running", ckpt |-> 1000, ckptGen |-> 1] >>
Cancellation == << [edge |-> "cancel", state |-> "canceled", step |-> 1400, revoked |-> TRUE,
                    workers |-> "stop", result |-> "canceled"],
                   [edge |-> "none", token |-> 1],
                   [edge |-> "none", workers |-> "none"] >>
\* Mutant: the fault leaves the generation as it is.
Fault_SameToken == << [edge |-> "fault", state |-> "recovering", step |-> 1400, failures |-> 1,
                       workers |-> "lost"],
                      [edge |-> "newgen", state |-> "starting", workers |-> "join"] >>

Fault == << [edge |-> "fault", state |-> "recovering", step |-> 1400, gen |-> 2, failures |-> 1,
             workers |-> "lost"],
            [edge |-> "newgen", state |-> "starting", workers |-> "join"] >>
Resumption == << [edge |-> "none", token |-> 1],
                 [edge |-> "healthy", state |-> "running", workers |-> "all", step |-> 1000],
                 [edge |-> "save", state |-> "checkpointing", step |-> 2000],
                 [edge |-> "commit", state |-> "running", ckpt |-> 2000, ckptGen |-> 2],
                 [edge |-> "stop", state |-> "succeeded", step |-> 2500, workers |-> "none",
                  result |-> "succeeded"] >>
Exhaustion == [a \in 1 .. RETRIES |-> [edge |-> "none", attempts |-> a, failures |-> 1 + a]]
              \o << [edge |-> "exhausted", state |-> "failed", workers |-> "none", result |-> "failed"] >>

Frames == Opening \o (CASE par = "cancel"    -> Cancellation
                        [] par = "fault"     -> Fault \o Resumption
                        [] par = "exhausted" -> Fault \o Exhaustion)

Init == par \in Params /\ it = 0 /\ shown = Created

Next == /\ it < Len(Frames)
        /\ shown' = Push(shown, Frames[it + 1])
        /\ it' = it + 1
        /\ UNCHANGED par

Over == it = Len(Frames)

\* The diagram: where an edge leads from and to; any live state can be canceled.
Edges == [create |-> {<<"none", "none">>}, reconcile |-> {<<"none", "pending">>},
          capacity |-> {<<"pending", "starting">>}, healthy |-> {<<"starting", "running">>},
          save |-> {<<"running", "checkpointing">>}, commit |-> {<<"checkpointing", "running">>},
          fault |-> {<<"running", "recovering">>}, newgen |-> {<<"recovering", "starting">>},
          exhausted |-> {<<"starting", "failed">>}, stop |-> {<<"running", "succeeded">>},
          cancel |-> Live \X {"canceled"}, none |-> {}]

----------------------------------------------------------------------------
(* Properties, of the frame on show and the one before it.                 *)

before == IF it = 0 THEN Created
          ELSE FoldLeft(Push, Created, SubSeq(Frames, 1, it - 1))

\* A frame takes the edge it lights up, or stays where it is.
EdgesTaken ==
  <<before.state, shown.state>> \in Edges[shown.edge]
    \/ (shown.edge = "none" /\ before.state = shown.state)

\* "Admission and every recovery advance it, cancellation revokes it, and a write
\* is accepted only when its token equals the record's generation".
TokensFence ==
  /\ shown.gen = before.gen + (IF it > 0 /\ shown.edge \in {"capacity", "fault"} THEN 1 ELSE 0)
  /\ shown.revoked <=> shown.state = "canceled"
  /\ shown.edge = "commit" => shown.ckpt = shown.step /\ shown.ckptGen = shown.gen
  /\ shown.token # 0 => shown.token # shown.gen \/ shown.revoked

\* Progress goes back only to the checkpoint a new generation resumes from, and
\* a run that has ended names its result and leaves no worker.
RecordTold ==
  /\ shown.step < before.step => shown.edge = "healthy" /\ shown.step = shown.ckpt
  /\ shown.ckpt <= shown.step
  /\ shown.state \in {"succeeded", "failed", "canceled"} <=> shown.result # "none"
  /\ Over => shown.result = shown.state /\ shown.workers = "none"
=============================================================================
