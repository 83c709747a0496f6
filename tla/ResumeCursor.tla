---------------------------- MODULE ResumeCursor ----------------------------
(***************************************************************************)
(* Restoring a model and its data cursor to different points: counts and   *)
(* summary of src/app/src/figures/resume-cursor.ts, against the run their  *)
(* formulas stand for, replayed a step per action.                         *)
(***************************************************************************)
EXTENDS Naturals, FiniteSets, FiniteSetsExt

CONSTANT Params  \* what counts is called with, see Param

VARIABLES par, it,
          trained  \* batch -> how often it contributed to the model

vars == <<par, it, trained>>

S      == 12
READER == 12
CKPTS  == {4, 8}
N      == READER + S - Min(CKPTS)

Param == [model: CKPTS, cursor: 0 .. READER]

\* Mutant: the batch at the cursor is read again.
last_Cursor == par.cursor + S - par.model - 1

last == par.cursor + S - par.model
counts == [k \in 1 .. N |-> (IF k <= par.model THEN 1 ELSE 0)
                             + (IF par.cursor < k /\ k <= last THEN 1 ELSE 0)]
skipped == {k \in 1 .. N : counts[k] = 0 /\ k <= Max({par.cursor, par.model})}
doubled == {k \in 1 .. N : counts[k] = 2}
ok == skipped = {} /\ doubled = {}

\* The restored model has the batches of its steps; it is the optimizer step.
Init == /\ par \in Params
        /\ it = par.model
        /\ trained = [k \in 1 .. N |-> IF k <= par.model THEN 1 ELSE 0]

\* Each further step trains on the batch after the cursor.
Next == /\ it < S
        /\ trained' = [trained EXCEPT ![par.cursor + (it - par.model) + 1] = @ + 1]
        /\ it' = it + 1
        /\ UNCHANGED par

Over == it = S

----------------------------------------------------------------------------
(* Properties.                                                             *)

\* The counts are those of the replay, "c = m gives every batch exactly once",
\* and the lists of batches skipped and doubled are told exactly.
CountsReplay ==
  Over =>
    /\ counts = trained
    /\ ok <=> par.cursor = par.model
    /\ \A k \in 1 .. last : trained[k] = 1 + (IF k \in doubled THEN 1 ELSE 0)
                                             - (IF k \in skipped THEN 1 ELSE 0)
    /\ {k \in 1 .. N : trained[k] > 0} \subseteq 1 .. Max({last, par.model})
=============================================================================
