-------------------------- MODULE RolloutSchedule --------------------------
(***************************************************************************)
(* Where rollout and learning run and when the learner waits for data:     *)
(* simulate of src/app/src/figures/rl-rollout-schedule.ts. A step of model *)
(* time is an action; durations are in steps. Of what a trajectory decodes *)
(* the model keeps the versions that sampled it; the drawn segments, gaps  *)
(* and blocks and the seconds spent in each part are left out.             *)
(***************************************************************************)
EXTENDS Naturals, Sequences, FiniteSets, SequencesExt, FiniteSetsExt

CONSTANTS Params,                       \* [placement, sync, specs]
          B,                            \* slots, and trajectories of an update
          T_UPDATE, T_RESHARD, T_SEND,  \* how long the learner's phases take, all > 0
          Horizon                       \* H: steps simulated

VARIABLES par, it,
          learner,  \* [phase, until, published]
          rollout,  \* [started, slot, sampled, buffer]
          upds,     \* the updates: [k, trajs]
          useful    \* GPU steps spent decoding or training, of B per pool

vars == <<par, it, learner, rollout, upds, useful>>

\* A trace is what each trajectory does: [kind, dur], kind "env" or "decode".
shared == par.placement = "shared"
eta    == IF par.sync = "sync" THEN 0 ELSE 1
resting == IF shared THEN "gen" ELSE "idle"

Vacant == [traj |-> 0, seg |-> 0, left |-> 0]

Init == /\ par \in Params /\ it = 0
        /\ learner = [phase |-> resting, until |-> 0, published |-> 0]
        /\ rollout = [started |-> 0, slot |-> [b \in 1 .. B |-> Vacant],
                      sampled |-> [n \in DOMAIN par.specs |-> {}], buffer |-> << >>]
        /\ upds = << >> /\ useful = 0

\* block: a phase of the learner with its end.
block(l, phase, dur) == [l EXCEPT !.phase = phase, !.until = it + dur]

\* 1. The phase due, and the version published when the last one ends.
Due == IF learner.phase = resting \/ learner.until > it THEN learner
       ELSE CASE learner.phase = "reshard1"         -> block(learner, "train", T_UPDATE)
              [] learner.phase = "train" /\ shared  -> block(learner, "reshard2", T_RESHARD)
              [] learner.phase = "train" /\ ~shared -> block(learner, "send", T_SEND)
              [] OTHER -> [learner EXCEPT !.phase = resting, !.published = @ + 1]

\* 2. The learner takes the first B finished trajectories.
Takes == Due.phase = resting /\ Len(rollout.buffer) >= B
Learning == IF ~Takes THEN Due
            ELSE IF shared THEN block(Due, "reshard1", T_RESHARD)
            ELSE block(Due, "train", T_UPDATE)

\* Mutant: one batch further ahead.
Limit_Ahead == Min({(Due.published + 2 + eta) * B, Len(par.specs)})

\* 3. Free slots start the next trajectories the bound admits.
Limit == Min({(Due.published + 1 + eta) * B, Len(par.specs)})
Free  == {b \in 1 .. B : rollout.slot[b] = Vacant}
Nth(b) == rollout.started + Cardinality({c \in Free : c <= b})
Started == {b \in Free : Nth(b) <= Limit}
Filled == [b \in 1 .. B |->
             IF b \in Started
             THEN [traj |-> Nth(b), seg |-> 1, left |-> par.specs[Nth(b)][1].dur]
             ELSE rollout.slot[b]]

\* 4. Decoding needs the pool in the rollout layout; the environment runs on.
Moved(slot, decodeOn) ==
  {b \in 1 .. B : slot[b] # Vacant
                  /\ (decodeOn \/ par.specs[slot[b].traj][slot[b].seg].kind = "env")}

Advanced(s) ==
  LET segs == par.specs[s.traj]
  IN  IF s.left > 1 THEN [s EXCEPT !.left = @ - 1]
      ELSE IF s.seg = Len(segs) THEN Vacant
      ELSE [s EXCEPT !.seg = @ + 1, !.left = segs[s.seg + 1].dur]

Step ==
  LET slot     == Filled
      moved    == Moved(slot, ~shared \/ Learning.phase = "gen")
      decoding == {slot[b].traj : b \in {c \in moved : par.specs[slot[c].traj][slot[c].seg].kind = "decode"}}
      finished == {b \in moved : Advanced(slot[b]) = Vacant}
      inOrder  == SelectSeq([b \in 1 .. B |-> IF b \in finished THEN slot[b].traj ELSE 0],
                            LAMBDA n : n # 0)
      left     == IF Takes THEN SubSeq(rollout.buffer, B + 1, Len(rollout.buffer)) ELSE rollout.buffer
  IN  /\ learner' = Learning
      /\ rollout' = [started |-> rollout.started + Cardinality(Started),
                     slot    |-> [b \in 1 .. B |-> IF b \in moved THEN Advanced(slot[b]) ELSE slot[b]],
                     sampled |-> [n \in DOMAIN par.specs |->
                                    rollout.sampled[n] \cup
                                      (IF n \in decoding THEN {Due.published} ELSE {})],
                     buffer  |-> left \o inOrder]
      /\ upds' = IF Takes THEN Append(upds, [k |-> Due.published, trajs |-> SubSeq(rollout.buffer, 1, B)])
                 ELSE upds
      /\ useful' = useful + Cardinality(decoding) + (IF Learning.phase = "train" THEN B ELSE 0)

Next == it < Horizon /\ Step /\ it' = it + 1 /\ UNCHANGED par

Ended == it = Horizon

----------------------------------------------------------------------------
(* Properties.                                                             *)

Running == {rollout.slot[b].traj : b \in 1 .. B} \ {0}
Trained(u) == ToSet(upds[u].trajs)

\* Every trajectory started runs, waits for the learner or was trained, once.
TrajectoriesKept ==
  LET trained == UNION {Trained(u) : u \in DOMAIN upds}
  IN  /\ 1 .. rollout.started = Running \cup ToSet(rollout.buffer) \cup trained
      /\ rollout.started = Cardinality(Running) + Len(rollout.buffer) + B * Len(upds)

\* Under the barrier "every token is trained on by the version that sampled it".
OnPolicy ==
  par.sync = "sync" =>
    \A u \in DOMAIN upds : \A n \in Trained(u) : rollout.sampled[n] = {upds[u].k}

\* Every version a batch was sampled by is at most eta behind the one that trains
\* on it, but for the batches trained since the trajectory's own was due.
LagBound ==
  \A u \in DOMAIN upds : \A n \in Trained(u) : \A v \in rollout.sampled[n] :
    upds[u].k <= v + eta + Max({0, upds[u].k - (n - 1) \div B})

\* The bound never leaves every slot empty and the learner without a batch.
NeverStalled ==
  (it > 0 /\ learner.phase = resting /\ rollout.started < Len(par.specs))
    => Running # {} \/ Len(rollout.buffer) >= B

\* A pool the two roles share does one role's work at a time.
PoolsNotOverbooked == useful <= (IF shared THEN 1 ELSE 2) * B * it
=============================================================================
