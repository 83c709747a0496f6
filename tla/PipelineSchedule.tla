-------------------------- MODULE PipelineSchedule --------------------------
(***************************************************************************)
(* The schedules of a training step over a pipeline of devices: simulate   *)
(* of src/app/src/figures/pipeline-schedule.ts. Each device has a fixed    *)
(* order of forward and backward passes; simulate goes round the devices,  *)
(* lets each run as far as the passes it depends on have been run, and     *)
(* stops after a round in which none ran.                                  *)
(*                                                                         *)
(* Time is in units of a chunk's forward pass, so all of it is whole. The  *)
(* drawing, and the figure's memo of runs, are left out.                   *)
(***************************************************************************)
EXTENDS Integers, Sequences, FiniteSets, FiniteSetsExt, TLC

CONSTANTS Params, \* [kind: "gpipe", "1f1b" or "int", v: chunks of a device,
                  \*  p: devices, m: micro-batches asked for]
          R       \* the time of a backward pass over that of a forward

VARIABLES par,
          ops,       \* device -> the passes it has run: its ptr and free
          dev,       \* the device whose turn it is
          progress,  \* a device ran something in this round
          ended

vars == <<par, ops, dev, progress, ended>>

Devices == 0 .. par.p - 1

\* Interleaving needs a multiple of the devices: the nearest one, at least one.
effectiveM == IF par.kind # "int" THEN par.m
              ELSE Max({1, (2 * par.m + par.p) \div (2 * par.p)}) * par.p

Total == effectiveM * par.v   \* passes of a device in each direction
Stages == par.p * par.v

\* Mutant: one forward pass too few before the first backward one.
Warmup_Short(d) ==
  Min({Total, CASE par.kind = "gpipe" -> Total
                [] par.kind = "1f1b"  -> Max({par.p - d - 2, 0})
                [] OTHER              -> (par.p - d - 1) * 2 + (par.v - 1) * par.p})

\* Forward passes before the first backward one.
Warmup(d) ==
  Min({Total, CASE par.kind = "gpipe" -> Total
                [] par.kind = "1f1b"  -> par.p - d - 1
                [] OTHER              -> (par.p - d - 1) * 2 + (par.v - 1) * par.p})

mbOf(k)    == (k \div Stages) * par.p + (k % par.p)
chunkOf(k) == (k % Stages) \div par.p

\* A pass: its direction, its micro-batch and the stage it is of.
Forward(d, k) == [fwd |-> TRUE, mb |-> mbOf(k), s |-> chunkOf(k) * par.p + d]
Backward(d, k) == [fwd |-> FALSE, mb |-> mbOf(k), s |-> (par.v - 1 - chunkOf(k)) * par.p + d]

\* The i-th pass of a device: forward passes, then one of each, then the rest.
Order(d, i) ==
  LET w == Warmup(d)
  IN  CASE i <= w             -> Forward(d, i - 1)
        [] i > 2 * Total - w  -> Backward(d, i - 1 - Total)
        [] (i - w) % 2 = 1    -> Forward(d, w + (i - w) \div 2)
        [] OTHER              -> Backward(d, (i - w) \div 2 - 1)

Init == /\ par \in Params
        /\ ops = [d \in Devices |-> << >>]
        /\ dev = 0 /\ progress = FALSE /\ ended = FALSE

Ran == UNION {{ops[d][i] : i \in DOMAIN ops[d]} : d \in Devices}

\* What a pass waits for: the same direction in the stage before or, backwards,
\* after it; the last stage's backward pass waits for its forward one.
dep(op) ==
  {o \in Ran :
     /\ o.mb = op.mb
     /\ \/ op.fwd /\ o.fwd /\ o.s = op.s - 1
        \/ ~op.fwd /\ ~o.fwd /\ o.s = op.s + 1
        \/ ~op.fwd /\ o.fwd /\ o.s = op.s /\ op.s = Stages - 1}

CanRun(d) == /\ Len(ops[d]) < 2 * Total
             /\ LET op == Order(d, Len(ops[d]) + 1)
                IN  (op.fwd /\ op.s = 0) \/ dep(op) # {}

Free(d) == IF ops[d] = << >> THEN 0 ELSE ops[d][Len(ops[d])].end

Run ==
  /\ ~ended /\ CanRun(dev)
  /\ LET op    == Order(dev, Len(ops[dev]) + 1)
         start == Max({Free(dev)} \cup {o.end : o \in dep(op)})
         timed == [start |-> start, end |-> start + (IF op.fwd THEN 1 ELSE R)]
     IN  ops' = [ops EXCEPT ![dev] = Append(@, op @@ timed)]
  /\ progress' = TRUE
  /\ UNCHANGED <<par, dev, ended>>

\* The device is blocked or through; after a round without progress, simulate ends.
Turn ==
  /\ ~ended /\ ~CanRun(dev)
  /\ IF dev < par.p - 1
       THEN dev' = dev + 1 /\ UNCHANGED <<progress, ended>>
       ELSE dev' = 0 /\ progress' = FALSE /\ ended' = ~progress
  /\ UNCHANGED <<par, ops>>

Next == Run \/ Turn

----------------------------------------------------------------------------
(* What simulate returns, and the properties.                              *)

T    == Max({Free(d) : d \in Devices})
Busy == MapThenSumSet(LAMBDA d : MapThenSumSet(LAMBDA i : ops[d][i].end - ops[d][i].start,
                                               DOMAIN ops[d]), Devices)

\* The most activations a device holds at a time, in chunks of a micro-batch:
\* forward passes begun and backward passes not yet ended.
Held(d, t) == Cardinality({i \in DOMAIN ops[d] : ops[d][i].fwd /\ ops[d][i].start <= t})
                - Cardinality({i \in DOMAIN ops[d] : ~ops[d][i].fwd /\ ops[d][i].end <= t})
Peak(d) == Max({Held(d, ops[d][i].start) : i \in DOMAIN ops[d]})

\* No order of passes waits for itself: the error simulate throws is never thrown.
NoDeadlock == ended => \A d \in Devices : Len(ops[d]) = 2 * Total

\* "the simulated share equals the chapter's (p - 1)/(m + p - 1), and
\* (p - 1)/(v·m + p - 1) for the interleaved schedule": idle time over all time.
BubbleAsDerived ==
  ended => (par.p * T - Busy) * (Total + par.p - 1) = (par.p - 1) * par.p * T

\* A device holds its warm-up and one pass more, and never the activations of
\* the whole step unless the step is that short.
PeakHeld == ended => \A d \in Devices : Peak(d) = Min({Warmup(d) + 1, Total})
=============================================================================
