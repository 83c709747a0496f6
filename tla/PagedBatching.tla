--------------------------- MODULE PagedBatching ---------------------------
(***************************************************************************)
(* The two schedulers behind the figure of paged KV batching: simulate of  *)
(* app/src/figures/paged-kv-batching.ts, which runs one trace of requests  *)
(* with a paged pool, growing block by block and preempting when it is     *)
(* full, or with contiguous reservations.  One action is one step of the   *)
(* loops of an iteration.  The snapshots and events, which are drawn and   *)
(* not read back, are left out.                                            *)
(***************************************************************************)
EXTENDS Integers, Sequences, FiniteSets, SequencesExt, Functions, Lists

CONSTANTS Params,   \* what simulate is called with, see Param
          MAX_NEW,  \* declared maximum of every request's output
          MAX_BATCH,
          Horizon   \* iterations simulate stops after

VARIABLES par,       \* [specs, mode, B, N]
          it, pc,    \* iteration, and the place in it
          pool,      \* [owner, free]; owner 0 is nobody
          req,       \* Live, by request
          waiting, running, admitted,
          at         \* index of the growth loop

vars == <<par, it, pc, pool, req, waiting, running, admitted, at>>

\* The requests of a trace are "1-based, in arrival order".
InOrder(specs) == \A i, j \in DOMAIN specs : i < j => specs[i].arrival <= specs[j].arrival

\* No request asks for more than the declared maximum.
Param == {p \in [specs: Seq([arrival: Nat, prompt: Nat, out: 1 .. MAX_NEW]),
                 mode: {"paged", "contiguous"}, B: Nat \ {0}, N: Nat] : InOrder(p.specs)}

Paged    == par.mode = "paged"
Requests == DOMAIN par.specs
Blocks   == 0 .. par.N - 1

Init ==
  /\ par \in Params
  /\ it = 0 /\ pc = "arrive" /\ at = 1
  /\ pool = [owner |-> [b \in Blocks |-> 0], free |-> [i \in 1 .. par.N |-> i - 1]]
  /\ req = [r \in Requests |-> [status |-> "Future", generated |-> 0,
                                stored |-> 0, table |-> << >>]]
  /\ waiting = << >> /\ running = << >> /\ admitted = << >>

BlocksFor(tokens) == (tokens + par.B - 1) \div par.B

\* Blocks bs, in this order, get a new owner.
Owned(owner, bs, r) == [b \in Blocks |-> IF b \in ToSet(bs) THEN r ELSE owner[b]]

Released(bs) ==
  [owner |-> Owned(pool.owner, bs, 0),
   free  |-> IF Paged THEN pool.free \o bs ELSE pool.free]

----------------------------------------------------------------------------
Arriving == Kept([r \in Requests |-> r],
  {r \in Requests : req[r].status = "Future" /\ par.specs[r].arrival <= it})

Arrive ==
  /\ pc = "arrive" /\ it < Horizon
  /\ waiting' = waiting \o Arriving
  /\ req' = [r \in Requests |->
       IF r \in ToSet(Arriving) THEN [req[r] EXCEPT !.status = "Waiting"] ELSE req[r]]
  /\ pc' = (IF Paged THEN "grow" ELSE "admit")
  /\ at' = 1
  /\ UNCHANGED <<par, it, pool, running, admitted>>

(* 1. Every running request stores one more token.                         *)

Growing == pc = "grow" /\ at <= Len(running)
Full(r) == BlocksFor(req[r].stored + 1) > Len(req[r].table)

GrowNot ==
  /\ Growing /\ ~Full(running[at])
  /\ at' = at + 1
  /\ UNCHANGED <<par, it, pc, pool, req, waiting, running, admitted>>

Grow ==
  LET r == running[at] b == Head(pool.free) IN
  /\ Growing /\ Full(r) /\ pool.free # << >>
  /\ pool' = [owner |-> Owned(pool.owner, <<b>>, r), free |-> Tail(pool.free)]
  /\ req' = [req EXCEPT ![r].table = Append(@, b)]
  /\ at' = at + 1
  /\ UNCHANGED <<par, it, pc, waiting, running, admitted>>

\* Mutant: a preempted request waits behind everyone who arrived by now.
Requeued_Last(victim) == Append(waiting, victim)

\* Before the first that arrived later.
Requeued(victim) ==
  LET later == SelectInSeq(waiting,
                 LAMBDA w : par.specs[w].arrival > par.specs[victim].arrival)
  IN  IF later = 0 THEN Append(waiting, victim) ELSE InsertAt(waiting, later, victim)

\* The request admitted last gives way, possibly the growing one itself.
Preempt ==
  LET victim == Last(running) IN
  /\ Growing /\ Full(running[at]) /\ pool.free = << >>
  /\ pool' = Released(req[victim].table)
  /\ req' = [req EXCEPT ![victim] =
       [@ EXCEPT !.status = "Waiting", !.stored = 0, !.table = << >>]]
  /\ running' = Front(running)
  /\ waiting' = Requeued(victim)
  /\ UNCHANGED <<par, it, pc, admitted, at>>

Grown ==
  /\ pc = "grow" /\ at > Len(running)
  /\ pc' = "admit"
  /\ UNCHANGED <<par, it, pool, req, waiting, running, admitted, at>>

(* 2. Admission, while there is a slot and room.                           *)

Need(r) == BlocksFor(par.specs[r].prompt + IF Paged THEN req[r].generated ELSE MAX_NEW)

\* firstFit: where the runs of k free adjacent blocks begin.
Runs(k) == {b \in 0 .. par.N - k : \A i \in b .. b + k - 1 : pool.owner[i] = 0}

Fits(r) == IF Paged THEN Need(r) <= Len(pool.free) ELSE Runs(Need(r)) # {}

Got(r) == IF Paged THEN SubSeq(pool.free, 1, Need(r))
          ELSE LET first == CHOOSE b \in Runs(Need(r)) : \A c \in Runs(Need(r)) : b <= c
               IN  [i \in 1 .. Need(r) |-> first + i - 1]

Room == waiting # << >> /\ Len(running \o admitted) < MAX_BATCH

Admit ==
  LET r == Head(waiting) IN
  /\ pc = "admit" /\ Room /\ Fits(r)
  /\ pool' = [owner |-> Owned(pool.owner, Got(r), r),
              free  |-> IF Paged THEN SubSeq(pool.free, Need(r) + 1, Len(pool.free))
                                 ELSE pool.free]
  /\ req' = [req EXCEPT ![r].status = "Running", ![r].table = Got(r)]
  /\ waiting' = Tail(waiting)
  /\ admitted' = Append(admitted, r)
  /\ UNCHANGED <<par, it, pc, running, at>>

Admitted ==
  /\ pc = "admit" /\ (Room => ~Fits(Head(waiting)))
  /\ pc' = "execute"
  /\ UNCHANGED <<par, it, pool, req, waiting, running, admitted, at>>

(* 3. Execute the iteration. 4. Completions leave the batch.               *)

Stored(r) == IF r \in ToSet(admitted) THEN par.specs[r].prompt + req[r].generated
                                      ELSE req[r].stored + 1

Execute ==
  LET batch == running \o admitted
      done  == Kept(batch, {r \in Requests : req[r].generated + 1 >= par.specs[r].out})
      freed == FlattenSeq([i \in DOMAIN done |-> req[Reverse(done)[i]].table])
      left  == Kept(batch, Requests \ ToSet(done))
  IN
  /\ pc = "execute"
  /\ req' = [r \in Requests |->
       IF r \notin ToSet(batch) THEN req[r]
       ELSE [req[r] EXCEPT
               !.generated = @ + 1,
               !.stored    = Stored(r),
               !.status    = IF r \in ToSet(done) THEN "Finished" ELSE @,
               !.table     = IF r \in ToSet(done) THEN << >> ELSE @]]
  /\ pool' = Released(freed)
  /\ running' = left /\ admitted' = << >>
  /\ it' = it + 1
  /\ pc' = IF left = << >> /\ waiting = << >> /\ \A r \in Requests : req[r].status # "Future"
             THEN "end" ELSE "arrive"
  /\ UNCHANGED <<par, waiting, at>>

Next == \/ Arrive \/ GrowNot \/ Grow \/ Preempt \/ Grown
        \/ Admit \/ Admitted \/ Execute

Spec == Init /\ [][Next]_vars /\ WF_vars(Next)

----------------------------------------------------------------------------
(* Properties.                                                             *)

\* The free list, the owners and the tables of blocks describe one partition
\* of the pool: no block is leaked by a preemption or a completion, and none
\* is handed out twice.
PoolShared ==
  /\ \A b \in Blocks, r \in Requests : pool.owner[b] = r <=> b \in ToSet(req[r].table)
  /\ Paged => /\ ToSet(pool.free) = {b \in Blocks : pool.owner[b] = 0}
              /\ IsInjective(pool.free)

\* Between iterations a running request has stored its prompt and all it has
\* generated but the last token, also after a preemption and a recompute, in
\* as many blocks as that takes, or within the run reserved for it.
StoredFits ==
  pc = "arrive" => \A r \in ToSet(running) :
    /\ req[r].stored = par.specs[r].prompt + req[r].generated - 1
    /\ IF Paged THEN Len(req[r].table) = BlocksFor(req[r].stored)
       ELSE /\ req[r].stored < Len(req[r].table) * par.B
            /\ \A i \in DOMAIN req[r].table : req[r].table[i] = req[r].table[1] + i - 1

Ended   == pc = "end" \/ it >= Horizon
Drained == /\ \A r \in Requests : req[r].status = "Finished"
           /\ \A b \in Blocks : pool.owner[b] = 0
=============================================================================
