----------------------------- MODULE KVBlocks -----------------------------
(***************************************************************************)
(* The block manager behind the figure on the life of KV blocks            *)
(* (src/app/src/figures/kv-block-lifecycle.ts): the function simulate runs *)
(* a workload through plan, reserve, execute, commit or roll back, and     *)
(* release, over a pool of blocks with reference counts and a prefix that  *)
(* requests share. One action is one transition of the figure's timeline,  *)
(* or a step of the planning loops between two of them.                    *)
(*                                                                         *)
(* The workload, the pool's size and the injected event are a parameter of *)
(* a behaviour, as they are of simulate; the constants FAIL_AT and CANCEL  *)
(* of the source are fields of the event. Abstracted: the messages and the *)
(* marks of what changed, which are drawn and not read back.               *)
(***************************************************************************)
EXTENDS Integers, Sequences, FiniteSets, SequencesExt, Functions, Lists

CONSTANTS Params,    \* what simulate is called with; see Param
          B,         \* tokens per block
          SysBlocks, \* blocks of the shared system prompt
          MaxIter    \* the iterations simulate stops after

VARIABLES par,       \* the parameters of this behaviour
          it,        \* model iteration
          pc,        \* where in the iteration
          pool,      \* the blocks and the free list; see Pool
          req,       \* lives: a record for each request
          waiting, running, admitted, \* sequences of requests
          prefix,    \* the index's blocks for the system prompt, or << >>
          failed     \* the injected failure has happened

vars == <<par, it, pc, pool, req, waiting, running, admitted, prefix, failed>>

Sys == SysBlocks * B

Spec1 == [arrival: Nat \ {0}, sys: BOOLEAN, prompt: Nat, out: Nat] \* ReqSpec

\* A system prompt is the first part of the prompt of a request with sys; fault is
\* none, fail (the execution of iteration at) or cancel (request at).
Param == {p \in [specs: Seq(Spec1), N: Nat, fault: [kind: {"none", "fail", "cancel"}, at: Nat]] :
            \A r \in DOMAIN p.specs : p.specs[r].sys => p.specs[r].prompt >= Sys}

ASSUME ParamsAssumption == /\ B \in Nat \ {0} /\ SysBlocks \in Nat \ {0}
                           /\ MaxIter \in Nat
                           /\ \A p \in Params : p \in Param

Requests == DOMAIN par.specs
Index    == 0                  \* the prefix index as a holder
Blocks   == 0 .. par.N - 1

Pool == [state: [Blocks -> {"Free", "Reserved", "Committed"}],
         holders: [Blocks -> SUBSET (Requests \cup {Index})],
         resv: [Blocks -> Requests \cup {0}],
         fill: [Blocks -> 0 .. B],
         free: Seq(Blocks)]

Live == [status: {"Future", "Waiting", "Running", "Finished", "Canceled"},
         T: Nat, generated: Nat, table: Seq(Blocks), pending: Seq(Blocks),
         hit: BOOLEAN, s: Nat, dq: Nat]

Places == {"arrive", "plan", "admit", "reserve", "execute", "commit",
           "release", "end"}

TypeOK == /\ par \in Params
          /\ it \in 1 .. MaxIter + 1
          /\ pc \in Places
          /\ pool \in Pool
          /\ req \in [Requests -> Live]
          /\ waiting \in Seq(Requests) /\ running \in Seq(Requests)
          /\ admitted \in Seq(Requests)
          /\ prefix \in Seq(Blocks)
          /\ failed \in BOOLEAN

Init == /\ par \in Params
        /\ it = 1 /\ pc = "arrive"
        /\ pool = [state   |-> [b \in Blocks |-> "Free"],
                   holders |-> [b \in Blocks |-> {}],
                   resv    |-> [b \in Blocks |-> 0],
                   fill    |-> [b \in Blocks |-> 0],
                   free    |-> [i \in 1 .. par.N |-> i - 1]]
        /\ req = [r \in Requests |->
                    [status |-> "Future", T |-> 0, generated |-> 0,
                     table |-> << >>, pending |-> << >>, hit |-> FALSE,
                     s |-> 0, dq |-> 0]]
        /\ waiting = << >> /\ running = << >> /\ admitted = << >>
        /\ prefix = << >> /\ failed = FALSE

---------------------------------------------------------------------------
(* The pool.                                                               *)

BlocksFor(tokens) == (tokens + B - 1) \div B

Free == Len(pool.free)

Table(h) == IF h = Index THEN prefix ELSE req[h].table

\* Holders hs let go of their blocks, in this order: which blocks are left
\* without a holder, in the order they return to the free list.
Freed(hs) ==
  FlattenSeq([i \in DOMAIN hs |->
    Kept(Table(hs[i]),
         {b \in Blocks : pool.holders[b] \ {hs[k] : k \in 1 .. i - 1} = {hs[i]}})])

\* Mutant: the blocks are back on the free list but still marked reserved.
ToFree_Marked(bs) == [pool EXCEPT !.free = @ \o bs]

ToFree(bs) ==
  LET is(b) == b \in ToSet(bs)
  IN  [pool EXCEPT !.state = [b \in Blocks |-> IF is(b) THEN "Free" ELSE @[b]],
                   !.resv  = [b \in Blocks |-> IF is(b) THEN 0 ELSE @[b]],
                   !.fill  = [b \in Blocks |-> IF is(b) THEN 0 ELSE @[b]],
                   !.free  = @ \o bs]

Dropped(hs) ==
  [ToFree(Freed(hs)) EXCEPT !.holders =
     [b \in Blocks |-> @[b] \ {h \in ToSet(hs) : b \in ToSet(Table(h))}]]

Pending(rs) == FlattenSeq([i \in DOMAIN rs |-> req[rs[i]].pending])

\* The plan of requests rs is undone: reserved blocks return to the free list,
\* the references it took on the prefix go.
Returned(rs) ==
  [ToFree(Pending(rs)) EXCEPT !.holders =
     [b \in Blocks |-> @[b] \ {r \in ToSet(rs) : req[r].hit /\ b \in ToSet(prefix)}]]

---------------------------------------------------------------------------
(* The plan.                                                               *)

InPlan == running \o admitted

Hits == {r \in ToSet(admitted) : req[r].hit}

Need(rs) == Total([i \in DOMAIN rs |-> req[rs[i]].dq])

PlanNeed == Need(InPlan)

DecodeDq(r) == BlocksFor(req[r].T + 1) - BlocksFor(req[r].T)

DecodeNeed == Total([i \in DOMAIN running |-> DecodeDq(running[i])])

\* Mutant: the cached prefix is never given up.
Evictable_Never(planned) == FALSE

Evictable(planned) ==
  /\ prefix # << >>
  /\ \A b \in ToSet(prefix) : pool.holders[b] = {Index}
  /\ \A r \in ToSet(planned) : ~req[r].hit

EvictPrefix == /\ pool' = Dropped(<<Index>>)
               /\ prefix' = << >>

---------------------------------------------------------------------------
(* 1. Plan.                                                                *)

\* A request that has let go of its blocks.
Stripped(l, status) == [l EXCEPT !.table = << >>, !.T = 0, !.status = status]

Over(r) == req[r].status \in {"Finished", "Canceled"}

Arriving == Kept([r \in Requests |-> r],
                 {r \in Requests : req[r].status = "Future" /\ par.specs[r].arrival <= it})

Arrive ==
  /\ pc = "arrive" /\ it <= MaxIter
  /\ waiting' = waiting \o Arriving
  /\ LET here == [r \in Requests |-> IF r \in ToSet(Arriving)
                                     THEN [req[r] EXCEPT !.status = "Waiting"]
                                     ELSE req[r]]
         idle == running = << >> /\ waiting' = << >>
     IN  IF idle
         THEN /\ req' = here
              /\ IF \A r \in Requests : Over(r)
                 THEN pc' = "end" /\ UNCHANGED it
                 ELSE it' = it + 1 /\ UNCHANGED pc
         ELSE /\ req' = [r \in Requests |-> [here[r] EXCEPT !.s = 0, !.dq = 0,
                                                          !.hit = FALSE]]
              /\ pc' = "plan"
              /\ UNCHANGED it
  /\ UNCHANGED <<par, pool, running, admitted, prefix, failed>>

\* The loop ends when nothing is left to do, or when its iterations run out.
Stopped == pc = "end" \/ it > MaxIter

DecodesFit ==
  /\ pc = "plan" /\ DecodeNeed <= Free
  /\ req' = [r \in Requests |-> IF r \in ToSet(running)
                                THEN [req[r] EXCEPT !.s = 1, !.dq = DecodeDq(r)]
                                ELSE req[r]]
  /\ pc' = "admit"
  /\ UNCHANGED <<par, it, pool, waiting, running, admitted, prefix, failed>>

EvictForDecodes ==
  /\ pc = "plan" /\ DecodeNeed > Free
  /\ Evictable(<< >>)
  /\ EvictPrefix
  /\ UNCHANGED <<par, it, pc, req, waiting, running, admitted, failed>>

Requeued(victim) == \* before the first request that arrived after it
  LET before(r) == par.specs[r].arrival <= par.specs[victim].arrival
      later == SelectInSeq(waiting, LAMBDA r : ~before(r))
  IN  IF later = 0 THEN Append(waiting, victim) ELSE InsertAt(waiting, later, victim)

Preempt == \* the running request admitted last
  LET victim == Last(running) IN
  /\ pc = "plan" /\ DecodeNeed > Free
  /\ ~Evictable(<< >>)
  /\ pool' = Dropped(<<victim>>)
  /\ req' = [req EXCEPT ![victim] = Stripped(@, "Waiting")]
  /\ running' = Front(running)
  /\ waiting' = Requeued(victim)
  /\ UNCHANGED <<par, it, pc, admitted, prefix, failed>>

\* What admitting a request now would take. A recompute covers the tokens
\* generated so far; a hit starts after the cached prompt.
Hit(r)    == par.specs[r].sys /\ Len(prefix) = SysBlocks
Start(r)  == IF Hit(r) THEN Sys ELSE 0

\* Mutant: a recompute covers the prompt only.
Target_Prompt(r) == par.specs[r].prompt

Target(r) == par.specs[r].prompt + req[r].generated
AdmitDq(r) == BlocksFor(Target(r)) - BlocksFor(Start(r))

Fits(r) == PlanNeed + AdmitDq(r) <= Free

Admit ==
  LET r == Head(waiting) IN
  /\ pc = "admit" /\ waiting # << >>
  /\ Fits(r)
  /\ req' = [req EXCEPT ![r].hit = Hit(r), ![r].T = Start(r),
                        ![r].s = Target(r) - Start(r), ![r].dq = AdmitDq(r),
                        ![r].table = IF Hit(r) THEN prefix ELSE @]
  /\ waiting' = Tail(waiting)
  /\ admitted' = Append(admitted, r)
  /\ UNCHANGED <<par, it, pc, pool, running, prefix, failed>>

\* The cached prompt goes before a request is deferred, if that is enough and
\* the request has no use for it.
WorthEvicting(r) == /\ ~par.specs[r].sys
                    /\ Evictable(admitted)
                    /\ PlanNeed + AdmitDq(r) <= Free + Len(prefix)

EvictForAdmission ==
  /\ pc = "admit" /\ waiting # << >>
  /\ ~Fits(Head(waiting)) /\ WorthEvicting(Head(waiting))
  /\ EvictPrefix
  /\ UNCHANGED <<par, it, pc, req, waiting, running, admitted, failed>>

Planned == \* nobody is waiting, or the next request is deferred
  /\ pc = "admit"
  /\ waiting # << >> => ~Fits(Head(waiting)) /\ ~WorthEvicting(Head(waiting))
  /\ pc' = "reserve"
  /\ UNCHANGED <<par, it, pool, req, waiting, running, admitted, prefix, failed>>

---------------------------------------------------------------------------
(* 2. Reserve. 3. Execute: commit, or roll back the plan or a part of it.  *)

\* The blocks for the request at place i of the plan, from the head of the list.
Taken(i) == SubSeq(pool.free, Need(SubSeq(InPlan, 1, i - 1)) + 1,
                              Need(SubSeq(InPlan, 1, i)))

Reserve ==
  /\ pc = "reserve"
  /\ req' = [r \in Requests |->
               LET i == SelectInSeq(InPlan, LAMBDA q : q = r)
               IN  IF i = 0 THEN req[r] ELSE [req[r] EXCEPT !.pending = Taken(i)]]
  /\ LET owner(b) == {r \in ToSet(InPlan) : b \in ToSet(req'[r].pending)}
     IN  pool' = [pool EXCEPT
           !.free    = SubSeq(@, PlanNeed + 1, Len(@)),
           !.state   = [b \in Blocks |-> IF owner(b) # {} THEN "Reserved" ELSE @[b]],
           !.resv    = [b \in Blocks |-> IF owner(b) # {} THEN CHOOSE r \in owner(b) : TRUE
                                                         ELSE @[b]],
           !.holders = [b \in Blocks |-> IF b \in ToSet(prefix) THEN @[b] \cup Hits
                                                               ELSE @[b]]]
  /\ pc' = "execute"
  /\ UNCHANGED <<par, it, waiting, running, admitted, prefix, failed>>

Changed == PlanNeed > 0 \/ Hits # {} \* the plan moved something

Fails == /\ par.fault.kind = "fail" /\ it = par.fault.at
         /\ ~failed /\ Changed

Unplanned(l) == [l EXCEPT !.pending = << >>,
                          !.table = IF l.hit THEN << >> ELSE @,
                          !.T = IF l.hit THEN 0 ELSE @]

Rollback == \* admitted requests return to the head of the queue
  /\ pc = "execute" /\ Fails
  /\ pool' = Returned(InPlan)
  /\ req' = [r \in Requests |-> IF r \in ToSet(InPlan) THEN Unplanned(req[r]) ELSE req[r]]
  /\ waiting' = admitted \o waiting
  /\ admitted' = << >>
  /\ failed' = TRUE
  /\ it' = it + 1 /\ pc' = "arrive"
  /\ UNCHANGED <<par, running, prefix>>

Cancels == par.fault.kind = "cancel" /\ par.fault.at \in ToSet(admitted)

Cancel ==
  LET r == par.fault.at IN
  /\ pc = "execute" /\ ~Fails /\ Cancels
  /\ pool' = Returned(<<r>>)
  /\ req' = [req EXCEPT ![r] = [Stripped(@, "Canceled") EXCEPT
                                  !.pending = << >>, !.s = 0, !.dq = 0]]
  /\ admitted' = Kept(admitted, Requests \ {r})
  /\ pc' = "commit"
  /\ UNCHANGED <<par, it, waiting, running, prefix, failed>>

Tokens(T, j) == IF T - j * B < 0 THEN 0 ELSE IF T - j * B > B THEN B ELSE T - j * B

Committed(l) == [l EXCEPT !.table = @ \o l.pending, !.pending = << >>,
                          !.T = @ + l.s, !.generated = @ + 1]

\* fillFor: a request fills its blocks but those of the shared prompt, which are
\* full already.
Fills(l, r, b) ==
  LET j == SelectInSeq(l.table, LAMBDA x : x = b)
  IN  j # 0 /\ ~(par.specs[r].sys /\ j <= SysBlocks /\ b \in ToSet(prefix))

PoolCommitted(lives) ==
  LET mine(b)  == {r \in ToSet(InPlan) : b \in ToSet(req[r].pending)}
      by(b)    == SelectLastInSeq(InPlan, LAMBDA r : Fills(lives[r], r, b))
      level(b) == LET l == lives[InPlan[by(b)]]
                  IN  Tokens(l.T, SelectInSeq(l.table, LAMBDA x : x = b) - 1)
  IN  [pool EXCEPT
         !.state   = [b \in Blocks |-> IF mine(b) # {} THEN "Committed" ELSE @[b]],
         !.resv    = [b \in Blocks |-> IF mine(b) # {} THEN 0 ELSE @[b]],
         !.holders = [b \in Blocks |-> IF mine(b) # {} THEN mine(b) ELSE @[b]],
         !.fill    = [b \in Blocks |-> IF by(b) # 0 THEN level(b) ELSE @[b]]]

PrefixOf(table) == SubSeq(table, 1, SysBlocks)

\* The first committed copy of the system prompt enters the prefix index.
Register(p, lives) ==
  LET owner == SelectInSeq(InPlan, LAMBDA r : par.specs[r].sys /\ lives[r].T >= Sys)
  IN  IF prefix # << >> \/ owner = 0
      THEN pool' = p /\ UNCHANGED prefix
      ELSE /\ prefix' = PrefixOf(lives[InPlan[owner]].table)
           /\ pool' = [p EXCEPT !.holders = [b \in Blocks |->
                         IF b \in ToSet(prefix') THEN @[b] \cup {Index} ELSE @[b]]]

Commit ==
  /\ pc = "commit" \/ (pc = "execute" /\ ~Fails /\ ~Cancels)
  /\ LET lives == [r \in Requests |-> IF r \in ToSet(InPlan) THEN Committed(req[r])
                                                             ELSE req[r]]
     IN  /\ Register(PoolCommitted(lives), lives)
         /\ req' = [r \in Requests |-> IF r \in ToSet(admitted)
                                       THEN [lives[r] EXCEPT !.status = "Running"]
                                       ELSE lives[r]]
  /\ running' = InPlan
  /\ admitted' = << >>
  /\ pc' = "release"
  /\ UNCHANGED <<par, it, waiting, failed>>

---------------------------------------------------------------------------
(* 4. Release.                                                             *)

Finished(r) == req[r].generated >= par.specs[r].out

Release ==
  LET done == Kept(running, {r \in Requests : Finished(r)}) IN
  /\ pc = "release"
  /\ pool' = Dropped(done)
  /\ req' = [r \in Requests |-> IF r \in ToSet(done) THEN Stripped(req[r], "Finished")
                                                    ELSE req[r]]
  /\ running' = Kept(running, {r \in Requests : ~Finished(r)})
  /\ it' = it + 1 /\ pc' = "arrive"
  /\ UNCHANGED <<par, waiting, admitted, prefix, failed>>

Next == \/ Arrive
        \/ DecodesFit \/ EvictForDecodes \/ Preempt
        \/ Admit \/ EvictForAdmission \/ Planned
        \/ Reserve \/ Rollback \/ Cancel \/ Commit
        \/ Release

\* simulate is a loop: it takes every step it can.
Spec == Init /\ [][Next]_vars /\ WF_vars(Next)

---------------------------------------------------------------------------
(* Properties.                                                             *)

\* "free + reserved + committed = capacity" for the lists the code keeps, not
\* only for the counts it takes: the free list holds each free block once and
\* no other, and each reserved block is pending with the one request it is
\* reserved for.
Conserved ==
  /\ ToSet(pool.free) = {b \in Blocks : pool.state[b] = "Free"}
  /\ IsInjective(pool.free)
  /\ \A b \in Blocks : /\ pool.state[b] = "Reserved" <=> pool.resv[b] # 0
                       /\ \A r \in Requests :
                            pool.resv[b] = r <=> b \in ToSet(req[r].pending)

\* A block's references are the block tables and index entries that name it,
\* and exactly the committed blocks have one. The references of a plan are
\* counted once it is reserved.
Counted(r) == ~(pc \in {"admit", "reserve"} /\ r \in ToSet(admitted))

Refcounts ==
  \A b \in Blocks :
    /\ pool.holders[b] = {r \in Requests : Counted(r) /\ b \in ToSet(req[r].table)}
                            \cup {i \in {Index} : b \in ToSet(prefix)}
    /\ pool.state[b] = "Committed" <=> pool.holders[b] # {}

\* Through every eviction, preemption, roll-back, cancellation and release the
\* free list, the reservations and the reference counts agree with the tables.
Accounted == TypeOK /\ Conserved /\ Refcounts

\* A block in two requests' tables is one of the cached prompt's, at the same
\* place in both and full: no request ever writes KV into a block another reads.
SharedBlocksFull ==
  \A r, q \in Requests : \A i \in DOMAIN req[r].table, j \in DOMAIN req[q].table :
    (r # q /\ req[r].table[i] = req[q].table[j])
      => /\ i = j /\ i <= SysBlocks
         /\ pool.fill[req[r].table[i]] = B

\* Between iterations a request that runs has the KV of its prompt and of every
\* token it generated but the last, in exactly the blocks these need: nothing is
\* lost to a roll-back, a preemption or a recompute.
TokensHeld ==
  pc = "arrive" => \A r \in ToSet(running) :
    /\ req[r].T = par.specs[r].prompt + req[r].generated - 1
    /\ Len(req[r].table) = BlocksFor(req[r].T)
    /\ \A i \in DOMAIN req[r].table :
         pool.fill[req[r].table[i]] = Tokens(req[r].T, i - 1)

\* A plan is reserved only if the pool can serve it: no request is handed fewer
\* blocks than planned, also when its admission evicted the cached prompt.
PlanFeasible == pc = "reserve" => PlanNeed <= Free

\* simulate ends because every request is finished or canceled, never because
\* its iterations ran out: nobody is deferred or preempted for ever. The pool
\* then holds the cached prompt and nothing else, or nothing.
Drained == /\ \A r \in Requests : Over(r)
           /\ \A b \in Blocks : pool.state[b] # "Free" => pool.holders[b] = {Index}

===========================================================================
