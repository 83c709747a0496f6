-------------------------- MODULE KVBlocks_proofs ---------------------------
(***************************************************************************)
(* Proofs about KVBlocks, for any workload, pool and fault it can be       *)
(* given: what the blocks, the tables and the queues are through every     *)
(* step (KVInv), laid out as in CapacityFigures_proofs; and that both        *)
(* schedulers serve as Serving promises.                                   *)
(***************************************************************************)
EXTENDS CapacityFigures_proofs

----------------------------------------------------------------------------
(* The life of KV blocks.                                                  *)

Shared(r) == par.specs[r].sys

\* What a workload of the figure is.
LEMMA KVParam ==
  ASSUME par \in Params
  PROVE  /\ Count \in Nat /\ Requests = 1 .. Count /\ Requests \subseteq Nat /\ Index \notin Requests
         /\ Index = 0 /\ Blocks = 0 .. par.N - 1 /\ par.N \in Nat
         /\ \A r \in Requests : /\ Arrives(r) \in Nat /\ Prompt(r) \in Nat /\ Out(r) \in Nat
                                /\ Shared(r) \in BOOLEAN /\ (Shared(r) => Prompt(r) >= Sys)
                                /\ Arrival[r] = Arrives(r)
         /\ Arrival \in [Requests -> Nat]
         /\ B \in Nat /\ B > 0 /\ SysBlocks \in Nat /\ SysBlocks > 0 /\ MaxIter \in Nat
         /\ Sys = SysBlocks * B /\ Sys \in Nat
<1> DEFINE F == [kind: {"none", "fail", "cancel"}, at: Nat]
           Q == Seq(Spec1)
<1>1. par \in Param /\ B \in Nat \ {0} /\ SysBlocks \in Nat \ {0} /\ MaxIter \in Nat
  BY ParamsAssumption
<1>2. par \in [specs: Q, N: Nat, fault: F]
      /\ \A r \in DOMAIN par.specs : par.specs[r].sys => par.specs[r].prompt >= Sys
  BY <1>1 DEF Param
<1> HIDE DEF F, Q
<1>3. par.specs \in Q /\ par.N \in Nat
  BY <1>2
<1>4. par.specs \in Seq(Spec1)
  BY <1>3 DEF Q
<1>5. DOMAIN par.specs = 1 .. Count /\ Count \in Nat
  BY <1>4, LenProperties DEF Count
<1>6. ASSUME NEW r \in 1 .. Count
      PROVE  Arrives(r) \in Nat /\ Prompt(r) \in Nat /\ Out(r) \in Nat /\ Shared(r) \in BOOLEAN
  <2>1. par.specs[r] \in Spec1
    BY <1>4, <1>6, ElementOfSeq DEF Count
  <2> QED BY <2>1 DEF Arrives, Prompt, Out, Shared, Spec1
<1>7. Sys \in Nat /\ B > 0 /\ SysBlocks > 0
  BY <1>1 DEF Sys
<1> QED BY <1>1, <1>2, <1>3, <1>5, <1>6, <1>7, SMTT(30) DEF Requests, Blocks, Arrival, Index, Sys, Shared, Prompt

\* The blocks tokens take.
LEMMA KVSizes ==
  /\ B \in Nat /\ B > 0 /\ BlocksFor(0) = 0 /\ BlocksFor(Sys) = SysBlocks /\ Sys = SysBlocks * B
  /\ SysBlocks \in Nat /\ Sys \in Nat
  /\ \A t \in Nat : /\ BlocksFor(t) \in Nat /\ BlocksFor(t) <= BlocksFor(t + 1)
                    /\ t <= BlocksFor(t) * B
  /\ \A s, t \in Nat : s <= t => BlocksFor(s) <= BlocksFor(t)
<1>1. B \in Nat /\ B > 0 /\ SysBlocks \in Nat /\ Sys = SysBlocks * B /\ Sys \in Nat
  BY ParamsAssumption DEF Sys
<1>2. \A t : BlocksFor(t) = Ceil(t, B)
  BY DEF BlocksFor, Ceil
<1>3. ASSUME NEW t \in Nat
      PROVE  Ceil(t, B) \in Nat /\ Ceil(t, B) <= Ceil(t + 1, B) /\ t <= Ceil(t, B) * B
             /\ \A s \in Nat : s <= t => Ceil(s, B) <= Ceil(t, B)
  BY <1>1, CeilIs, CeilStep
<1>4. Ceil(0, B) = 0 /\ Ceil(Sys, B) = SysBlocks
  BY <1>1, CeilStep
<1> QED BY <1>1, <1>2, <1>3, <1>4

\* What the pool's record holds.
LEMMA PoolFields ==
  ASSUME NEW p \in Pool
  PROVE  /\ p.state \in [Blocks -> {"Free", "Reserved", "Committed"}]
         /\ p.holders \in [Blocks -> SUBSET (Requests \cup {Index})]
         /\ p.resv \in [Blocks -> Requests \cup {0}]
         /\ p.fill \in [Blocks -> 0 .. B]
         /\ p.free \in Seq(Blocks)
<1> DEFINE a == [Blocks -> {"Free", "Reserved", "Committed"}]
           h == [Blocks -> SUBSET (Requests \cup {Index})]
           v == [Blocks -> Requests \cup {0}]
           f == [Blocks -> 0 .. B]
           l == Seq(Blocks)
<1>1. p \in [state: a, holders: h, resv: v, fill: f, free: l]
  BY DEF Pool
<1> HIDE DEF a, h, v, f, l
<1>2. p.state \in a /\ p.holders \in h /\ p.resv \in v /\ p.fill \in f /\ p.free \in l
  BY <1>1
<1> QED BY <1>2 DEF a, h, v, f, l

\* A pool with some of its fields replaced.
States       == [Blocks -> {"Free", "Reserved", "Committed"}]
Holdings     == [Blocks -> SUBSET (Requests \cup {Index})]
Reservations == [Blocks -> Requests \cup {0}]
Levels       == [Blocks -> 0 .. B]

WithHolders(p, d) == [p EXCEPT !.holders = d]
WithFreed(p, s, w, g, q) == [p EXCEPT !.state = s, !.resv = w, !.fill = g, !.free = q]
WithReserved(p, q, s, w, d) == [p EXCEPT !.free = q, !.state = s, !.resv = w, !.holders = d]
WithCommitted(p, s, w, d, g) == [p EXCEPT !.state = s, !.resv = w, !.holders = d, !.fill = g]

\* A pool with other holders.
LEMMA PoolHolders ==
  ASSUME NEW p \in Pool,
         NEW d \in Holdings
  PROVE  /\ WithHolders(p, d) \in Pool
         /\ WithHolders(p, d).state = p.state
         /\ WithHolders(p, d).holders = d
         /\ WithHolders(p, d).resv = p.resv
         /\ WithHolders(p, d).fill = p.fill
         /\ WithHolders(p, d).free = p.free
<1> DEFINE a == [Blocks -> {"Free", "Reserved", "Committed"}]
           h == [Blocks -> SUBSET (Requests \cup {Index})]
           v == [Blocks -> Requests \cup {0}]
           f == [Blocks -> 0 .. B]
           l == Seq(Blocks)
           P == [state: a, holders: h, resv: v, fill: f, free: l]
<1>1. p \in P /\ Pool = P /\ d \in h
  BY DEF Pool, States, Holdings, Reservations, Levels
<1> HIDE DEF a, h, v, f, l
<1> QED BY <1>1 DEF WithHolders

\* A pool with blocks given back.
LEMMA PoolFreed ==
  ASSUME NEW p \in Pool,
         NEW s \in States,
         NEW w \in Reservations,
         NEW g \in Levels,
         NEW q \in Seq(Blocks)
  PROVE  /\ WithFreed(p, s, w, g, q) \in Pool
         /\ WithFreed(p, s, w, g, q).state = s
         /\ WithFreed(p, s, w, g, q).holders = p.holders
         /\ WithFreed(p, s, w, g, q).resv = w
         /\ WithFreed(p, s, w, g, q).fill = g
         /\ WithFreed(p, s, w, g, q).free = q
<1> DEFINE a == [Blocks -> {"Free", "Reserved", "Committed"}]
           h == [Blocks -> SUBSET (Requests \cup {Index})]
           v == [Blocks -> Requests \cup {0}]
           f == [Blocks -> 0 .. B]
           l == Seq(Blocks)
           P == [state: a, holders: h, resv: v, fill: f, free: l]
<1>1. p \in P /\ Pool = P /\ s \in a /\ w \in v /\ g \in f /\ q \in l
  BY DEF Pool, States, Holdings, Reservations, Levels
<1> HIDE DEF a, h, v, f, l
<1> QED BY <1>1 DEF WithFreed

\* A pool with blocks reserved.
LEMMA PoolReserved ==
  ASSUME NEW p \in Pool,
         NEW q \in Seq(Blocks),
         NEW s \in States,
         NEW w \in Reservations,
         NEW d \in Holdings
  PROVE  /\ WithReserved(p, q, s, w, d) \in Pool
         /\ WithReserved(p, q, s, w, d).state = s
         /\ WithReserved(p, q, s, w, d).holders = d
         /\ WithReserved(p, q, s, w, d).resv = w
         /\ WithReserved(p, q, s, w, d).fill = p.fill
         /\ WithReserved(p, q, s, w, d).free = q
<1> DEFINE a == [Blocks -> {"Free", "Reserved", "Committed"}]
           h == [Blocks -> SUBSET (Requests \cup {Index})]
           v == [Blocks -> Requests \cup {0}]
           f == [Blocks -> 0 .. B]
           l == Seq(Blocks)
           P == [state: a, holders: h, resv: v, fill: f, free: l]
<1>1. p \in P /\ Pool = P /\ q \in l /\ s \in a /\ w \in v /\ d \in h
  BY DEF Pool, States, Holdings, Reservations, Levels
<1> HIDE DEF a, h, v, f, l
<1> QED BY <1>1 DEF WithReserved

\* A pool with blocks committed.
LEMMA PoolCommits ==
  ASSUME NEW p \in Pool,
         NEW s \in States,
         NEW w \in Reservations,
         NEW d \in Holdings,
         NEW g \in Levels
  PROVE  /\ WithCommitted(p, s, w, d, g) \in Pool
         /\ WithCommitted(p, s, w, d, g).state = s
         /\ WithCommitted(p, s, w, d, g).holders = d
         /\ WithCommitted(p, s, w, d, g).resv = w
         /\ WithCommitted(p, s, w, d, g).fill = g
         /\ WithCommitted(p, s, w, d, g).free = p.free
<1> DEFINE a == [Blocks -> {"Free", "Reserved", "Committed"}]
           h == [Blocks -> SUBSET (Requests \cup {Index})]
           v == [Blocks -> Requests \cup {0}]
           f == [Blocks -> 0 .. B]
           l == Seq(Blocks)
           P == [state: a, holders: h, resv: v, fill: f, free: l]
<1>1. p \in P /\ Pool = P /\ s \in a /\ w \in v /\ d \in h /\ g \in f
  BY DEF Pool, States, Holdings, Reservations, Levels
<1> HIDE DEF a, h, v, f, l
<1> QED BY <1>1 DEF WithCommitted

\* What a request's record holds.
LEMMA LiveFields ==
  ASSUME NEW l \in Live
  PROVE  /\ l.status \in {"Future", "Waiting", "Running", "Finished", "Canceled"}
         /\ l.T \in Nat /\ l.generated \in Nat /\ l.table \in Seq(Blocks) /\ l.pending \in Seq(Blocks)
         /\ l.hit \in BOOLEAN /\ l.s \in Nat /\ l.dq \in Nat
<1> DEFINE Q == Seq(Blocks)
           S == {"Future", "Waiting", "Running", "Finished", "Canceled"}
<1>1. l \in [status: S, T: Nat, generated: Nat, table: Q, pending: Q, hit: BOOLEAN, s: Nat, dq: Nat]
  BY DEF Live
<1> HIDE DEF Q, S
<1>2. /\ l.status \in S /\ l.T \in Nat /\ l.generated \in Nat /\ l.table \in Q /\ l.pending \in Q
      /\ l.hit \in BOOLEAN /\ l.s \in Nat /\ l.dq \in Nat
  BY <1>1
<1> QED BY <1>2 DEF Q, S

\* A record of the fields of a request is one.
LEMMA LiveIs ==
  ASSUME NEW l, NEW m \in Live, DOMAIN l = DOMAIN m, l = [f \in DOMAIN m |-> l[f]],
         l.status \in {"Future", "Waiting", "Running", "Finished", "Canceled"},
         l.T \in Nat, l.generated \in Nat, l.table \in Seq(Blocks), l.pending \in Seq(Blocks),
         l.hit \in BOOLEAN, l.s \in Nat, l.dq \in Nat
  PROVE  l \in Live
<1> DEFINE Q == Seq(Blocks)
           S == {"Future", "Waiting", "Running", "Finished", "Canceled"}
           L == [status: S, T: Nat, generated: Nat, table: Q, pending: Q, hit: BOOLEAN, s: Nat, dq: Nat]
<1>1. m \in L /\ l.status \in S /\ l.table \in Q /\ l.pending \in Q /\ Live = L
  BY DEF Live
<1> HIDE DEF Q, S
<1> QED BY <1>1

InBatch(r) == r \in ToSet(running) \/ r \in ToSet(admitted)
Reserving  == pc \in {"execute", "commit"}
Planning   == pc \in {"admit", "reserve", "execute", "commit"}

\* Who arrives before this iteration has been met.
KVRound == IF pc = "arrive" THEN it ELSE it + 1

\* Where a request is, by its status; those admitted and waiting are in the order
\* of arrival.
KVQueues ==
  /\ Apart(running) /\ Apart(admitted \o waiting) /\ Rising(admitted \o waiting, Arrival)
  /\ \A r \in Requests :
       /\ req[r].status = "Waiting" <=> r \in ToSet(admitted) \cup ToSet(waiting)
       /\ req[r].status = "Running" <=> r \in ToSet(running)
       /\ req[r].status = "Future"  <=> Arrival[r] >= KVRound
  /\ pc \in {"arrive", "plan", "release", "end"} => admitted = << >>
  /\ pc # "arrive" => it <= MaxIter

\* Who holds blocks, and who has blocks reserved.
KVIdle ==
  \A r \in Requests :
    /\ ~InBatch(r) => req[r].table = << >> /\ req[r].T = 0
    /\ IF Reserving /\ InBatch(r) THEN Len(req[r].pending) = req[r].dq ELSE req[r].pending = << >>
    /\ Apart(req[r].table) /\ Apart(req[r].pending)

\* What a running request has stored, and where.
KVServed ==
  \A r \in ToSet(running) :
    /\ req[r].generated > 0
    /\ req[r].T = Prompt(r) + req[r].generated - 1
    /\ Len(req[r].table) = BlocksFor(req[r].T)
    /\ pc \notin {"arrive", "release", "end"} => ~req[r].hit
    /\ Planning => req[r].s = 1 /\ req[r].dq = DecodeDq(r)
    /\ \A i \in DOMAIN req[r].table : pool.fill[req[r].table[i]] = Tokens(req[r].T, i - 1)

\* What an admitted request starts with, and what it will take.
KVAdmitted ==
  \A r \in ToSet(admitted) :
    /\ req[r].T + req[r].s = Prompt(r) + req[r].generated
    /\ req[r].dq = BlocksFor(Prompt(r) + req[r].generated) - BlocksFor(req[r].T)
    /\ IF req[r].hit THEN Shared(r) /\ prefix # << >> /\ req[r].T = Sys /\ req[r].table = prefix
                     ELSE req[r].T = 0 /\ req[r].table = << >>

\* The cached prompt is full, and in a table only at its own place.
KVPrefix ==
  /\ prefix # << >> => Len(prefix) = SysBlocks
  /\ Apart(prefix)
  /\ \A i \in DOMAIN prefix : pool.fill[prefix[i]] = B
  /\ \A r \in Requests : \A i \in DOMAIN req[r].table :
       \A j \in DOMAIN prefix : req[r].table[i] = prefix[j] => i = j /\ Shared(r)
  /\ \A r, q \in Requests : \A b \in Blocks :
       r # q /\ b \in ToSet(req[r].table) /\ b \in ToSet(req[q].table) => b \in ToSet(prefix)

\* The plan can be served.
KVFeasible == pc \in {"admit", "reserve"} => PlanNeed <= Len(pool.free)

KVInv == /\ TypeOK /\ KVQueues /\ KVIdle /\ KVServed /\ KVAdmitted /\ KVPrefix /\ KVFeasible
         /\ Conserved /\ Refcounts

\* What does not change while the workload does not.
LEMMA KVFixed ==
  ASSUME par' = par
  PROVE  /\ Count' = Count /\ Arrival' = Arrival /\ Blocks' = Blocks /\ Requests' = Requests
         /\ Pool' = Pool /\ Live' = Live /\ Index' = Index
         /\ \A r : Prompt(r)' = Prompt(r) /\ Out(r)' = Out(r) /\ Arrives(r)' = Arrives(r) /\ Shared(r)' = Shared(r)
BY Zenon DEF Count, Arrival, Arrives, Blocks, Requests, Pool, Live, Prompt, Out, Shared, Index

\* What the invariant says of every request, list and block.
LEMMA KVUse ==
  ASSUME TypeOK
  PROVE  /\ par \in Params /\ it \in Nat /\ it <= MaxIter + 1 /\ MaxIter \in Nat /\ pc \in Places
         /\ pool \in Pool /\ req \in [Requests -> Live] /\ DOMAIN req = Requests
         /\ waiting \in Seq(Requests) /\ running \in Seq(Requests) /\ admitted \in Seq(Requests)
         /\ prefix \in Seq(Blocks) /\ failed \in BOOLEAN
         /\ Requests \subseteq Nat /\ Index \notin Requests /\ Index = 0
         /\ Arrival \in [Requests -> Nat]
         /\ ToSet(waiting) \subseteq Requests /\ ToSet(running) \subseteq Requests
         /\ ToSet(admitted) \subseteq Requests /\ ToSet(prefix) \subseteq Blocks
<1>1. /\ par \in Params /\ it \in 1 .. MaxIter + 1 /\ pc \in Places
      /\ pool \in Pool /\ req \in [Requests -> Live]
      /\ waiting \in Seq(Requests) /\ running \in Seq(Requests) /\ admitted \in Seq(Requests)
      /\ prefix \in Seq(Blocks) /\ failed \in BOOLEAN
  BY DEF TypeOK
<1>2. /\ ToSet(waiting) \subseteq Requests /\ ToSet(running) \subseteq Requests
      /\ ToSet(admitted) \subseteq Requests /\ ToSet(prefix) \subseteq Blocks
  BY <1>1, SetOf
<1>3. /\ Requests \subseteq Nat /\ Index \notin Requests /\ Index = 0 /\ MaxIter \in Nat
      /\ Arrival \in [Requests -> Nat]
  BY <1>1, KVParam
<1>4. it \in Nat /\ it <= MaxIter + 1
  BY <1>1, <1>3
<1>5. DOMAIN req = Requests
  BY <1>1
<1> QED BY <1>1, <1>2, <1>3, <1>4, <1>5

\* What the record of a request is.
LEMMA KVRequest ==
  ASSUME TypeOK, NEW r \in Requests
  PROVE  /\ req[r] \in Live
         /\ req[r].status \in {"Future", "Waiting", "Running", "Finished", "Canceled"}
         /\ req[r].T \in Nat /\ req[r].generated \in Nat
         /\ req[r].table \in Seq(Blocks) /\ req[r].pending \in Seq(Blocks)
         /\ ToSet(req[r].table) \subseteq Blocks /\ ToSet(req[r].pending) \subseteq Blocks
         /\ req[r].hit \in BOOLEAN /\ req[r].s \in Nat /\ req[r].dq \in Nat
         /\ Prompt(r) \in Nat /\ Out(r) \in Nat /\ Shared(r) \in BOOLEAN
         /\ Shared(r) => Prompt(r) >= Sys
         /\ Arrival[r] \in Nat /\ Arrival[r] = par.specs[r].arrival
<1>1. req[r] \in Live /\ par \in Params
  BY KVUse
<1>2. req[r].table \in Seq(Blocks) /\ req[r].pending \in Seq(Blocks)
  BY <1>1, LiveFields
<1>3. ToSet(req[r].table) \subseteq Blocks /\ ToSet(req[r].pending) \subseteq Blocks
  BY <1>2, SetOf
<1>4. /\ Arrives(r) \in Nat /\ Prompt(r) \in Nat /\ Out(r) \in Nat
      /\ Shared(r) \in BOOLEAN /\ (Shared(r) => Prompt(r) >= Sys)
      /\ Arrival[r] = Arrives(r) /\ Arrival[r] \in Nat
  <2>1. \A q \in Requests : /\ Arrives(q) \in Nat /\ Prompt(q) \in Nat /\ Out(q) \in Nat
                            /\ Shared(q) \in BOOLEAN /\ (Shared(q) => Prompt(q) >= Sys)
                            /\ Arrival[q] = Arrives(q)
    BY <1>1, KVParam, Zenon
  <2> QED BY <2>1
<1> QED BY <1>1, <1>3, <1>4, LiveFields DEF Arrives

\* What a block is: free, reserved for one, or held by the tables that name it.
LEMMA KVBlock ==
  ASSUME TypeOK, Conserved, Refcounts, NEW b \in Blocks
  PROVE  /\ pool.state[b] \in {"Free", "Reserved", "Committed"}
         /\ pool.holders[b] \subseteq Requests \cup {Index}
         /\ pool.resv[b] \in Requests \cup {0} /\ pool.fill[b] \in 0 .. B
         /\ pool.state[b] = "Free" <=> b \in ToSet(pool.free)
         /\ pool.state[b] = "Reserved" <=> pool.resv[b] # 0
         /\ pool.state[b] = "Committed" <=> pool.holders[b] # {}
         /\ \A r \in Requests : /\ pool.resv[b] = r <=> b \in ToSet(req[r].pending)
                                /\ r \in pool.holders[b] <=> Counted(r) /\ b \in ToSet(req[r].table)
         /\ Index \in pool.holders[b] <=> b \in ToSet(prefix)
<1>1. pool \in Pool /\ Index \notin Requests
  BY KVUse
<1>2. /\ pool.state[b] \in {"Free", "Reserved", "Committed"}
      /\ pool.holders[b] \subseteq Requests \cup {Index}
      /\ pool.resv[b] \in Requests \cup {0} /\ pool.fill[b] \in 0 .. B
  BY <1>1, PoolFields
<1>3. /\ pool.state[b] = "Free" <=> b \in ToSet(pool.free)
      /\ pool.state[b] = "Reserved" <=> pool.resv[b] # 0
      /\ \A r \in Requests : pool.resv[b] = r <=> b \in ToSet(req[r].pending)
  BY DEF Conserved
<1>4. /\ pool.holders[b] = {r \in Requests : Counted(r) /\ b \in ToSet(req[r].table)}
                            \cup {i \in {Index} : b \in ToSet(prefix)}
      /\ pool.state[b] = "Committed" <=> pool.holders[b] # {}
  BY DEF Refcounts
<1>5. /\ \A r \in Requests : r \in pool.holders[b] <=> Counted(r) /\ b \in ToSet(req[r].table)
      /\ Index \in pool.holders[b] <=> b \in ToSet(prefix)
  BY <1>1, <1>4
<1> QED BY <1>2, <1>3, <1>4, <1>5

\* Letting go frees the blocks that nobody else holds, each once.
LEMMA KVFreed ==
  ASSUME TypeOK, Conserved, Refcounts, Apart(prefix), \A r \in Requests : Apart(req[r].table),
         NEW hs \in Seq(Requests \cup {Index}), Apart(hs),
         \A h \in ToSet(hs) : h # Index => Counted(h)
  PROVE  /\ Freed(hs) \in Seq(Blocks) /\ Apart(Freed(hs))
         /\ \A b \in Blocks : b \in ToSet(Freed(hs)) <=>
              pool.holders[b] # {} /\ pool.holders[b] \subseteq ToSet(hs)
<1> DEFINE H == Requests \cup {Index}
           n == Len(hs)
           t(i) == Table(hs[i])
           mine(i) == {b \in Blocks : pool.holders[b] \ {hs[k] : k \in 1 .. i - 1} = {hs[i]}}
           ss == [i \in 1 .. n |-> Kept(t(i), mine(i))]
<1>1. n \in Nat /\ DOMAIN hs = 1 .. n
  OBVIOUS
<1>2. Freed(hs) = FlattenSeq(ss)
  BY <1>1 DEF Freed
<1>3. /\ \A i \in 1 .. n : hs[i] \in H /\ hs[i] \in ToSet(hs)
      /\ \A h \in ToSet(hs) : \E i \in 1 .. n : hs[i] = h
      /\ \A i, j \in 1 .. n : hs[i] = hs[j] => i = j
  <2>1. hs \in Seq(H)
    OBVIOUS
  <2> HIDE DEF H
  <2> QED BY <1>1, <2>1, Listed, SMTT(30) DEF Apart
<1>4. ASSUME NEW i \in 1 .. n
      PROVE  /\ t(i) \in Seq(Blocks) /\ Apart(t(i))
             /\ \A b \in Blocks : b \in ToSet(t(i)) <=> hs[i] \in pool.holders[b]
  <2>1. CASE hs[i] = Index
    <3>1. t(i) = prefix
      BY <2>1, SMTT(30) DEF Table
    <3> QED BY <2>1, <3>1, KVUse, KVBlock
  <2>2. CASE hs[i] # Index
    <3>1. hs[i] \in Requests /\ Counted(hs[i])
      BY <1>3, <2>2
    <3>2. t(i) = req[hs[i]].table
      BY <2>2 DEF Table
    <3>3. t(i) \in Seq(Blocks) /\ Apart(t(i))
      BY <3>1, <3>2, KVRequest
    <3>4. \A b \in Blocks : hs[i] \in pool.holders[b] <=> b \in ToSet(req[hs[i]].table)
      BY <3>1, KVBlock
    <3> QED BY <3>2, <3>3, <3>4
  <2> QED BY <2>1, <2>2
<1> HIDE DEF t, n
<1>5. ASSUME NEW i \in 1 .. n
      PROVE  /\ ss[i] \in Seq(Blocks) /\ Apart(ss[i])
             /\ \A b : b \in ToSet(ss[i]) <=> b \in ToSet(t(i)) /\ b \in mine(i)
  <2> DEFINE M == mine(i)
             ti == t(i)
  <2>1. ss[i] = Kept(ti, M) /\ ti \in Seq(Blocks) /\ Apart(ti)
    BY <1>4
  <2> HIDE DEF M, ti, ss
  <2>2. Kept(ti, M) \in Seq(Blocks) /\ Apart(Kept(ti, M)) /\ ToSet(Kept(ti, M)) = ToSet(ti) \cap M
    BY <2>1, KeptPlaces, KeptSet, KeptApart
  <2> QED BY <2>1, <2>2 DEF M, ti
<1>6. ss \in Seq(Seq(Blocks)) /\ Len(ss) = n
  <2> DEFINE Q == Seq(Blocks)
  <2>1. \A i \in 1 .. n : ss[i] \in Q
    BY <1>5
  <2>2. ss = [i \in 1 .. n |-> ss[i]]
    OBVIOUS
  <2> HIDE DEF Q, ss
  <2>3. ss \in [1 .. n -> Q]
    BY <2>1, <2>2
  <2>4. ss \in Seq(Q) /\ Len(ss) = n
    BY <1>1, <2>3 DEF n
  <2> QED BY <2>4 DEF Q
<1> HIDE DEF ss
<1>7. ASSUME NEW i \in 1 .. n, NEW j \in 1 .. n, i < j PROVE ToSet(ss[i]) \cap ToSet(ss[j]) = {}
  <2>1. ASSUME NEW b \in ToSet(ss[i]), b \in ToSet(ss[j]) PROVE FALSE
    <3>1. b \in mine(i) /\ b \in ToSet(t(j)) /\ b \in Blocks
      BY <1>5, <2>1
    <3>2. hs[j] \in pool.holders[b]
      BY <1>4, <3>1
    <3>3. hs[j] \notin {hs[k] : k \in 1 .. i - 1}
      <4>1. \A k \in 1 .. i - 1 : k \in 1 .. n /\ k # j
        BY <1>1, <1>7
      <4> QED BY <1>3, <4>1
    <3>4. hs[j] = hs[i]
      BY <3>1, <3>2, <3>3
    <3> QED BY <1>3, <1>7, <3>4
  <2> QED BY <2>1
<1>8. Apart(FlattenSeq(ss)) /\ FlattenSeq(ss) \in Seq(Blocks)
  <2>1. \A i \in 1 .. Len(ss) : Apart(ss[i])
    BY <1>5, <1>6
  <2>2. \A i, j \in 1 .. Len(ss) : i # j => ToSet(ss[i]) \cap ToSet(ss[j]) = {}
    <3>1. ASSUME NEW i \in 1 .. n, NEW j \in 1 .. n, i # j PROVE ToSet(ss[i]) \cap ToSet(ss[j]) = {}
      <4>1. i < j \/ j < i
        BY <1>1, <3>1
      <4>2. j < i => ToSet(ss[j]) \cap ToSet(ss[i]) = {}
        BY <1>7, SMTT(30)
      <4> QED BY <1>7, <4>1, <4>2
    <3> QED BY <1>6, <3>1
  <2> QED BY <1>6, <2>1, <2>2, FlattenApart, FlattenType, ZenonT(40)
<1>9. ASSUME NEW b \in Blocks
      PROVE  (\E i \in 1 .. n : b \in ToSet(ss[i])) <=>
               pool.holders[b] # {} /\ pool.holders[b] \subseteq ToSet(hs)
  <2>1. ASSUME NEW i \in 1 .. n, b \in ToSet(ss[i])
        PROVE  pool.holders[b] # {} /\ pool.holders[b] \subseteq ToSet(hs)
    <3>1. b \in mine(i)
      BY <1>5, <2>1
    <3>2. pool.holders[b] \ {hs[k] : k \in 1 .. i - 1} = {hs[i]}
      BY <3>1
    <3>3. \A k \in 1 .. i - 1 : hs[k] \in ToSet(hs)
      <4>1. \A k \in 1 .. i - 1 : k \in 1 .. n
        BY <1>1
      <4> QED BY <1>3, <4>1
    <3>4. ASSUME NEW h \in pool.holders[b] PROVE h \in ToSet(hs)
      <4>1. h = hs[i] \/ \E k \in 1 .. i - 1 : h = hs[k]
        BY <3>2
      <4> QED BY <1>3, <3>3, <4>1
    <3>5. hs[i] \in pool.holders[b]
      BY <3>2
    <3> QED BY <3>4, <3>5
  <2>2. ASSUME pool.holders[b] # {}, pool.holders[b] \subseteq ToSet(hs)
        PROVE  \E i \in 1 .. n : b \in ToSet(ss[i])
    <3> DEFINE I == {i \in 1 .. n : hs[i] \in pool.holders[b]}
    <3>1. I # {} /\ I \in SUBSET (0 .. n)
      BY <1>1, <1>3, <2>2
    <3> DEFINE m == Max(I)
    <3>2. m \in I /\ \A k \in I : k <= m
      <4> HIDE DEF I
      <4> QED BY <1>1, <3>1, MaxOf
    <3> HIDE DEF m
    <3>3. m \in 1 .. n /\ hs[m] \in pool.holders[b]
      BY <3>2
    <3>4. ASSUME NEW h \in pool.holders[b], h \notin {hs[k] : k \in 1 .. m - 1} PROVE h = hs[m]
      <4>1. PICK k \in 1 .. n : hs[k] = h
        BY <1>3, <2>2
      <4>2. k <= m
        BY <3>2, <4>1
      <4>3. k = m \/ k \in 1 .. m - 1
        BY <1>1, <3>3, <4>2
      <4> QED BY <3>4, <4>1, <4>3
    <3>5. hs[m] \notin {hs[k] : k \in 1 .. m - 1}
      <4>1. \A k \in 1 .. m - 1 : k \in 1 .. n /\ k # m
        BY <1>1, <3>3
      <4> QED BY <1>3, <3>3, <4>1
    <3>6. pool.holders[b] \ {hs[k] : k \in 1 .. m - 1} = {hs[m]}
      BY <3>3, <3>4, <3>5
    <3>7. b \in ToSet(t(m)) /\ b \in mine(m)
      BY <1>4, <3>3, <3>6
    <3> QED BY <1>5, <3>3, <3>7
  <2> QED BY <2>1, <2>2
<1>10. ASSUME NEW b \in Blocks
       PROVE  b \in ToSet(Freed(hs)) <=> pool.holders[b] # {} /\ pool.holders[b] \subseteq ToSet(hs)
  <2>1. b \in ToSet(FlattenSeq(ss)) <=> \E i \in 1 .. Len(ss) : b \in ToSet(ss[i])
    BY <1>6, FlattenMembers
  <2> QED BY <1>2, <1>6, <1>9, <2>1
<1> QED BY <1>2, <1>8, <1>10

\* Blocks that go back to the free list.
LEMMA KVToFree ==
  ASSUME TypeOK, Conserved, NEW bs \in Seq(Blocks), Apart(bs),
         \A b \in ToSet(bs) : pool.state[b] # "Free"
  PROVE  LET p == ToFree(bs) IN
         /\ p \in Pool /\ p.holders = pool.holders /\ Len(pool.free) <= Len(p.free)
         /\ \A b \in Blocks :
              /\ p.state[b] = IF b \in ToSet(bs) THEN "Free" ELSE pool.state[b]
              /\ p.resv[b] = IF b \in ToSet(bs) THEN 0 ELSE pool.resv[b]
              /\ p.fill[b] = IF b \in ToSet(bs) THEN 0 ELSE pool.fill[b]
         /\ ToSet(p.free) = {b \in Blocks : p.state[b] = "Free"} /\ Apart(p.free)
<1> DEFINE X == ToSet(bs)
           s == [b \in Blocks |-> IF b \in X THEN "Free" ELSE pool.state[b]]
           w == [b \in Blocks |-> IF b \in X THEN 0 ELSE pool.resv[b]]
           g == [b \in Blocks |-> IF b \in X THEN 0 ELSE pool.fill[b]]
           q == pool.free \o bs
<1>1. pool \in Pool
  BY KVUse
<1>2. ToFree(bs) = [pool EXCEPT !.state = s, !.resv = w, !.fill = g, !.free = q]
  BY <1>1 DEF ToFree, Pool
<1>3. X \subseteq Blocks
  BY SetOf
<1>4. pool.free \in Seq(Blocks) /\ ToSet(pool.free) = {b \in Blocks : pool.state[b] = "Free"} /\ Apart(pool.free)
  BY <1>1, PoolFields DEF Conserved, IsInjective, Apart
<1> HIDE DEF X
<1>5. /\ s \in [Blocks -> {"Free", "Reserved", "Committed"}]
      /\ w \in [Blocks -> Requests \cup {0}]
      /\ g \in [Blocks -> 0 .. B]
  <2>1. /\ pool.state \in [Blocks -> {"Free", "Reserved", "Committed"}]
        /\ pool.resv \in [Blocks -> Requests \cup {0}]
        /\ pool.fill \in [Blocks -> 0 .. B]
    BY <1>1, PoolFields
  <2>2. 0 \in 0 .. B
    BY KVSizes
  <2> QED BY <2>1, <2>2
<1>6. /\ q \in Seq(Blocks) /\ ToSet(q) = ToSet(pool.free) \cup X
      /\ Apart(q)
  <2>1. ToSet(pool.free) \cap X = {}
    BY <1>4 DEF X
  <2> QED BY <1>4, <2>1, SetOfConcat, ApartConcat DEF X
<1> DEFINE p == ToFree(bs)
<1> HIDE DEF s, w, g, q
<1>7. p \in Pool /\ p.state = s /\ p.holders = pool.holders /\ p.resv = w /\ p.fill = g /\ p.free = q
  <2>1. p = WithFreed(pool, s, w, g, q)
    BY <1>2 DEF WithFreed
  <2> HIDE DEF p
  <2>2. q \in Seq(Blocks) /\ s \in States /\ w \in Reservations /\ g \in Levels
    BY <1>5, <1>6 DEF States, Reservations, Levels
  <2>3. /\ WithFreed(pool, s, w, g, q) \in Pool
        /\ WithFreed(pool, s, w, g, q).state = s
        /\ WithFreed(pool, s, w, g, q).holders = pool.holders
        /\ WithFreed(pool, s, w, g, q).resv = w
        /\ WithFreed(pool, s, w, g, q).fill = g
        /\ WithFreed(pool, s, w, g, q).free = q
    BY <1>1, <2>2, PoolFreed
  <2> QED BY <2>1, <2>3
<1> HIDE DEF p
<1>8. \A b \in Blocks : /\ p.state[b] = IF b \in X THEN "Free" ELSE pool.state[b]
                        /\ p.resv[b] = IF b \in X THEN 0 ELSE pool.resv[b]
                        /\ p.fill[b] = IF b \in X THEN 0 ELSE pool.fill[b]
  BY <1>7 DEF s, w, g
<1>9. ToSet(p.free) = {b \in Blocks : p.state[b] = "Free"} /\ Apart(p.free)
  BY <1>3, <1>4, <1>6, <1>7, <1>8, SMTT(30)
<1>10. Len(pool.free) <= Len(p.free)
  <2>1. Len(q) = Len(pool.free) + Len(bs) /\ Len(bs) \in Nat /\ Len(pool.free) \in Nat
    BY <1>4 DEF q
  <2> QED BY <1>7, <2>1
<1> QED BY <1>7, <1>8, <1>9, <1>10 DEF p, X

\* Holders let go: what the pool is then.
LEMMA KVDrop ==
  ASSUME TypeOK, Conserved, Refcounts, Apart(prefix), \A r \in Requests : Apart(req[r].table),
         NEW hs \in Seq(Requests \cup {Index}), Apart(hs),
         \A h \in ToSet(hs) : h # Index => Counted(h)
  PROVE  LET p == Dropped(hs)
             gone(b) == pool.holders[b] # {} /\ pool.holders[b] \subseteq ToSet(hs)
         IN
         /\ p \in Pool /\ Len(pool.free) <= Len(p.free)
         /\ \A b \in Blocks :
              /\ p.holders[b] = pool.holders[b] \ ToSet(hs)
              /\ p.state[b] = IF gone(b) THEN "Free" ELSE pool.state[b]
              /\ p.resv[b] = pool.resv[b]
              /\ ~gone(b) => p.fill[b] = pool.fill[b]
              /\ p.state[b] = "Reserved" <=> p.resv[b] # 0
              /\ p.state[b] = "Committed" <=> p.holders[b] # {}
         /\ ToSet(p.free) = {b \in Blocks : p.state[b] = "Free"} /\ Apart(p.free)
<1> DEFINE p == Dropped(hs)
           bs == Freed(hs)
           gone(b) == pool.holders[b] # {} /\ pool.holders[b] \subseteq ToSet(hs)
           d == [b \in Blocks |-> pool.holders[b] \ {h \in ToSet(hs) : b \in ToSet(Table(h))}]
           f == ToFree(bs)
<1>1. /\ bs \in Seq(Blocks) /\ Apart(bs) /\ \A b \in Blocks : b \in ToSet(bs) <=> gone(b)
  BY KVFreed
<1>2. ToSet(bs) \subseteq Blocks
  BY <1>1, SetOf
<1>3. \A b \in ToSet(bs) : pool.state[b] = "Committed"
  BY <1>1, <1>2, KVBlock
<1> HIDE DEF bs
<1>4. /\ f \in Pool /\ f.holders = pool.holders /\ Len(pool.free) <= Len(f.free)
      /\ \A b \in Blocks : /\ f.state[b] = IF b \in ToSet(bs) THEN "Free" ELSE pool.state[b]
                           /\ f.resv[b] = IF b \in ToSet(bs) THEN 0 ELSE pool.resv[b]
                           /\ f.fill[b] = IF b \in ToSet(bs) THEN 0 ELSE pool.fill[b]
      /\ ToSet(f.free) = {b \in Blocks : f.state[b] = "Free"} /\ Apart(f.free)
  <2>1. \A b \in ToSet(bs) : pool.state[b] # "Free"
    BY <1>3
  <2> QED BY <1>1, <2>1, KVToFree
<1> HIDE DEF f, gone
<1>5. p = [f EXCEPT !.holders = d]
  BY <1>4 DEF Dropped, f, bs, Pool
<1>6. ASSUME NEW b \in Blocks
      PROVE  pool.holders[b] \ {h \in ToSet(hs) : b \in ToSet(Table(h))} = pool.holders[b] \ ToSet(hs)
  <2>1. ASSUME NEW h \in ToSet(hs), h \in pool.holders[b] PROVE b \in ToSet(Table(h))
    <3>1. CASE h = Index
      BY <2>1, <3>1, KVBlock DEF Table
    <3>2. CASE h # Index
      <4>1. h \in Requests
        BY <2>1, <3>2, KVBlock
      <4> QED BY <2>1, <3>2, <4>1, KVBlock DEF Table
    <3> QED BY <3>1, <3>2
  <2> QED BY <2>1
<1>7. d \in [Blocks -> SUBSET (Requests \cup {Index})]
  <2>1. pool.holders \in [Blocks -> SUBSET (Requests \cup {Index})]
    BY KVUse, PoolFields
  <2> QED BY <2>1
<1> HIDE DEF d
<1>8. /\ p \in Pool /\ p.holders = d /\ p.state = f.state /\ p.resv = f.resv /\ p.fill = f.fill
      /\ p.free = f.free
  <2>1. p = WithHolders(f, d)
    BY <1>5 DEF WithHolders
  <2>2. d \in Holdings
    BY <1>7 DEF Holdings
  <2> QED BY <1>4, <2>1, <2>2, PoolHolders
<1> HIDE DEF p
<1>9. ASSUME NEW b \in Blocks
      PROVE  /\ p.holders[b] = pool.holders[b] \ ToSet(hs)
             /\ p.state[b] = IF gone(b) THEN "Free" ELSE pool.state[b]
             /\ p.resv[b] = pool.resv[b]
             /\ ~gone(b) => p.fill[b] = pool.fill[b]
             /\ p.state[b] = "Reserved" <=> p.resv[b] # 0
             /\ p.state[b] = "Committed" <=> p.holders[b] # {}
  <2>1. p.holders[b] = pool.holders[b] \ ToSet(hs)
    BY <1>6, <1>8 DEF d
  <2>2. b \in ToSet(bs) <=> gone(b)
    BY <1>1
  <2>3. /\ pool.state[b] \in {"Free", "Reserved", "Committed"}
        /\ pool.state[b] = "Reserved" <=> pool.resv[b] # 0
        /\ pool.state[b] = "Committed" <=> pool.holders[b] # {}
    BY KVBlock
  <2>4. gone(b) => pool.state[b] = "Committed" /\ pool.resv[b] = 0
    BY <1>3, <2>2, <2>3
  <2>5. /\ p.state[b] = IF gone(b) THEN "Free" ELSE pool.state[b]
        /\ p.resv[b] = pool.resv[b]
        /\ ~gone(b) => p.fill[b] = pool.fill[b]
    BY <1>4, <1>8, <2>2, <2>4
  <2>6. gone(b) <=> pool.holders[b] # {} /\ pool.holders[b] \ ToSet(hs) = {}
    BY DEF gone
  <2> QED BY <2>1, <2>3, <2>4, <2>5, <2>6
<1> QED BY <1>4, <1>8, <1>9 DEF p, gone

\* The plan of some requests is undone: what the pool is then.
LEMMA KVReturn ==
  ASSUME TypeOK, Conserved, Refcounts, \A r \in Requests : Apart(req[r].pending),
         NEW rs \in Seq(Requests), Apart(rs)
  PROVE  LET p == Returned(rs)
             back(b) == pool.resv[b] \in ToSet(rs)
         IN
         /\ p \in Pool
         /\ \A b \in Blocks :
              /\ p.holders[b] = pool.holders[b] \ {r \in ToSet(rs) : req[r].hit /\ b \in ToSet(prefix)}
              /\ p.state[b] = IF back(b) THEN "Free" ELSE pool.state[b]
              /\ p.resv[b] = IF back(b) THEN 0 ELSE pool.resv[b]
              /\ ~back(b) => p.fill[b] = pool.fill[b]
              /\ p.state[b] = "Reserved" <=> p.resv[b] # 0
         /\ ToSet(p.free) = {b \in Blocks : p.state[b] = "Free"} /\ Apart(p.free)
<1> DEFINE p == Returned(rs)
           n == Len(rs)
           ss == [i \in 1 .. n |-> req[rs[i]].pending]
           bs == Pending(rs)
           back(b) == pool.resv[b] \in ToSet(rs)
           d == [b \in Blocks |-> pool.holders[b] \ {r \in ToSet(rs) : req[r].hit /\ b \in ToSet(prefix)}]
           f == ToFree(bs)
<1>1. n \in Nat /\ DOMAIN rs = 1 .. n
  OBVIOUS
<1>2. bs = FlattenSeq(ss)
  BY <1>1 DEF Pending
<1>3. /\ \A i \in 1 .. n : rs[i] \in Requests /\ rs[i] \in ToSet(rs)
      /\ \A h \in ToSet(rs) : \E i \in 1 .. n : rs[i] = h
      /\ \A i, j \in 1 .. n : rs[i] = rs[j] => i = j
  BY <1>1, Listed DEF Apart
<1> HIDE DEF n
<1>4. \A r \in Requests : req[r].pending \in Seq(Blocks) /\ Apart(req[r].pending)
  BY KVRequest
<1>5. ss \in Seq(Seq(Blocks)) /\ Len(ss) = n /\ \A i \in 1 .. n : ss[i] = req[rs[i]].pending
  <2> DEFINE Q == Seq(Blocks)
  <2>1. \A i \in 1 .. n : req[rs[i]].pending \in Q
    BY <1>3, <1>4
  <2> HIDE DEF Q
  <2>2. ss \in [1 .. n -> Q]
    BY <2>1
  <2>3. ss \in Seq(Q) /\ Len(ss) = n
    BY <1>1, <2>2
  <2> QED BY <2>3 DEF Q
<1> HIDE DEF ss
<1>6. Apart(FlattenSeq(ss)) /\ FlattenSeq(ss) \in Seq(Blocks)
  <2>1. \A i \in 1 .. Len(ss) : Apart(ss[i])
    BY <1>3, <1>4, <1>5
  <2>2. \A i, j \in 1 .. Len(ss) : i # j => ToSet(ss[i]) \cap ToSet(ss[j]) = {}
    <3>1. ASSUME NEW i \in 1 .. n, NEW j \in 1 .. n, i # j PROVE ToSet(ss[i]) \cap ToSet(ss[j]) = {}
      <4>1. rs[i] \in Requests /\ rs[j] \in Requests /\ rs[i] # rs[j]
        BY <1>3, <3>1
      <4>2. ASSUME NEW b \in ToSet(req[rs[i]].pending), b \in ToSet(req[rs[j]].pending) PROVE FALSE
        <5>1. b \in Blocks
          BY <4>1, KVRequest
        <5>2. pool.resv[b] = rs[i] /\ pool.resv[b] = rs[j]
          BY <4>1, <4>2, <5>1, KVBlock
        <5> QED BY <4>1, <5>2
      <4> QED BY <1>5, <4>2
    <3> QED BY <1>5, <3>1
  <2> QED BY <1>5, <2>1, <2>2, FlattenApart, FlattenType, Zenon
<1>7. ASSUME NEW b \in Blocks PROVE b \in ToSet(bs) <=> back(b)
  <2>1. b \in ToSet(FlattenSeq(ss)) <=> \E i \in 1 .. Len(ss) : b \in ToSet(ss[i])
    BY <1>5, FlattenMembers
  <2>2. \A i \in 1 .. n : b \in ToSet(ss[i]) <=> pool.resv[b] = rs[i]
    <3>1. \A i \in 1 .. n : rs[i] \in Requests /\ ss[i] = req[rs[i]].pending
      BY <1>3, <1>5
    <3> QED BY <3>1, KVBlock
  <2> QED BY <1>2, <1>3, <1>5, <2>1, <2>2
<1>8. bs \in Seq(Blocks) /\ Apart(bs)
  BY <1>2, <1>6
<1>9. ToSet(bs) \subseteq Blocks
  BY <1>8, SetOf
<1>10. \A b \in ToSet(bs) : pool.state[b] = "Reserved"
  <2>1. \A r \in ToSet(rs) : r # 0
    <3>1. ToSet(rs) \subseteq Requests
      BY SetOf
    <3> QED BY <3>1, KVUse
  <2>2. ASSUME NEW b \in ToSet(bs) PROVE pool.state[b] = "Reserved"
    <3>1. b \in Blocks /\ pool.resv[b] # 0
      BY <1>7, <1>9, <2>1
    <3> QED BY <3>1, KVBlock
  <2> QED BY <2>2
<1> HIDE DEF bs
<1>11. /\ f \in Pool /\ f.holders = pool.holders
       /\ \A b \in Blocks : /\ f.state[b] = IF b \in ToSet(bs) THEN "Free" ELSE pool.state[b]
                            /\ f.resv[b] = IF b \in ToSet(bs) THEN 0 ELSE pool.resv[b]
                            /\ f.fill[b] = IF b \in ToSet(bs) THEN 0 ELSE pool.fill[b]
       /\ ToSet(f.free) = {b \in Blocks : f.state[b] = "Free"} /\ Apart(f.free)
  <2>1. \A b \in ToSet(bs) : pool.state[b] # "Free"
    BY <1>10
  <2> QED BY <1>8, <2>1, KVToFree
<1> HIDE DEF f, back
<1>12. p = WithHolders(f, d)
  <2>1. p = [f EXCEPT !.holders = d]
    BY <1>11 DEF Returned, f, bs, Pool
  <2> QED BY <2>1 DEF WithHolders
<1>13. d \in Holdings
  <2>1. pool.holders \in [Blocks -> SUBSET (Requests \cup {Index})]
    BY KVUse, PoolFields
  <2> QED BY <2>1 DEF Holdings
<1> HIDE DEF d
<1>14. /\ p \in Pool /\ p.holders = d /\ p.state = f.state /\ p.resv = f.resv /\ p.fill = f.fill
       /\ p.free = f.free
  BY <1>11, <1>12, <1>13, PoolHolders
<1> HIDE DEF p
<1>15. ASSUME NEW b \in Blocks
       PROVE  /\ p.holders[b] = pool.holders[b] \ {r \in ToSet(rs) : req[r].hit /\ b \in ToSet(prefix)}
              /\ p.state[b] = IF back(b) THEN "Free" ELSE pool.state[b]
              /\ p.resv[b] = IF back(b) THEN 0 ELSE pool.resv[b]
              /\ ~back(b) => p.fill[b] = pool.fill[b]
              /\ p.state[b] = "Reserved" <=> p.resv[b] # 0
  <2>1. p.holders[b] = pool.holders[b] \ {r \in ToSet(rs) : req[r].hit /\ b \in ToSet(prefix)}
    BY <1>14 DEF d
  <2>2. b \in ToSet(bs) <=> back(b)
    BY <1>7
  <2>3. pool.state[b] = "Reserved" <=> pool.resv[b] # 0
    BY KVBlock
  <2>4. /\ p.state[b] = IF back(b) THEN "Free" ELSE pool.state[b]
        /\ p.resv[b] = IF back(b) THEN 0 ELSE pool.resv[b]
        /\ ~back(b) => p.fill[b] = pool.fill[b]
    BY <1>11, <1>14, <2>2
  <2> QED BY <2>1, <2>3, <2>4
<1> QED BY <1>11, <1>14, <1>15 DEF p, back

\* The requests that arrive in an iteration.
LEMMA KVArrivals ==
  ASSUME TypeOK, KVQueues, pc = "arrive"
  PROVE  /\ Arriving \in Seq(Requests) /\ Apart(Arriving) /\ Rising(Arriving, Arrival)
         /\ \A r \in Requests : r \in ToSet(Arriving) <=> Arrival[r] = it
         /\ \A r \in ToSet(Arriving) : r \in Requests /\ req[r].status = "Future"
<1> DEFINE all == [r \in Requests |-> r]
           D == {r \in Requests : req[r].status = "Future" /\ par.specs[r].arrival <= it}
<1>1. Count \in Nat /\ Requests = 1 .. Count /\ it \in Nat
  BY KVUse, KVParam
<1>2. all \in Seq(Requests) /\ Apart(all) /\ Len(all) = Count
  BY <1>1 DEF Apart
<1>3. ToSet(all) = Requests
  <2>1. ToSet(all) = {all[i] : i \in 1 .. Count}
    <3> HIDE DEF all
    <3>1. ToSet(all) = {all[i] : i \in 1 .. Len(all)}
      BY <1>2, SetOf
    <3> QED BY <1>2, <3>1
  <2> QED BY <1>1, <2>1
<1>4. Arriving = Kept(all, D)
  BY DEF Arriving
<1> HIDE DEF all
<1>5. Kept(all, D) \in Seq(Requests) /\ Apart(Kept(all, D)) /\ ToSet(Kept(all, D)) = D
  <2>1. Kept(all, D) \in Seq(Requests)
    BY <1>2, KeptPlaces, Zenon
  <2>2. Apart(Kept(all, D))
    BY <1>2, KeptApart, Zenon
  <2>3. ToSet(Kept(all, D)) = ToSet(all) \cap D
    BY <1>2, KeptSet, Zenon
  <2> QED BY <1>3, <2>1, <2>2, <2>3
<1>6. ASSUME NEW r \in Requests PROVE r \in D <=> Arrival[r] = it
  <2>1. Arrival[r] \in Nat /\ Arrival[r] = par.specs[r].arrival
    BY KVRequest
  <2>2. req[r].status = "Future" <=> Arrival[r] >= it
    BY DEF KVQueues, KVRound
  <2> QED BY <1>1, <2>1, <2>2
<1>7. D \subseteq Requests /\ \A r \in D : req[r].status = "Future"
  OBVIOUS
<1> HIDE DEF D
<1>8. Rising(Kept(all, D), Arrival)
  <2> DEFINE k == Kept(all, D)
  <2>1. ASSUME NEW i \in 1 .. Len(k) PROVE Arrival[k[i]] = it
    <3>1. k[i] \in D
      <4>1. k \in Seq(Requests)
        BY <1>5
      <4> HIDE DEF k
      <4>2. k[i] \in ToSet(k)
        BY <4>1, Listed
      <4> QED BY <1>5, <4>2 DEF k
    <3> QED BY <1>6, <1>7, <3>1
  <2> HIDE DEF k
  <2> QED BY <1>1, <2>1 DEF Rising, k
<1> QED BY <1>4, <1>5, <1>6, <1>7, <1>8

\* The next state's part of the invariant, from what holds of its variables.
LEMMA KVTypeNext ==
  ASSUME TypeOK, par' = par, it' \in Nat, 1 <= it', it' <= MaxIter + 1, pc' \in Places, pool' \in Pool,
         req' = [r \in Requests |-> req'[r]], \A r \in Requests : req'[r] \in Live,
         waiting' \in Seq(Requests), running' \in Seq(Requests), admitted' \in Seq(Requests),
         prefix' \in Seq(Blocks), failed' \in BOOLEAN
  PROVE  TypeOK'
<1>1. /\ Requests' = Requests /\ Blocks' = Blocks /\ Pool' = Pool /\ Live' = Live
  BY KVFixed, Zenon
<1>2. par' \in Params
  BY DEF TypeOK
<1>3. it' \in 1 .. MaxIter + 1
  BY KVUse
<1> DEFINE L == Live
<1>4. req' \in [Requests -> L]
  <2>1. \A r \in Requests : req'[r] \in L
    OBVIOUS
  <2> HIDE DEF L
  <2> QED BY <2>1
<1> HIDE DEF L
<1>5. req' \in [Requests' -> Live']
  BY <1>1, <1>4, Zenon DEF L
<1>6. pool' \in Pool'
  BY <1>1, Zenon
<1>7. /\ waiting' \in Seq(Requests') /\ running' \in Seq(Requests') /\ admitted' \in Seq(Requests')
      /\ prefix' \in Seq(Blocks')
  BY <1>1, Zenon
<1> QED BY <1>2, <1>3, <1>5, <1>6, <1>7, Zenon DEF TypeOK, Places

\* Conserved after a step, from what the step leaves.
LEMMA KVConservedNext ==
  ASSUME par' = par,
         ToSet(pool'.free) = {b \in Blocks : pool'.state[b] = "Free"}, Apart(pool'.free),
         pool'.free \in Seq(Blocks),
         \A b \in Blocks : pool'.state[b] = "Reserved" <=> pool'.resv[b] # 0,
         \A b \in Blocks : \A r \in Requests : pool'.resv[b] = r <=> b \in ToSet(req'[r].pending)
  PROVE  Conserved'
<1>1. Requests' = Requests /\ Blocks' = Blocks
  BY KVFixed, Zenon
<1>2. IsInjective(pool'.free)
  BY DEF Apart, IsInjective
<1> QED BY <1>1, <1>2 DEF Conserved

\* Refcounts after a step, from what the step leaves.
LEMMA KVRefsNext ==
  ASSUME TypeOK, par' = par,
         \A b \in Blocks : /\ pool'.holders[b] \subseteq Requests \cup {Index}
                           /\ pool'.state[b] = "Committed" <=> pool'.holders[b] # {}
                           /\ Index \in pool'.holders[b] <=> b \in ToSet(prefix'),
         \A b \in Blocks : \A r \in Requests :
            r \in pool'.holders[b] <=> Counted(r)' /\ b \in ToSet(req'[r].table)
  PROVE  Refcounts'
<1>1. Requests' = Requests /\ Blocks' = Blocks /\ Index' = Index
  BY KVFixed, Zenon
<1>2. Index \notin Requests
  BY KVUse
<1>3. \A b \in Blocks :
        pool'.holders[b] = {r \in Requests : Counted(r)' /\ b \in ToSet(req'[r].table)}
                             \cup {i \in {Index} : b \in ToSet(prefix')}
  BY <1>2
<1> QED BY <1>1, <1>3 DEF Refcounts

\* The tables and the cached prompt are as they were.
LEMMA KVPrefixSame ==
  ASSUME KVPrefix, par' = par, pool'.fill = pool.fill, prefix' = prefix,
         \A r \in Requests : req'[r].table = req[r].table
  PROVE  KVPrefix'
<1>1. Requests' = Requests /\ Blocks' = Blocks /\ \A r : Shared(r)' = Shared(r)
  BY KVFixed, Zenon
<1>2. /\ prefix # << >> => Len(prefix) = SysBlocks
      /\ Apart(prefix)
      /\ \A i \in DOMAIN prefix : pool.fill[prefix[i]] = B
  BY DEF KVPrefix
<1>3. \A r \in Requests : \A i \in DOMAIN req'[r].table :
       \A j \in DOMAIN prefix : req'[r].table[i] = prefix[j] => i = j /\ Shared(r)
  BY DEF KVPrefix
<1>4. \A r, q \in Requests : \A b \in Blocks :
       r # q /\ b \in ToSet(req'[r].table) /\ b \in ToSet(req'[q].table) => b \in ToSet(prefix)
  BY DEF KVPrefix
<1> QED BY <1>1, <1>2, <1>3, <1>4 DEF KVPrefix

\* Arrivals join the queue in order.
LEMMA KVArrive == ASSUME KVInv, Arrive PROVE KVInv'
<1> DEFINE new == Arriving
           here == [r \in Requests |-> IF r \in ToSet(new) THEN [req[r] EXCEPT !.status = "Waiting"] ELSE req[r]]
           idle == running = << >> /\ waiting' = << >>
<1>0. TypeOK /\ KVQueues /\ KVIdle /\ KVServed /\ KVAdmitted /\ KVPrefix /\ Conserved /\ Refcounts
  BY DEF KVInv
<1>1. /\ pc = "arrive" /\ it <= MaxIter /\ waiting' = waiting \o new
      /\ par' = par /\ pool' = pool /\ running' = running /\ admitted' = admitted
      /\ prefix' = prefix /\ failed' = failed
      /\ \/ pc' = "end" /\ it' = it /\ waiting' = << >>
         \/ pc' = "arrive" /\ it' = it + 1
         \/ pc' = "plan" /\ it' = it
  BY Zenon DEF Arrive
<1> DEFINE there == [r \in Requests |-> [here[r] EXCEPT !.s = 0, !.dq = 0, !.hit = FALSE]]
<1>11a. (req' = here /\ pc' \in {"end", "arrive"}) \/ req' = there
  BY Zenon DEF Arrive
<1>2. /\ new \in Seq(Requests) /\ Apart(new) /\ Rising(new, Arrival)
      /\ \A r \in Requests : r \in ToSet(new) <=> Arrival[r] = it
      /\ \A r \in ToSet(new) : r \in Requests /\ req[r].status = "Future"
  BY <1>0, <1>1, KVArrivals
<1> HIDE DEF new
<1>3. ASSUME NEW r \in Requests
      PROVE  /\ req'[r].status = IF r \in ToSet(new) THEN "Waiting" ELSE req[r].status
             /\ req'[r].T = req[r].T /\ req'[r].generated = req[r].generated
             /\ req'[r].table = req[r].table /\ req'[r].pending = req[r].pending
             /\ pc' = "plan" => ~req'[r].hit
             /\ req'[r] \in Live
  <2>1. req[r] \in Live
    BY <1>0, KVRequest
  <2>2. here[r] = IF r \in ToSet(new) THEN [req[r] EXCEPT !.status = "Waiting"] ELSE req[r]
    OBVIOUS
  <2> HIDE DEF here
  <2>3. /\ here[r].status = IF r \in ToSet(new) THEN "Waiting" ELSE req[r].status
        /\ here[r].T = req[r].T /\ here[r].generated = req[r].generated
        /\ here[r].table = req[r].table /\ here[r].pending = req[r].pending
        /\ here[r].hit = req[r].hit /\ here[r].s = req[r].s /\ here[r].dq = req[r].dq
        /\ DOMAIN here[r] = DOMAIN req[r] /\ here[r] = [f \in DOMAIN req[r] |-> here[r][f]]
    BY <2>1, <2>2, SMTT(30) DEF Live
  <2>4. here[r] \in Live
    BY <2>1, <2>3, LiveFields, LiveIs, SMTT(30)
  <2>5. CASE req' = here /\ pc' \in {"end", "arrive"}
    BY <2>3, <2>4, <2>5
  <2>6. CASE req' = there
    <3>1. req'[r] = [here[r] EXCEPT !.s = 0, !.dq = 0, !.hit = FALSE]
      BY <2>6
    <3>2. /\ req'[r].status = here[r].status
          /\ req'[r].T = here[r].T /\ req'[r].generated = here[r].generated
          /\ req'[r].table = here[r].table /\ req'[r].pending = here[r].pending
          /\ req'[r].hit = FALSE /\ req'[r].s = 0 /\ req'[r].dq = 0
          /\ DOMAIN req'[r] = DOMAIN here[r] /\ req'[r] = [f \in DOMAIN here[r] |-> req'[r][f]]
      BY <2>4, <3>1 DEF Live
    <3> DEFINE m == here[r]
               l == req'[r]
    <3>3. m.status \in {"Future", "Waiting", "Running", "Finished", "Canceled"} /\ m.T \in Nat
          /\ m.generated \in Nat /\ m.table \in Seq(Blocks) /\ m.pending \in Seq(Blocks)
      BY <2>4, LiveFields
    <3>4. /\ l.status = m.status /\ l.T = m.T /\ l.generated = m.generated
          /\ l.table = m.table /\ l.pending = m.pending /\ l.hit = FALSE /\ l.s = 0 /\ l.dq = 0
          /\ DOMAIN l = DOMAIN m /\ l = [f \in DOMAIN m |-> l[f]] /\ m \in Live
      BY <2>4, <3>2
    <3> HIDE DEF l, m
    <3>5. /\ l.status \in {"Future", "Waiting", "Running", "Finished", "Canceled"} /\ l.T \in Nat
          /\ l.generated \in Nat /\ l.table \in Seq(Blocks) /\ l.pending \in Seq(Blocks)
          /\ l.hit \in BOOLEAN /\ l.s \in Nat /\ l.dq \in Nat
      <4>1. 0 \in Nat /\ FALSE \in BOOLEAN
        OBVIOUS
      <4> QED BY <3>3, <3>4, <4>1, Zenon
    <3>6. l \in Live
      BY <3>4, <3>5, LiveIs, Zenon
    <3> QED BY <2>3, <3>2, <3>6 DEF l
  <2> QED BY <1>11a, <2>5, <2>6

<1>11b. req' = [r \in Requests |-> req'[r]]
  BY <1>11a
<1> HIDE DEF here, there
<1>4. /\ admitted = << >> /\ ToSet(admitted) = {} /\ admitted' = << >>
      /\ \A r : Counted(r) /\ Counted(r)'
  <2>1. admitted = << >> /\ pc' \notin {"admit", "reserve"}
    BY <1>0, <1>1 DEF KVQueues
  <2> QED BY <1>1, <2>1, SetOfEmpty DEF Counted
<1>5. TypeOK'
  <2>1. waiting' \in Seq(Requests) /\ pc' \in Places
    <3>1. waiting' \in Seq(Requests)
      BY <1>0, <1>1, <1>2, KVUse, ConcatProperties, Zenon
    <3>2. pc' \in Places
      BY <1>1 DEF Places
    <3> QED BY <3>1, <3>2
  <2>2. it' \in Nat /\ 1 <= it' /\ it' <= MaxIter + 1
    <3>1. it \in 1 .. MaxIter + 1
      BY <1>0, Zenon DEF TypeOK
    <3>2. it \in Nat /\ it <= MaxIter /\ MaxIter \in Nat
      BY <1>0, <1>1, KVUse, Zenon
    <3>3. 1 <= it
      BY <3>1, <3>2
    <3> QED BY <1>1, <3>2, <3>3
  <2> QED BY <1>0, <1>1, <1>3, <1>11b, <1>4, <2>1, <2>2, KVUse, KVTypeNext

<1>7. KVQueues'
  <2>1. /\ ToSet(waiting') = ToSet(waiting) \cup ToSet(new)
        /\ Apart(waiting) /\ Rising(waiting, Arrival) /\ admitted \o waiting = waiting
        /\ Apart(running)
    <3>1. admitted \o waiting = waiting
      BY <1>0, <1>4, KVUse
    <3>2. ToSet(waiting') = ToSet(waiting) \cup ToSet(new)
      <4>1. waiting \in Seq(Requests) /\ new \in Seq(Requests)
        BY <1>0, <1>2, KVUse, Zenon
      <4>2. ToSet(waiting \o new) = ToSet(waiting) \cup ToSet(new)
        BY <4>1, SetOfConcat
      <4> QED BY <1>1, <4>2, Zenon
    <3> QED BY <1>0, <3>1, <3>2, Zenon DEF KVQueues
  <2>2. \A r \in ToSet(waiting) : r \in Requests /\ req[r].status = "Waiting" /\ Arrival[r] < it
    <3>1. \A r \in ToSet(waiting) : /\ req[r].status = "Waiting" /\ ~(Arrival[r] >= it)
                                    /\ r \in Requests
      BY <1>0, <1>1, KVUse DEF KVQueues, KVRound
    <3>2. it \in Nat /\ \A r \in Requests : Arrival[r] \in Nat
      BY <1>0, KVUse
    <3> QED BY <3>1, <3>2
  <2>3. Apart(waiting')
    <3>1. ToSet(waiting) \cap ToSet(new) = {}
      BY <1>2, <2>2
    <3> QED BY <1>0, <1>1, <1>2, <2>1, <3>1, KVUse, ApartConcat
  <2>4. Rising(waiting', Arrival)
    <3>1. ASSUME NEW x \in ToSet(waiting), NEW y \in ToSet(new) PROVE Arrival[x] <= Arrival[y]
      <4>1. Arrival[x] < it /\ Arrival[y] = it /\ x \in Requests
        BY <1>2, <2>2
      <4>2. it \in Nat /\ Arrival[x] \in Nat
        BY <1>0, <4>1, KVUse
      <4> QED BY <4>1, <4>2
    <3> QED BY <1>0, <1>1, <1>2, <2>1, <3>1, KVUse, RisingConcat
  <2>5. admitted' \o waiting' = waiting' /\ ToSet(admitted') \cup ToSet(waiting') = ToSet(waiting')
    <3>1. waiting' \in Seq(Requests)
      BY <1>0, <1>1, <1>2, KVUse, ConcatProperties, Zenon
    <3> QED BY <1>4, <3>1, SetOfEmpty
  <2>6. ASSUME NEW r \in Requests
        PROVE  /\ req'[r].status = "Waiting" <=> r \in ToSet(waiting')
               /\ req'[r].status = "Running" <=> r \in ToSet(running)
               /\ req'[r].status = "Future"  <=> Arrival[r] >= KVRound'
    <3>1. /\ req[r].status = "Waiting" <=> r \in ToSet(waiting)
          /\ req[r].status = "Running" <=> r \in ToSet(running)
          /\ req[r].status = "Future"  <=> Arrival[r] >= it
      BY <1>0, <1>1, <1>4 DEF KVQueues, KVRound
    <3>2. Arrival[r] \in Nat /\ it \in Nat
      BY <1>0, KVUse
    <3>3. r \in ToSet(new) <=> Arrival[r] = it
      BY <1>2
    <3>4. KVRound' = it + 1
      BY <1>1 DEF KVRound
    <3> QED BY <1>3, <2>1, <3>1, <3>2, <3>3, <3>4, SMTT(30)
  <2>7. pc' # "arrive" => it' <= MaxIter
    BY <1>1
  <2>8. Requests' = Requests /\ Arrival' = Arrival
    BY <1>1, KVFixed, Zenon
  <2> QED BY <1>1, <1>4, <2>1, <2>3, <2>4, <2>5, <2>6, <2>7, <2>8 DEF KVQueues
<1>8. KVIdle'
  <2>1. \A r : InBatch(r)' <=> InBatch(r)
    BY <1>1, Zenon DEF InBatch
  <2>2. ~Reserving /\ ~Reserving' /\ Requests' = Requests
    <3>1. Requests' = Requests
      BY <1>1, KVFixed, Zenon
    <3> QED BY <1>1, <3>1 DEF Reserving
  <2>3. ASSUME NEW r \in Requests
        PROVE  /\ ~InBatch(r) => req'[r].table = << >> /\ req'[r].T = 0
               /\ req'[r].pending = << >>
               /\ Apart(req'[r].table) /\ Apart(req'[r].pending)
    <3>1. /\ ~InBatch(r) => req[r].table = << >> /\ req[r].T = 0
          /\ req[r].pending = << >>
          /\ Apart(req[r].table) /\ Apart(req[r].pending)
      BY <1>0, <2>2, Zenon DEF KVIdle
    <3> QED BY <1>3, <3>1
  <2> QED BY <2>1, <2>2, <2>3, Zenon DEF KVIdle
<1>9. KVServed'
  <2>1. ~Planning' /\ running' = running /\ pool' = pool
    BY <1>1 DEF Planning
  <2>2. \A r : Prompt(r)' = Prompt(r)
    BY <1>1, KVFixed, Zenon
  <2>3. ASSUME NEW r \in ToSet(running)
        PROVE  /\ req'[r].generated > 0
               /\ req'[r].T = Prompt(r) + req'[r].generated - 1
               /\ Len(req'[r].table) = BlocksFor(req'[r].T)
               /\ pc' \notin {"arrive", "release", "end"} => ~req'[r].hit
               /\ \A i \in DOMAIN req'[r].table : pool.fill[req'[r].table[i]] = Tokens(req'[r].T, i - 1)
    <3>1. r \in Requests
      BY <1>0, KVUse
    <3>2. /\ req[r].generated > 0
          /\ req[r].T = Prompt(r) + req[r].generated - 1
          /\ Len(req[r].table) = BlocksFor(req[r].T)
          /\ \A i \in DOMAIN req[r].table : pool.fill[req[r].table[i]] = Tokens(req[r].T, i - 1)
      BY <1>0 DEF KVServed
    <3>3. pc' \notin {"arrive", "release", "end"} => ~req'[r].hit
      BY <1>1, <1>3, <3>1
    <3> QED BY <1>3, <3>1, <3>2, <3>3
  <2> QED BY <2>1, <2>2, <2>3 DEF KVServed
<1>10. KVAdmitted' /\ KVFeasible'
  <2>1. ToSet(admitted') = {}
    BY <1>4, SetOfEmpty, Zenon
  <2> QED BY <1>1, <2>1 DEF KVAdmitted, KVFeasible
<1>11. KVPrefix'
  BY <1>0, <1>1, <1>3, KVPrefixSame
<1>12. Conserved'
  <2>1. \A b \in Blocks : \A r \in Requests : pool'.resv[b] = r <=> b \in ToSet(req'[r].pending)
    BY <1>0, <1>1, <1>3 DEF Conserved
  <2>2. pool.free \in Seq(Blocks)
    BY <1>0, KVUse, PoolFields
  <2>3. Apart(pool.free) /\ ToSet(pool.free) = {b \in Blocks : pool.state[b] = "Free"}
        /\ \A b \in Blocks : pool.state[b] = "Reserved" <=> pool.resv[b] # 0
    BY <1>0, <2>2 DEF Conserved, Apart, IsInjective
  <2> QED BY <1>1, <2>1, <2>2, <2>3, KVConservedNext
<1>13. Refcounts'
  <2>1. ASSUME NEW b \in Blocks
        PROVE  /\ pool'.holders[b] \subseteq Requests \cup {Index}
               /\ pool'.state[b] = "Committed" <=> pool'.holders[b] # {}
               /\ Index \in pool'.holders[b] <=> b \in ToSet(prefix')
               /\ \A r \in Requests : r \in pool'.holders[b] <=> Counted(r)' /\ b \in ToSet(req'[r].table)
    BY <1>0, <1>1, <1>3, <1>4, KVBlock
  <2> QED BY <1>0, <1>1, <2>1, KVRefsNext
<1> QED BY <1>5, <1>7, <1>8, <1>9, <1>10, <1>11, <1>12, <1>13 DEF KVInv


---------------------------------------------------------------------------
(* What stays when a part of the state does.                               *)

\* A step that leaves the pool and what is pending keeps Conserved.
LEMMA KVConservedSame ==
  ASSUME TypeOK, Conserved, par' = par, pool' = pool,
         \A r \in Requests : req'[r].pending = req[r].pending
  PROVE  Conserved'
<1>1. \A b \in Blocks : \A r \in Requests : pool'.resv[b] = r <=> b \in ToSet(req'[r].pending)
  BY DEF Conserved
<1>2. pool.free \in Seq(Blocks)
  BY KVUse, PoolFields
<1>3. Apart(pool.free) /\ ToSet(pool.free) = {b \in Blocks : pool.state[b] = "Free"}
      /\ \A b \in Blocks : pool.state[b] = "Reserved" <=> pool.resv[b] # 0
  BY <1>2 DEF Conserved, Apart, IsInjective
<1> QED BY <1>1, <1>2, <1>3, KVConservedNext

\* A step that leaves the pool, the index and who counts keeps Refcounts.
LEMMA KVRefsSame ==
  ASSUME TypeOK, Conserved, Refcounts, par' = par, pool' = pool, prefix' = prefix,
         \A r \in Requests : \A b \in Blocks :
           Counted(r)' /\ b \in ToSet(req'[r].table) <=> Counted(r) /\ b \in ToSet(req[r].table)
  PROVE  Refcounts'
<1>1. ASSUME NEW b \in Blocks
      PROVE  /\ pool'.holders[b] \subseteq Requests \cup {Index}
             /\ pool'.state[b] = "Committed" <=> pool'.holders[b] # {}
             /\ Index \in pool'.holders[b] <=> b \in ToSet(prefix')
             /\ \A r \in Requests : r \in pool'.holders[b] <=> Counted(r)' /\ b \in ToSet(req'[r].table)
  BY KVBlock
<1> QED BY <1>1, KVRefsNext

\* A step that leaves the queues keeps what is said of them.
LEMMA KVQueuesSame ==
  ASSUME KVQueues, par' = par, running' = running, KVRound' = KVRound,
         admitted' \o waiting' = admitted \o waiting,
         ToSet(admitted') \cup ToSet(waiting') = ToSet(admitted) \cup ToSet(waiting),
         \A r \in Requests : req'[r].status = req[r].status,
         pc' \in {"arrive", "plan", "release", "end"} => admitted' = << >>,
         pc' # "arrive" => it' <= MaxIter
  PROVE  KVQueues'
<1>1. Requests' = Requests /\ Arrival' = Arrival
  BY KVFixed, Zenon
<1>2. /\ Apart(running) /\ Apart(admitted \o waiting) /\ Rising(admitted \o waiting, Arrival)
      /\ \A r \in Requests :
           /\ req[r].status = "Waiting" <=> r \in ToSet(admitted) \cup ToSet(waiting)
           /\ req[r].status = "Running" <=> r \in ToSet(running)
           /\ req[r].status = "Future"  <=> Arrival[r] >= KVRound
  BY Zenon DEF KVQueues
<1>3. \A r \in Requests :
           /\ req'[r].status = "Waiting" <=> r \in ToSet(admitted') \cup ToSet(waiting')
           /\ req'[r].status = "Running" <=> r \in ToSet(running)
           /\ req'[r].status = "Future"  <=> Arrival[r] >= KVRound'
  BY <1>2
<1> QED BY <1>1, <1>2, <1>3 DEF KVQueues

---------------------------------------------------------------------------

\* What a plan needs.
LEMMA KVPlanNeed ==
  ASSUME TypeOK
  PROVE  /\ InPlan \in Seq(Requests) /\ PlanNeed \in Nat
         /\ ToSet(InPlan) = ToSet(running) \cup ToSet(admitted)
<1> DEFINE P == running \o admitted
           ds == [i \in DOMAIN P |-> req[P[i]].dq]
<1>1. /\ running \in Seq(Requests) /\ admitted \in Seq(Requests)
  BY KVUse
<1>2. P \in Seq(Requests) /\ ToSet(P) = ToSet(running) \cup ToSet(admitted) /\ InPlan = P
  BY <1>1, SetOfConcat DEF InPlan
<1> HIDE DEF P
<1>3. \A i \in 1 .. Len(P) : P[i] \in Requests
  BY <1>2, Listed
<1>4. \A i \in 1 .. Len(P) : req[P[i]].dq \in Nat
  BY <1>3, KVRequest
<1>5. ds \in Seq(Nat)
  <2>1. DOMAIN P = 1 .. Len(P) /\ Len(P) \in Nat
    BY <1>2
  <2> QED BY <1>4, <2>1
<1>6. PlanNeed = Total(ds)
  BY <1>2 DEF PlanNeed, Need
<1> HIDE DEF ds
<1> QED BY <1>2, <1>5, <1>6, TotalNat

\* The decodes fit and planning goes on.
LEMMA KVDecodesFit == ASSUME KVInv, DecodesFit PROVE KVInv'
<1>0. TypeOK /\ KVQueues /\ KVIdle /\ KVServed /\ KVPrefix /\ Conserved /\ Refcounts
  BY DEF KVInv
<1>1. /\ pc = "plan" /\ pc' = "admit" /\ DecodeNeed <= Len(pool.free)
      /\ par' = par /\ it' = it /\ pool' = pool /\ waiting' = waiting /\ running' = running
      /\ admitted' = admitted /\ prefix' = prefix /\ failed' = failed
  BY Zenon DEF DecodesFit, Free
<1>2. req' = [r \in Requests |-> IF r \in ToSet(running)
                                THEN [req[r] EXCEPT !.s = 1, !.dq = DecodeDq(r)] ELSE req[r]]
  BY Zenon DEF DecodesFit
<1>3. ASSUME NEW r \in Requests
      PROVE  /\ req'[r].status = req[r].status
             /\ req'[r].T = req[r].T /\ req'[r].generated = req[r].generated
             /\ req'[r].table = req[r].table /\ req'[r].pending = req[r].pending
             /\ req'[r].hit = req[r].hit
             /\ r \in ToSet(running) => req'[r].s = 1 /\ req'[r].dq = DecodeDq(r)
             /\ req'[r] \in Live
             /\ DecodeDq(r) \in Nat
  <2> DEFINE m == req[r]
             l == req'[r]
  <2>1. m \in Live /\ m.T \in Nat
    BY <1>0, KVRequest
  <2>2. DecodeDq(r) \in Nat
    <3>1. \A t \in Nat : BlocksFor(t + 1) - BlocksFor(t) \in Nat
      <4>1. ASSUME NEW t \in Nat PROVE BlocksFor(t + 1) - BlocksFor(t) \in Nat
        <5>1. t + 1 \in Nat
          OBVIOUS
        <5>2. BlocksFor(t) \in Nat /\ BlocksFor(t) <= BlocksFor(t + 1) /\ BlocksFor(t + 1) \in Nat
          BY <5>1, KVSizes, Zenon
        <5> QED BY <5>2
      <4> QED BY <4>1
    <3> QED BY <2>1, <3>1 DEF DecodeDq
  <2>3. l = IF r \in ToSet(running) THEN [m EXCEPT !.s = 1, !.dq = DecodeDq(r)] ELSE m
    BY <1>2
  <2> HIDE DEF l, m
  <2>4. /\ l.status = m.status
        /\ l.T = m.T /\ l.generated = m.generated
        /\ l.table = m.table /\ l.pending = m.pending /\ l.hit = m.hit
        /\ r \in ToSet(running) => l.s = 1 /\ l.dq = DecodeDq(r)
        /\ r \notin ToSet(running) => l.s = m.s /\ l.dq = m.dq
        /\ DOMAIN l = DOMAIN m /\ l = [f \in DOMAIN m |-> l[f]]
    BY <2>1, <2>3 DEF Live
  <2>5. l \in Live
    <3>1. /\ m.status \in {"Future", "Waiting", "Running", "Finished", "Canceled"} /\ m.T \in Nat
          /\ m.generated \in Nat /\ m.table \in Seq(Blocks) /\ m.pending \in Seq(Blocks)
          /\ m.hit \in BOOLEAN /\ m.s \in Nat /\ m.dq \in Nat /\ 1 \in Nat
      BY <2>1, LiveFields
    <3>2. /\ l.status \in {"Future", "Waiting", "Running", "Finished", "Canceled"} /\ l.T \in Nat
          /\ l.generated \in Nat /\ l.table \in Seq(Blocks) /\ l.pending \in Seq(Blocks)
          /\ l.hit \in BOOLEAN /\ l.s \in Nat /\ l.dq \in Nat
      BY <2>2, <2>4, <3>1, Zenon
    <3> QED BY <2>1, <2>4, <3>2, LiveIs, Zenon
  <2> QED BY <2>2, <2>4, <2>5 DEF l, m
<1>4. req' = [r \in Requests |-> req'[r]]
  BY <1>2
<1>5. /\ admitted = << >> /\ ToSet(admitted) = {} /\ InPlan' = running
      /\ \A r : Counted(r) /\ Counted(r)'
  <2>1. admitted = << >>
    BY <1>0, <1>1 DEF KVQueues
  <2>2. running \o << >> = running
    BY <1>0, KVUse
  <2> QED BY <1>1, <2>1, <2>2, SetOfEmpty DEF Counted, InPlan
<1>6. TypeOK'
  <2>1. it \in 1 .. MaxIter + 1 /\ it \in Nat /\ MaxIter \in Nat
    BY <1>0, KVUse, Zenon DEF TypeOK
  <2>2. 1 <= it /\ it <= MaxIter + 1 /\ pc' \in Places
    BY <1>1, <2>1 DEF Places
  <2> QED BY <1>0, <1>1, <1>3, <1>4, <2>1, <2>2, KVUse, KVTypeNext
<1>7. KVQueues'
  <2>1. KVRound' = KVRound
    BY <1>1 DEF KVRound
  <2>2. pc' # "arrive" => it' <= MaxIter
    BY <1>0, <1>1 DEF KVQueues
  <2> QED BY <1>0, <1>1, <1>3, <2>1, <2>2, KVQueuesSame
<1>8. KVIdle'
  <2>1. \A r : InBatch(r)' <=> InBatch(r)
    BY <1>1, Zenon DEF InBatch
  <2>2. ~Reserving /\ ~Reserving' /\ Requests' = Requests
    <3>1. Requests' = Requests
      BY <1>1, KVFixed, Zenon
    <3> QED BY <1>1, <3>1 DEF Reserving
  <2>3. ASSUME NEW r \in Requests
        PROVE  /\ ~InBatch(r) => req'[r].table = << >> /\ req'[r].T = 0
               /\ req'[r].pending = << >>
               /\ Apart(req'[r].table) /\ Apart(req'[r].pending)
    <3>1. /\ ~InBatch(r) => req[r].table = << >> /\ req[r].T = 0
          /\ req[r].pending = << >>
          /\ Apart(req[r].table) /\ Apart(req[r].pending)
      BY <1>0, <2>2, Zenon DEF KVIdle
    <3> QED BY <1>3, <3>1
  <2> QED BY <2>1, <2>2, <2>3, Zenon DEF KVIdle
<1>9. KVServed'
  <2>1. running' = running /\ pool' = pool
    BY <1>1
  <2>2. \A r : Prompt(r)' = Prompt(r)
    BY <1>1, KVFixed, Zenon
  <2>3. ASSUME NEW r \in ToSet(running)
        PROVE  /\ req'[r].generated > 0
               /\ req'[r].T = Prompt(r) + req'[r].generated - 1
               /\ Len(req'[r].table) = BlocksFor(req'[r].T)
               /\ ~req'[r].hit
               /\ req'[r].s = 1 /\ req'[r].dq = DecodeDq(r)'
               /\ \A i \in DOMAIN req'[r].table : pool.fill[req'[r].table[i]] = Tokens(req'[r].T, i - 1)
    <3>1. r \in Requests
      BY <1>0, KVUse
    <3>2. /\ req[r].generated > 0
          /\ req[r].T = Prompt(r) + req[r].generated - 1
          /\ Len(req[r].table) = BlocksFor(req[r].T)
          /\ ~req[r].hit
          /\ \A i \in DOMAIN req[r].table : pool.fill[req[r].table[i]] = Tokens(req[r].T, i - 1)
      BY <1>0, <1>1 DEF KVServed
    <3>3. DecodeDq(r)' = DecodeDq(r)
      BY <1>3, <3>1 DEF DecodeDq
    <3> QED BY <1>3, <3>1, <3>2, <3>3
  <2> QED BY <2>1, <2>2, <2>3 DEF KVServed
<1>10. KVAdmitted'
  BY <1>1, <1>5 DEF KVAdmitted
<1>11. KVFeasible'
  <2>1. PlanNeed' = Total([i \in DOMAIN running |-> req'[running[i]].dq])
    BY <1>5, Zenon DEF PlanNeed, Need
  <2>2. \A i \in DOMAIN running : running[i] \in Requests /\ running[i] \in ToSet(running)
    BY <1>0, KVUse, Listed
  <2>3. [i \in DOMAIN running |-> req'[running[i]].dq] = [i \in DOMAIN running |-> DecodeDq(running[i])]
    BY <1>3, <2>2
  <2>4. PlanNeed' = DecodeNeed
    BY <2>1, <2>3, Zenon DEF DecodeNeed
  <2> QED BY <1>1, <2>4 DEF KVFeasible
<1>12. KVPrefix'
  BY <1>0, <1>1, <1>3, KVPrefixSame
<1>13. Conserved' /\ Refcounts'
  BY <1>0, <1>1, <1>3, <1>5, KVConservedSame, KVRefsSame
<1> QED BY <1>6, <1>7, <1>8, <1>9, <1>10, <1>11, <1>12, <1>13 DEF KVInv

\* Planning ends with nothing changed.
LEMMA KVPlanned == ASSUME KVInv, Planned PROVE KVInv'
<1>0. TypeOK /\ KVQueues /\ KVIdle /\ KVServed /\ KVAdmitted /\ KVPrefix /\ KVFeasible /\ Conserved /\ Refcounts
  BY DEF KVInv
<1>1. /\ pc = "admit" /\ pc' = "reserve"
      /\ par' = par /\ it' = it /\ pool' = pool /\ waiting' = waiting /\ running' = running
      /\ admitted' = admitted /\ prefix' = prefix /\ failed' = failed /\ req' = req
  BY Zenon DEF Planned
<1>2. TypeOK'
  BY <1>0, <1>1, KVFixed, Zenon DEF TypeOK, Places
<1>3. KVQueues'
  <2>1. KVRound' = KVRound
    BY <1>1 DEF KVRound
  <2>2. pc' # "arrive" => it' <= MaxIter
    BY <1>0, <1>1 DEF KVQueues
  <2> QED BY <1>0, <1>1, <2>1, <2>2, KVQueuesSame
<1>4. KVIdle'
  <2>1. (\A r : InBatch(r)' <=> InBatch(r)) /\ Requests' = Requests
    BY <1>1, KVFixed, Zenon DEF InBatch
  <2>2. ~Reserving /\ ~Reserving'
    BY <1>1 DEF Reserving
  <2> QED BY <1>0, <1>1, <2>1, <2>2, Zenon DEF KVIdle
<1>5. KVServed' /\ KVAdmitted'
  <2>1. \A r : Prompt(r)' = Prompt(r) /\ Shared(r)' = Shared(r) /\ DecodeDq(r)' = DecodeDq(r)
    BY <1>1, KVFixed, Zenon DEF DecodeDq
  <2>2. Planning /\ Planning'
    BY <1>1 DEF Planning
  <2>3. KVServed'
    BY <1>0, <1>1, <2>1, <2>2 DEF KVServed
  <2>4. KVAdmitted'
    BY <1>0, <1>1, <2>1 DEF KVAdmitted
  <2> QED BY <2>3, <2>4
<1>6. KVFeasible'
  <2>1. PlanNeed' = PlanNeed
    BY <1>1, Zenon DEF PlanNeed, Need, InPlan
  <2> QED BY <1>0, <1>1, <2>1 DEF KVFeasible
<1>7. KVPrefix'
  BY <1>0, <1>1, KVPrefixSame
<1>8. Conserved' /\ Refcounts'
  <2>1. \A r : Counted(r)' <=> Counted(r)
    BY <1>1 DEF Counted
  <2> QED BY <1>0, <1>1, <2>1, KVConservedSame, KVRefsSame
<1> QED BY <1>2, <1>3, <1>4, <1>5, <1>6, <1>7, <1>8 DEF KVInv

\* The cached prompt is given up.
LEMMA KVEvict ==
  ASSUME KVInv, NEW planned, (pc = "plan" /\ planned = << >>) \/ (pc = "admit" /\ planned = admitted),
         Evictable(planned), EvictPrefix,
         UNCHANGED <<par, it, pc, req, waiting, running, admitted, failed>>
  PROVE  KVInv'
<1>0. TypeOK /\ KVQueues /\ KVIdle /\ KVServed /\ KVAdmitted /\ KVPrefix /\ KVFeasible /\ Conserved /\ Refcounts
  BY DEF KVInv
<1>1. /\ pc \in {"plan", "admit"} /\ pc' = pc
      /\ par' = par /\ it' = it /\ req' = req /\ waiting' = waiting /\ running' = running
      /\ admitted' = admitted /\ failed' = failed
      /\ prefix' = << >> /\ pool' = Dropped(<<Index>>)
  BY DEF EvictPrefix
<1>2. \A r : (Counted(r)' <=> Counted(r)) /\ (InBatch(r)' <=> InBatch(r))
  BY <1>1, Zenon DEF Counted, InBatch
<1>3. ToSet(prefix') = {} /\ ToSet(<<Index>>) = {Index}
  BY <1>1, SetOfEmpty, SetOfOne, Zenon
<1>4. \A b \in ToSet(prefix) : b \in Blocks /\ pool.holders[b] = {Index}
  BY <1>0, KVUse DEF Evictable
<1>5. ASSUME NEW r \in Requests, NEW b \in ToSet(req[r].table), b \in ToSet(prefix) PROVE FALSE
  <2>1. b \in Blocks /\ Index \notin Requests /\ r # Index
    BY <1>0, <1>5, <1>4, KVUse
  <2>2. CASE Counted(r)
    <3>1. r \in pool.holders[b]
      BY <1>0, <1>5, <2>1, <2>2, KVBlock
    <3> QED BY <1>4, <1>5, <2>1, <3>1
  <2>3. CASE ~Counted(r)
    <3>1. pc = "admit" /\ r \in ToSet(admitted)
      BY <1>1, <2>3 DEF Counted
    <3>2. ~req[r].hit
      BY <3>1 DEF Evictable
    <3>3. req[r].table = << >>
      BY <1>0, <3>1, <3>2 DEF KVAdmitted
    <3> QED BY <1>5, <3>3, SetOfEmpty
  <2> QED BY <2>2, <2>3
<1>6. ASSUME NEW b \in Blocks
      PROVE  pool.holders[b] # {} /\ pool.holders[b] \subseteq {Index} <=> b \in ToSet(prefix)
  BY <1>0, <1>4, KVBlock
<1>7. /\ pool' \in Pool /\ Len(pool.free) <= Len(pool'.free)
      /\ \A b \in Blocks :
           /\ pool'.holders[b] = pool.holders[b] \ {Index}
           /\ pool'.state[b] = IF b \in ToSet(prefix) THEN "Free" ELSE pool.state[b]
           /\ pool'.resv[b] = pool.resv[b]
           /\ b \notin ToSet(prefix) => pool'.fill[b] = pool.fill[b]
           /\ pool'.state[b] = "Reserved" <=> pool'.resv[b] # 0
           /\ pool'.state[b] = "Committed" <=> pool'.holders[b] # {}
      /\ ToSet(pool'.free) = {b \in Blocks : pool'.state[b] = "Free"} /\ Apart(pool'.free)
  <2> DEFINE hs == <<Index>>
             H == Requests \cup {Index}
  <2>1. hs \in Seq(H) /\ Apart(hs) /\ \A h \in ToSet(hs) : h # Index => Counted(h)
    <3>1. Index \in H
      OBVIOUS
    <3> HIDE DEF H
    <3> QED BY <1>3, <3>1 DEF Apart
  <2>2. Apart(prefix) /\ \A r \in Requests : Apart(req[r].table)
    BY <1>0 DEF KVPrefix, KVIdle
  <2> DEFINE p == Dropped(hs)
             gone(b) == pool.holders[b] # {} /\ pool.holders[b] \subseteq ToSet(hs)
  <2> HIDE DEF hs
  <2>3. /\ p \in Pool /\ Len(pool.free) <= Len(p.free)
        /\ \A b \in Blocks :
              /\ p.holders[b] = pool.holders[b] \ ToSet(hs)
              /\ p.state[b] = IF gone(b) THEN "Free" ELSE pool.state[b]
              /\ p.resv[b] = pool.resv[b]
              /\ ~gone(b) => p.fill[b] = pool.fill[b]
              /\ p.state[b] = "Reserved" <=> p.resv[b] # 0
              /\ p.state[b] = "Committed" <=> p.holders[b] # {}
        /\ ToSet(p.free) = {b \in Blocks : p.state[b] = "Free"} /\ Apart(p.free)
    BY <1>0, <2>1, <2>2, KVDrop
  <2>4. \A b \in Blocks : gone(b) <=> b \in ToSet(prefix)
    BY <1>3, <1>6 DEF hs
  <2> HIDE DEF gone
  <2>5. pool' = p /\ ToSet(hs) = {Index}
    BY <1>1, <1>3 DEF hs
  <2> HIDE DEF p
  <2> QED BY <2>3, <2>4, <2>5
<1>8. TypeOK'
  <2>1. << >> \in Seq(Blocks)
    OBVIOUS
  <2> QED BY <1>0, <1>1, <1>7, <2>1, KVFixed, Zenon DEF TypeOK
<1>9. KVQueues'
  <2>1. KVRound' = KVRound
    BY <1>1 DEF KVRound
  <2>2. /\ pc' # "arrive" => it' <= MaxIter
        /\ pc' \in {"arrive", "plan", "release", "end"} => admitted' = << >>
    BY <1>0, <1>1 DEF KVQueues
  <2> QED BY <1>0, <1>1, <2>1, <2>2, KVQueuesSame
<1>10. KVIdle'
  <2>1. (\A r : InBatch(r)' <=> InBatch(r)) /\ Requests' = Requests
    BY <1>1, <1>2, KVFixed, Zenon
  <2>2. Reserving' <=> Reserving
    BY <1>1, Zenon DEF Reserving
  <2> QED BY <1>0, <1>1, <2>1, <2>2, Zenon DEF KVIdle
<1>11. KVServed'
  <2>1. \A r : Prompt(r)' = Prompt(r) /\ DecodeDq(r)' = DecodeDq(r)
    BY <1>1, KVFixed, Zenon DEF DecodeDq
  <2>2. Planning' <=> Planning
    BY <1>1, Zenon DEF Planning
  <2>3. ASSUME NEW r \in ToSet(running), NEW i \in DOMAIN req[r].table
        PROVE  pool'.fill[req[r].table[i]] = Tokens(req[r].T, i - 1)
    <3>1. r \in Requests /\ pool.fill[req[r].table[i]] = Tokens(req[r].T, i - 1)
      BY <1>0, KVUse DEF KVServed
    <3>2. req[r].table[i] \in ToSet(req[r].table) /\ req[r].table[i] \in Blocks
      <4>1. req[r].table \in Seq(Blocks)
        BY <1>0, <3>1, KVRequest
      <4> QED BY <4>1, Listed
    <3>3. req[r].table[i] \notin ToSet(prefix)
      BY <1>5, <3>1, <3>2
    <3> QED BY <1>7, <3>1, <3>2, <3>3
  <2>4. \A r \in ToSet(running) :
          /\ req[r].generated > 0
          /\ req[r].T = Prompt(r) + req[r].generated - 1
          /\ Len(req[r].table) = BlocksFor(req[r].T)
          /\ pc \notin {"arrive", "release", "end"} => ~req[r].hit
          /\ Planning => req[r].s = 1 /\ req[r].dq = DecodeDq(r)
    BY <1>0 DEF KVServed
  <2> QED BY <1>1, <2>1, <2>2, <2>3, <2>4 DEF KVServed
<1>12. KVAdmitted'
  <2>1. \A r : Prompt(r)' = Prompt(r) /\ Shared(r)' = Shared(r)
    BY <1>1, KVFixed, Zenon
  <2>2. \A r \in ToSet(admitted) : ~req[r].hit
    <3>1. CASE pc = "plan"
      <4>1. admitted = << >>
        BY <1>0, <3>1 DEF KVQueues
      <4> QED BY <4>1, SetOfEmpty
    <3>2. CASE pc = "admit"
      BY <3>2 DEF Evictable
    <3> QED BY <1>1, <3>1, <3>2
  <2>3. \A r \in ToSet(admitted) :
          /\ req[r].T + req[r].s = Prompt(r) + req[r].generated
          /\ req[r].dq = BlocksFor(Prompt(r) + req[r].generated) - BlocksFor(req[r].T)
          /\ req[r].T = 0 /\ req[r].table = << >>
    BY <1>0, <2>2 DEF KVAdmitted
  <2> QED BY <1>1, <2>1, <2>2, <2>3 DEF KVAdmitted
<1>13. KVFeasible'
  <2>1. PlanNeed' = PlanNeed
    BY <1>1, Zenon DEF PlanNeed, Need, InPlan
  <2>2. PlanNeed <= Len(pool.free) => PlanNeed <= Len(pool'.free)
    <3>1. Len(pool.free) \in Nat /\ Len(pool'.free) \in Nat
      BY <1>0, <1>7, KVUse, PoolFields, SMTT(30)
    <3>2. PlanNeed \in Int
      BY <1>0, KVPlanNeed
    <3> QED BY <1>7, <3>1, <3>2
  <2> QED BY <1>0, <1>1, <2>1, <2>2 DEF KVFeasible
<1>14. KVPrefix'
  <2>1. Requests' = Requests /\ Blocks' = Blocks /\ \A r : Shared(r)' = Shared(r)
    BY <1>1, KVFixed, Zenon
  <2>2. DOMAIN prefix' = {} /\ Apart(prefix')
    BY <1>1 DEF Apart
  <2>3. \A r, q \in Requests : \A b \in Blocks :
          ~(r # q /\ b \in ToSet(req[r].table) /\ b \in ToSet(req[q].table))
    BY <1>0, <1>5 DEF KVPrefix
  <2> QED BY <1>1, <2>1, <2>2, <2>3 DEF KVPrefix
<1>15. Conserved'
  <2>1. \A b \in Blocks : \A r \in Requests : pool'.resv[b] = r <=> b \in ToSet(req'[r].pending)
    BY <1>0, <1>1, <1>7 DEF Conserved
  <2>2. pool'.free \in Seq(Blocks)
    BY <1>7, PoolFields
  <2> QED BY <1>1, <1>7, <2>1, <2>2, KVConservedNext
<1>16. Refcounts'
  <2>1. ASSUME NEW b \in Blocks
        PROVE  /\ pool'.holders[b] \subseteq Requests \cup {Index}
               /\ pool'.state[b] = "Committed" <=> pool'.holders[b] # {}
               /\ Index \in pool'.holders[b] <=> b \in ToSet(prefix')
               /\ \A r \in Requests : r \in pool'.holders[b] <=> Counted(r)' /\ b \in ToSet(req'[r].table)
    <3>1. /\ pool.holders[b] \subseteq Requests \cup {Index}
          /\ \A r \in Requests : r \in pool.holders[b] <=> Counted(r) /\ b \in ToSet(req[r].table)
      BY <1>0, KVBlock
    <3>2. pool'.holders[b] = pool.holders[b] \ {Index} /\ Index \notin Requests
          /\ (pool'.state[b] = "Committed" <=> pool'.holders[b] # {})
      BY <1>0, <1>7, KVUse
    <3> QED BY <1>1, <1>2, <1>3, <3>1, <3>2
  <2> QED BY <1>0, <1>1, <2>1, KVRefsNext
<1> QED BY <1>8, <1>9, <1>10, <1>11, <1>12, <1>13, <1>14, <1>15, <1>16 DEF KVInv

\* Decodes that do not fit evict the cached prompt if nobody reads it.
LEMMA KVEvictForDecodes == ASSUME KVInv, EvictForDecodes PROVE KVInv'
<1>1. /\ pc = "plan" /\ Evictable(<< >>) /\ EvictPrefix
      /\ UNCHANGED <<par, it, pc, req, waiting, running, admitted, failed>>
  BY Zenon DEF EvictForDecodes
<1> QED BY <1>1, KVEvict, Zenon

\* So does an admission that does not fit.
LEMMA KVEvictForAdmission == ASSUME KVInv, EvictForAdmission PROVE KVInv'
<1>1. /\ pc = "admit" /\ Evictable(admitted) /\ EvictPrefix
      /\ UNCHANGED <<par, it, pc, req, waiting, running, admitted, failed>>
  BY Zenon DEF EvictForAdmission, WorthEvicting
<1> QED BY <1>1, KVEvict, Zenon


\* A request without its blocks.
LEMMA LiveStripped ==
  ASSUME NEW m \in Live, NEW st \in {"Waiting", "Finished", "Canceled"}
  PROVE  LET l == Stripped(m, st) IN
         /\ l.status = st /\ l.T = 0 /\ l.generated = m.generated /\ l.table = << >>
         /\ l.pending = m.pending /\ l.hit = m.hit /\ l.s = m.s /\ l.dq = m.dq
         /\ DOMAIN l = DOMAIN m /\ l = [f \in DOMAIN m |-> l[f]]
         /\ l \in Live
<1> DEFINE l == Stripped(m, st)
<1>1. l = [m EXCEPT !.table = << >>, !.T = 0, !.status = st]
  BY DEF Stripped
<1> HIDE DEF l
<1>2. /\ l.status = st /\ l.T = 0 /\ l.generated = m.generated /\ l.table = << >>
      /\ l.pending = m.pending /\ l.hit = m.hit /\ l.s = m.s /\ l.dq = m.dq
      /\ DOMAIN l = DOMAIN m /\ l = [f \in DOMAIN m |-> l[f]]
  BY <1>1 DEF Live
<1>3. /\ m.T \in Nat /\ m.generated \in Nat /\ m.pending \in Seq(Blocks)
      /\ m.hit \in BOOLEAN /\ m.s \in Nat /\ m.dq \in Nat
  BY LiveFields
<1>4. 0 \in Nat /\ << >> \in Seq(Blocks)
      /\ st \in {"Future", "Waiting", "Running", "Finished", "Canceled"}
  OBVIOUS
<1>5. /\ l.status \in {"Future", "Waiting", "Running", "Finished", "Canceled"} /\ l.T \in Nat
      /\ l.generated \in Nat /\ l.table \in Seq(Blocks) /\ l.pending \in Seq(Blocks)
      /\ l.hit \in BOOLEAN /\ l.s \in Nat /\ l.dq \in Nat
  BY <1>2, <1>3, <1>4, Zenon
<1>6. l \in Live
  BY <1>2, <1>5, LiveIs, Zenon
<1> QED BY <1>2, <1>6 DEF l

\* A preempted request goes back to where its arrival puts it.
LEMMA KVRequeued ==
  ASSUME TypeOK, NEW v \in Requests
  PROVE  Requeued(v) = Requeue(waiting, Arrival, v)
<1> DEFINE I == {i \in 1 .. Len(waiting) : ~(par.specs[waiting[i]].arrival <= par.specs[v].arrival)}
<1>0. waiting \in Seq(Requests)
  BY KVUse
<1>1. \A i \in 1 .. Len(waiting) : waiting[i] \in Requests
  BY <1>0, ElementOfSeq
<1>2. \A r \in Requests : Arrival[r] = par.specs[r].arrival /\ Arrival[r] \in Nat
  BY KVRequest
<1>3. I = LaterThan(waiting, Arrival, v)
  BY <1>1, <1>2 DEF LaterThan
<1>4. Requeued(v) =
        LET later == IF I # {} THEN Min(I) ELSE 0
        IN  IF later = 0 THEN Append(waiting, v) ELSE InsertAt(waiting, later, v)
  BY Zenon DEF Requeued, SelectInSeq
<1>5. I # {} => Min(I) # 0
  <2>1. I \subseteq 1 .. Len(waiting) /\ I \in SUBSET Nat
    BY <1>0
  <2> HIDE DEF I
  <2>2. I # {} => Min(I) \in I
    BY <2>1, MinOf
  <2> QED BY <2>1, <2>2
<1> HIDE DEF I
<1> QED BY <1>3, <1>4, <1>5 DEF Requeue

\* A preempted request lets go of its blocks, and those nobody else holds are
\* free.
LEMMA KVPreempt == ASSUME KVInv, Preempt PROVE KVInv'
<1> DEFINE v == Last(running)
<1>0. TypeOK /\ KVQueues /\ KVIdle /\ KVServed /\ KVAdmitted /\ KVPrefix /\ KVFeasible /\ Conserved /\ Refcounts
  BY DEF KVInv
<1>1. /\ pc = "plan" /\ DecodeNeed > Len(pool.free)
      /\ pool' = Dropped(<<v>>) /\ running' = Front(running) /\ waiting' = Requeued(v)
      /\ par' = par /\ it' = it /\ pc' = pc /\ admitted' = admitted /\ prefix' = prefix /\ failed' = failed
      /\ req' = [req EXCEPT ![v] = Stripped(@, "Waiting")]
  BY Zenon DEF Preempt, Free
<1>2. running # << >> /\ running \in Seq(Requests)
  <2>1. Len(pool.free) \in Nat
    BY <1>0, KVUse, PoolFields
  <2>2. ASSUME running = << >> PROVE FALSE
    <3>1. DecodeNeed = Total([i \in DOMAIN running |-> DecodeDq(running[i])])
      BY Zenon DEF DecodeNeed
    <3>2. [i \in DOMAIN running |-> DecodeDq(running[i])] = << >>
      BY <2>2
    <3>3. Total(<< >>) = 0
      <4>1. << >> \in Seq(Int) /\ Len(<< >>) = 0
        OBVIOUS
      <4> QED BY <4>1, TotalEmpty, Zenon
    <3> QED BY <1>1, <2>1, <3>1, <3>2, <3>3
  <2> QED BY <1>0, <2>2, KVUse
<1>3. /\ Front(running) \in Seq(Requests) /\ v \in Requests /\ running = Append(Front(running), v)
  BY <1>2, FrontAndLast
<1> HIDE DEF v
<1>4. /\ ToSet(running) = ToSet(running') \cup {v} /\ v \notin ToSet(running')
      /\ Apart(running') /\ ToSet(running') \subseteq Requests
  <2>1. Apart(running)
    BY <1>0 DEF KVQueues
  <2>2. ToSet(Append(Front(running), v)) = ToSet(Front(running)) \cup {v}
        /\ (Apart(Append(Front(running), v)) <=> Apart(Front(running)) /\ v \notin ToSet(Front(running)))
    <3> DEFINE f == Front(running)
    <3>1. f \in Seq(Requests) /\ v \in Requests
      BY <1>3
    <3> HIDE DEF f
    <3>2. ToSet(Append(f, v)) = ToSet(f) \cup {v}
      BY <3>1, SetOfAppend
    <3>3. Apart(Append(f, v)) <=> Apart(f) /\ v \notin ToSet(f)
      BY <3>1, ApartAppend
    <3> QED BY <3>2, <3>3 DEF f
  <2>3. ToSet(Front(running)) \subseteq Requests
    BY <1>3, SetOf
  <2>4. running' = Front(running)
    BY <1>1
  <2> QED BY <1>3, <2>1, <2>2, <2>3, <2>4, Zenon
<1>5. /\ admitted = << >> /\ ToSet(admitted) = {} /\ ToSet(admitted') = {} /\ admitted' = << >>
      /\ \A r : Counted(r) /\ Counted(r)'
      /\ \A q \in Seq(Requests) : admitted \o q = q /\ admitted' \o q = q
  <2>1. admitted = << >> /\ pc' = "plan"
    BY <1>0, <1>1 DEF KVQueues
  <2> QED BY <1>1, <2>1, SetOfEmpty DEF Counted
<1>6. ASSUME NEW q \in Requests
      PROVE  /\ req'[q].status = (IF q = v THEN "Waiting" ELSE req[q].status)
             /\ req'[q].generated = req[q].generated
             /\ req'[q].T = (IF q = v THEN 0 ELSE req[q].T)
             /\ req'[q].table = (IF q = v THEN << >> ELSE req[q].table)
             /\ req'[q].pending = req[q].pending /\ req'[q].hit = req[q].hit
             /\ req'[q] \in Live
  <2>1. req[q] \in Live /\ req \in [Requests -> Live]
    BY <1>0, KVUse, KVRequest
  <2>2. CASE q = v
    <3>1. req'[q] = Stripped(req[q], "Waiting")
      BY <1>1, <1>3, <2>1, <2>2
    <3> QED BY <2>1, <2>2, <3>1, LiveStripped
  <2>3. CASE q # v
    <3>1. req'[q] = req[q]
      BY <1>1, <2>1, <2>3
    <3> QED BY <2>1, <2>3, <3>1
  <2> QED BY <2>2, <2>3
<1>7. req' = [q \in Requests |-> req'[q]]
  <2>1. DOMAIN req' = DOMAIN req /\ DOMAIN req = Requests /\ req' = [q \in DOMAIN req' |-> req'[q]]
    BY <1>0, <1>1, KVUse
  <2> QED BY <2>1
<1>8. /\ waiting' \in Seq(Requests) /\ ToSet(waiting') = ToSet(waiting) \cup {v}
      /\ Rising(waiting', Arrival) /\ Apart(waiting')
  <2>1. waiting \in Seq(Requests) /\ Arrival \in [Requests -> Nat]
    BY <1>0, KVUse
  <2>2. Rising(waiting, Arrival) /\ Apart(waiting)
    BY <1>0, <1>5, <2>1 DEF KVQueues
  <2>3. v \notin ToSet(waiting)
    <3>1. req[v].status = "Running"
      BY <1>0, <1>3, <1>4 DEF KVQueues
    <3> QED BY <1>0, <1>3, <3>1 DEF KVQueues
  <2>4. waiting' = Requeue(waiting, Arrival, v)
    BY <1>0, <1>1, <1>3, KVRequeued
  <2>5. /\ Requeue(waiting, Arrival, v) \in Seq(Requests)
        /\ ToSet(Requeue(waiting, Arrival, v)) = ToSet(waiting) \cup {v}
        /\ Rising(Requeue(waiting, Arrival, v), Arrival)
        /\ Apart(waiting) /\ v \notin ToSet(waiting) => Apart(Requeue(waiting, Arrival, v))
    <3> DEFINE R == Requests
               arr == Arrival
    <3>1. waiting \in Seq(R) /\ arr \in [R -> Nat] /\ v \in R /\ Rising(waiting, arr)
      BY <1>3, <2>1, <2>2
    <3> HIDE DEF R, arr
    <3>2. /\ Requeue(waiting, arr, v) \in Seq(R)
          /\ ToSet(Requeue(waiting, arr, v)) = ToSet(waiting) \cup {v}
          /\ Rising(Requeue(waiting, arr, v), arr)
          /\ Apart(waiting) /\ v \notin ToSet(waiting) => Apart(Requeue(waiting, arr, v))
      BY <3>1, Requeueing
    <3> QED BY <3>2 DEF R, arr
  <2> QED BY <2>2, <2>3, <2>4, <2>5
<1>9. /\ pool' \in Pool
      /\ \A b \in Blocks :
           /\ pool'.holders[b] = pool.holders[b] \ {v}
           /\ pool.holders[b] # {v} => pool'.fill[b] = pool.fill[b]
           /\ pool'.resv[b] = pool.resv[b]
           /\ pool'.state[b] = "Reserved" <=> pool'.resv[b] # 0
           /\ pool'.state[b] = "Committed" <=> pool'.holders[b] # {}
      /\ ToSet(pool'.free) = {b \in Blocks : pool'.state[b] = "Free"} /\ Apart(pool'.free)
  <2> DEFINE hs == <<v>>
             H == Requests \cup {Index}
  <2>0. ToSet(hs) = {v}
    BY SetOfOne, Zenon
  <2>1. hs \in Seq(H) /\ Apart(hs) /\ \A h \in ToSet(hs) : h # Index => Counted(h)
    <3>1. v \in H
      BY <1>3
    <3> HIDE DEF H
    <3> QED BY <1>5, <3>1 DEF Apart
  <2>2. Apart(prefix) /\ \A r \in Requests : Apart(req[r].table)
    BY <1>0 DEF KVPrefix, KVIdle
  <2> DEFINE p == Dropped(hs)
             gone(b) == pool.holders[b] # {} /\ pool.holders[b] \subseteq ToSet(hs)
  <2> HIDE DEF hs
  <2>3. /\ p \in Pool
        /\ \A b \in Blocks :
              /\ p.holders[b] = pool.holders[b] \ ToSet(hs)
              /\ p.resv[b] = pool.resv[b]
              /\ ~gone(b) => p.fill[b] = pool.fill[b]
              /\ p.state[b] = "Reserved" <=> p.resv[b] # 0
              /\ p.state[b] = "Committed" <=> p.holders[b] # {}
        /\ ToSet(p.free) = {b \in Blocks : p.state[b] = "Free"} /\ Apart(p.free)
    BY <1>0, <2>1, <2>2, KVDrop
  <2>4. \A b \in Blocks : gone(b) => pool.holders[b] = {v}
    BY <2>0
  <2> HIDE DEF gone
  <2>5. pool' = p
    BY <1>1 DEF hs
  <2> HIDE DEF p
  <2> QED BY <2>0, <2>3, <2>4, <2>5
<1>10. TypeOK'
  <2>1. it \in 1 .. MaxIter + 1 /\ it \in Nat /\ MaxIter \in Nat
    BY <1>0, KVUse, Zenon DEF TypeOK
  <2>2. 1 <= it /\ it <= MaxIter + 1
    BY <2>1
  <2>3. running' \in Seq(Requests)
    BY <1>1, <1>3
  <2> QED BY <1>0, <1>1, <1>6, <1>7, <1>8, <1>9, <2>1, <2>2, <2>3, KVUse, KVTypeNext
<1>11. KVQueues'
  <2>1. ASSUME NEW r \in Requests
        PROVE  /\ req'[r].status = "Waiting" <=> r \in ToSet(admitted') \cup ToSet(waiting')
               /\ req'[r].status = "Running" <=> r \in ToSet(running')
               /\ req'[r].status = "Future"  <=> Arrival[r] >= KVRound
    <3>1. /\ req[r].status = "Waiting" <=> r \in ToSet(admitted) \cup ToSet(waiting)
          /\ req[r].status = "Running" <=> r \in ToSet(running)
          /\ req[r].status = "Future"  <=> Arrival[r] >= KVRound
      BY <1>0 DEF KVQueues
    <3> QED BY <1>4, <1>5, <1>6, <1>8, <3>1
  <2>2. KVRound' = KVRound
    BY <1>1 DEF KVRound
  <2>3. Requests' = Requests /\ Arrival' = Arrival
    BY <1>1, KVFixed, Zenon
  <2>4. pc' # "arrive" => it' <= MaxIter
    BY <1>0, <1>1 DEF KVQueues
  <2>5. admitted' \o waiting' = waiting'
    BY <1>5, <1>8
  <2> QED BY <1>4, <1>5, <1>8, <2>1, <2>2, <2>3, <2>4, <2>5 DEF KVQueues
<1>12. KVIdle'
  <2>1. \A r : InBatch(r)' <=> InBatch(r) /\ r # v
    BY <1>4, <1>5 DEF InBatch
  <2>2. ~Reserving /\ ~Reserving' /\ Requests' = Requests
    <3>1. Requests' = Requests
      BY <1>1, KVFixed, Zenon
    <3> QED BY <1>1, <3>1 DEF Reserving
  <2>3. ASSUME NEW r \in Requests
        PROVE  /\ ~(InBatch(r) /\ r # v) => req'[r].table = << >> /\ req'[r].T = 0
               /\ req'[r].pending = << >>
               /\ Apart(req'[r].table) /\ Apart(req'[r].pending)
    <3>1. /\ ~InBatch(r) => req[r].table = << >> /\ req[r].T = 0
          /\ req[r].pending = << >>
          /\ Apart(req[r].table) /\ Apart(req[r].pending)
      BY <1>0, <2>2, Zenon DEF KVIdle
    <3>2. Apart(<< >>)
      BY DEF Apart
    <3> QED BY <1>6, <3>1, <3>2
  <2> QED BY <2>1, <2>2, <2>3, Zenon DEF KVIdle
<1>13. KVServed'
  <2>1. ~Planning'
    BY <1>1 DEF Planning
  <2>2. \A r : Prompt(r)' = Prompt(r)
    BY <1>1, KVFixed, ZenonT(40)
  <2>3. ASSUME NEW r \in ToSet(running')
        PROVE  /\ req'[r].generated > 0
               /\ req'[r].T = Prompt(r) + req'[r].generated - 1
               /\ Len(req'[r].table) = BlocksFor(req'[r].T)
               /\ pc' \notin {"arrive", "release", "end"} => ~req'[r].hit
               /\ \A i \in DOMAIN req'[r].table : pool'.fill[req'[r].table[i]] = Tokens(req'[r].T, i - 1)
    <3>1. r \in Requests /\ r \in ToSet(running) /\ r # v
      BY <1>4, <2>3
    <3>2. /\ req[r].generated > 0
          /\ req[r].T = Prompt(r) + req[r].generated - 1
          /\ Len(req[r].table) = BlocksFor(req[r].T)
          /\ pc \notin {"arrive", "release", "end"} => ~req[r].hit
          /\ \A i \in DOMAIN req[r].table : pool.fill[req[r].table[i]] = Tokens(req[r].T, i - 1)
      BY <1>0, <3>1 DEF KVServed
    <3>3. ASSUME NEW i \in DOMAIN req[r].table PROVE pool'.fill[req[r].table[i]] = pool.fill[req[r].table[i]]
      <4>1. req[r].table[i] \in ToSet(req[r].table) /\ req[r].table[i] \in Blocks
        <5>1. req[r].table \in Seq(Blocks)
          BY <1>0, <3>1, KVRequest
        <5> QED BY <5>1, Listed
      <4>2. r \in pool.holders[req[r].table[i]]
        BY <1>0, <1>5, <3>1, <4>1, KVBlock
      <4> QED BY <1>9, <3>1, <4>1, <4>2
    <3>4. req'[r].generated = req[r].generated /\ req'[r].T = req[r].T /\ req'[r].table = req[r].table
          /\ req'[r].hit = req[r].hit
      BY <1>6, <3>1
    <3> QED BY <1>1, <3>2, <3>3, <3>4
  <2> QED BY <2>1, <2>2, <2>3 DEF KVServed
<1>14. KVAdmitted' /\ KVFeasible'
  BY <1>1, <1>5 DEF KVAdmitted, KVFeasible
<1>15. KVPrefix'
  <2>1. Requests' = Requests /\ Blocks' = Blocks /\ \A r : Shared(r)' = Shared(r)
    BY <1>1, KVFixed, Zenon
  <2>2. ASSUME NEW i \in DOMAIN prefix PROVE pool'.fill[prefix[i]] = B
    <3>1. prefix[i] \in Blocks /\ prefix[i] \in ToSet(prefix)
      BY <1>0, KVUse, Listed
    <3>2. Index \in pool.holders[prefix[i]] /\ Index # v
      BY <1>0, <1>3, <3>1, KVBlock, KVUse
    <3>3. pool.fill[prefix[i]] = B
      BY <1>0 DEF KVPrefix
    <3> QED BY <1>9, <3>1, <3>2, <3>3
  <2>3. ASSUME NEW r \in Requests PROVE req'[r].table = req[r].table \/ req'[r].table = << >>
    BY <1>6
  <2>4. \A r \in Requests : \A i \in DOMAIN req'[r].table :
          \A j \in DOMAIN prefix : req'[r].table[i] = prefix[j] => i = j /\ Shared(r)
    BY <1>0, <2>3 DEF KVPrefix
  <2>5. \A r, q \in Requests : \A b \in Blocks :
          r # q /\ b \in ToSet(req'[r].table) /\ b \in ToSet(req'[q].table) => b \in ToSet(prefix)
    BY <1>0, <2>3, SetOfEmpty DEF KVPrefix
  <2>6. (prefix # << >> => Len(prefix) = SysBlocks) /\ Apart(prefix)
    BY <1>0 DEF KVPrefix
  <2> QED BY <1>1, <2>1, <2>2, <2>4, <2>5, <2>6 DEF KVPrefix
<1>16. Conserved'
  <2>1. \A b \in Blocks : \A r \in Requests : pool'.resv[b] = r <=> b \in ToSet(req'[r].pending)
    BY <1>0, <1>6, <1>9 DEF Conserved
  <2>2. pool'.free \in Seq(Blocks)
    BY <1>9, PoolFields
  <2> QED BY <1>1, <1>9, <2>1, <2>2, KVConservedNext
<1>17. Refcounts'
  <2>1. ASSUME NEW b \in Blocks
        PROVE  /\ pool'.holders[b] \subseteq Requests \cup {Index}
               /\ pool'.state[b] = "Committed" <=> pool'.holders[b] # {}
               /\ Index \in pool'.holders[b] <=> b \in ToSet(prefix')
               /\ \A r \in Requests : r \in pool'.holders[b] <=> Counted(r)' /\ b \in ToSet(req'[r].table)
    <3>1. /\ pool.holders[b] \subseteq Requests \cup {Index}
          /\ Index \in pool.holders[b] <=> b \in ToSet(prefix)
          /\ \A r \in Requests : r \in pool.holders[b] <=> Counted(r) /\ b \in ToSet(req[r].table)
      BY <1>0, KVBlock
    <3>2. pool'.holders[b] = pool.holders[b] \ {v} /\ Index # v
          /\ (pool'.state[b] = "Committed" <=> pool'.holders[b] # {})
      BY <1>0, <1>3, <1>9, KVUse
    <3>3. ASSUME NEW r \in Requests
          PROVE  b \in ToSet(req'[r].table) <=> b \in ToSet(req[r].table) /\ r # v
      BY <1>6, SetOfEmpty
    <3> QED BY <1>1, <1>5, <3>1, <3>2, <3>3
  <2> QED BY <1>0, <1>1, <2>1, KVRefsNext
<1> QED BY <1>10, <1>11, <1>12, <1>13, <1>14, <1>15, <1>16, <1>17 DEF KVInv


\* The next in the queue is admitted: the lists.
LEMMA Admitting ==
  ASSUME NEW S, NEW a \in Seq(S), NEW w \in Seq(S), w # << >>
  PROVE  /\ Head(w) \in S /\ Tail(w) \in Seq(S) /\ Append(a, Head(w)) \in Seq(S)
         /\ Append(a, Head(w)) \o Tail(w) = a \o w
         /\ ToSet(Append(a, Head(w))) = ToSet(a) \cup {Head(w)}
         /\ ToSet(w) = {Head(w)} \cup ToSet(Tail(w))
<1> DEFINE h == Head(w)
           t == Tail(w)
<1>1. h \in S /\ t \in Seq(S) /\ w = << h >> \o t /\ ToSet(w) = {h} \cup ToSet(t)
  BY HeadAndTail
<1> HIDE DEF h, t
<1>2. Append(a, h) \in Seq(S) /\ ToSet(Append(a, h)) = ToSet(a) \cup {h}
  BY <1>1, SetOfAppend
<1>3. Append(a, h) = a \o << h >> /\ << h >> \in Seq(S)
  BY <1>1
<1>4. (a \o << h >>) \o t = a \o (<< h >> \o t)
  BY <1>1, <1>3, ConcatAssociative, SMTT(30)
<1> QED BY <1>1, <1>2, <1>3, <1>4, SMTT(30) DEF h, t

\* A request as it is admitted, with the cached prompt or without.
LEMMA LiveAdmitted ==
  ASSUME TypeOK, NEW r \in Requests, r \in ToSet(waiting), KVIdle, KVQueues, KVPrefix,
         req' = [req EXCEPT ![r].hit = Hit(r), ![r].T = Start(r),
                        ![r].s = Target(r) - Start(r), ![r].dq = AdmitDq(r),
                        ![r].table = IF Hit(r) THEN prefix ELSE @]
  PROVE  /\ req[r].table = << >> /\ ~InBatch(r)
         /\ Hit(r) => Shared(r) /\ prefix # << >>
         /\ req'[r].status = req[r].status /\ req'[r].generated = req[r].generated
         /\ req'[r].pending = req[r].pending
         /\ req'[r].hit = Hit(r) /\ req'[r].T = Start(r)
         /\ req'[r].s = Target(r) - Start(r) /\ req'[r].dq = AdmitDq(r)
         /\ req'[r].table = IF Hit(r) THEN prefix ELSE << >>
         /\ AdmitDq(r) \in Nat /\ Start(r) \in Nat /\ Target(r) \in Nat
         /\ req'[r] \in Live
         /\ \A q \in Requests : q # r => req'[q] = req[q]
         /\ req' = [q \in Requests |-> req'[q]]
<1> DEFINE m == req[r]
           l == req'[r]
           h == Hit(r)
           t == Start(r)
           z == Target(r) - Start(r)
           d == AdmitDq(r)
           b == IF h THEN prefix ELSE m.table
<1>1. /\ m \in Live /\ m.T \in Nat /\ m.generated \in Nat /\ m.table \in Seq(Blocks)
      /\ m.pending \in Seq(Blocks)
      /\ Prompt(r) \in Nat /\ Shared(r) \in BOOLEAN /\ (Shared(r) => Prompt(r) >= Sys)
      /\ m.status \in {"Future", "Waiting", "Running", "Finished", "Canceled"}
  BY KVRequest
<1>2. req \in [Requests -> Live] /\ DOMAIN req = Requests /\ prefix \in Seq(Blocks)
  BY KVUse
<1>3. ~InBatch(r) /\ m.table = << >>
  <2>1. ~InBatch(r)
    <3>1. /\ waiting \in Seq(Requests) /\ admitted \in Seq(Requests) /\ Apart(admitted \o waiting)
          /\ req[r].status = "Waiting"
      BY KVUse DEF KVQueues
    <3>2. r \notin ToSet(admitted)
      BY <3>1, ApartConcat
    <3>3. r \notin ToSet(running)
      BY <3>1, SMTT(30) DEF KVQueues
    <3> QED BY <3>2, <3>3 DEF InBatch
  <2> QED BY <2>1 DEF KVIdle
<1>4. /\ h = (Shared(r) /\ Len(prefix) = SysBlocks)
      /\ Target(r) = Prompt(r) + m.generated
      /\ t = IF h THEN Sys ELSE 0
      /\ d = BlocksFor(Target(r)) - BlocksFor(t)
  BY DEF Hit, Shared, Target, Prompt, Start, AdmitDq
<1>5. h \in BOOLEAN /\ (h => Shared(r) /\ prefix # << >>)
  <2>1. SysBlocks > 0 /\ SysBlocks \in Nat
    BY ParamsAssumption
  <2>2. Len(prefix) = SysBlocks => prefix # << >>
    BY <1>2, <2>1
  <2> HIDE DEF h
  <2> QED BY <1>1, <1>4, <2>2
<1>6. Target(r) \in Nat /\ t \in Nat /\ t <= Target(r) /\ z \in Nat
  <2> DEFINE g == Target(r)
  <2>1. g = Prompt(r) + m.generated /\ Sys \in Nat
    BY <1>4, KVSizes
  <2>2. t = 0 \/ (t = Sys /\ Shared(r))
    BY <1>4, <1>5
  <2> HIDE DEF g, t, m
  <2>3. g \in Nat /\ t \in Nat /\ t <= g /\ g - t \in Nat
    BY <1>1, <2>1, <2>2
  <2> QED BY <2>3 DEF g, t
<1>7. d \in Nat
  <2> DEFINE g == Target(r)
  <2>1. d = BlocksFor(g) - BlocksFor(t) /\ g \in Nat /\ t \in Nat /\ t <= g
    BY <1>4, <1>6
  <2> HIDE DEF g, t, d
  <2>2. BlocksFor(t) <= BlocksFor(g) /\ BlocksFor(t) \in Nat /\ BlocksFor(g) \in Nat
    BY <2>1, KVSizes
  <2> QED BY <2>1, <2>2
<1>8. /\ DOMAIN req' = Requests
      /\ \A q \in Requests : q # r => req'[q] = req[q]
      /\ l = [m EXCEPT !.hit = h, !.T = t, !.s = z, !.dq = d, !.table = b]
  <2>1. m.status = m.status
    OBVIOUS
  <2> HIDE DEF h, t, z, d
  <2> QED BY <1>1, <1>2 DEF h, t, z, d, Live
<1>9. req' = [q \in Requests |-> req'[q]]
  <2>1. req' = [q \in DOMAIN req' |-> req'[q]]
    BY <1>2
  <2> QED BY <1>8, <2>1
<1> HIDE DEF h, t, z, d, m, l, b
<1>10. /\ l.status = m.status /\ l.generated = m.generated /\ l.pending = m.pending
       /\ l.hit = h /\ l.T = t /\ l.s = z /\ l.dq = d /\ l.table = b
       /\ DOMAIN l = DOMAIN m /\ l = [f \in DOMAIN m |-> l[f]]
  BY <1>1, <1>8, ZenonT(40) DEF Live
<1>11. b \in Seq(Blocks) /\ b = IF h THEN prefix ELSE << >>
  BY <1>2, <1>3 DEF b, m
<1>12. /\ l.status \in {"Future", "Waiting", "Running", "Finished", "Canceled"} /\ l.T \in Nat
       /\ l.generated \in Nat /\ l.table \in Seq(Blocks) /\ l.pending \in Seq(Blocks)
       /\ l.hit \in BOOLEAN /\ l.s \in Nat /\ l.dq \in Nat
  BY <1>1, <1>5, <1>6, <1>7, <1>10, <1>11, Zenon
<1>13. l \in Live
  BY <1>1, <1>10, <1>12, LiveIs, Zenon
<1> QED BY <1>3, <1>5, <1>6, <1>7, <1>8, <1>9, <1>10, <1>11, <1>13 DEF m, l, h, t, z, d

\* An admitted request becomes a holder of the cached prompt's blocks if it
\* hits.
LEMMA KVAdmit == ASSUME KVInv, Admit PROVE KVInv'
<1> DEFINE r == Head(waiting)
<1>0. TypeOK /\ KVQueues /\ KVIdle /\ KVServed /\ KVAdmitted /\ KVPrefix /\ KVFeasible /\ Conserved /\ Refcounts
  BY DEF KVInv
<1>1. /\ pc = "admit" /\ waiting # << >> /\ PlanNeed + AdmitDq(r) <= Len(pool.free)
      /\ waiting' = Tail(waiting) /\ admitted' = Append(admitted, r)
      /\ par' = par /\ it' = it /\ pc' = pc /\ pool' = pool /\ running' = running
      /\ prefix' = prefix /\ failed' = failed
  BY Zenon DEF Admit, Fits, Free
<1>2. waiting \in Seq(Requests) /\ admitted \in Seq(Requests) /\ running \in Seq(Requests)
  BY <1>0, KVUse
<1>3. /\ r \in Requests /\ waiting' \in Seq(Requests) /\ admitted' \in Seq(Requests)
      /\ admitted' \o waiting' = admitted \o waiting
      /\ ToSet(admitted') = ToSet(admitted) \cup {r}
      /\ ToSet(waiting) = {r} \cup ToSet(waiting')
  <2> DEFINE R == Requests
  <2>1. waiting \in Seq(R) /\ admitted \in Seq(R) /\ waiting # << >>
    BY <1>1, <1>2
  <2> HIDE DEF R
  <2>2. /\ Head(waiting) \in R /\ Tail(waiting) \in Seq(R) /\ Append(admitted, Head(waiting)) \in Seq(R)
        /\ Append(admitted, Head(waiting)) \o Tail(waiting) = admitted \o waiting
        /\ ToSet(Append(admitted, Head(waiting))) = ToSet(admitted) \cup {Head(waiting)}
        /\ ToSet(waiting) = {Head(waiting)} \cup ToSet(Tail(waiting))
    BY <2>1, Admitting
  <2>3. /\ r \in R /\ waiting' \in Seq(R) /\ admitted' \in Seq(R)
        /\ admitted' \o waiting' = admitted \o waiting
        /\ ToSet(admitted') = ToSet(admitted) \cup {r}
        /\ ToSet(waiting) = {r} \cup ToSet(waiting')
    BY <1>1, <2>2, Zenon
  <2> QED BY <2>3 DEF R
<1>4. /\ req[r].table = << >> /\ ~InBatch(r)
      /\ Hit(r) => Shared(r) /\ prefix # << >>
      /\ req'[r].status = req[r].status /\ req'[r].generated = req[r].generated
      /\ req'[r].pending = req[r].pending
      /\ req'[r].hit = Hit(r) /\ req'[r].T = Start(r)
      /\ req'[r].s = Target(r) - Start(r) /\ req'[r].dq = AdmitDq(r)
      /\ req'[r].table = IF Hit(r) THEN prefix ELSE << >>
      /\ AdmitDq(r) \in Nat /\ Start(r) \in Nat /\ Target(r) \in Nat
      /\ req'[r] \in Live
      /\ \A q \in Requests : q # r => req'[q] = req[q]
      /\ req' = [q \in Requests |-> req'[q]]
  <2>1. req' = [req EXCEPT ![r].hit = Hit(r), ![r].T = Start(r),
                        ![r].s = Target(r) - Start(r), ![r].dq = AdmitDq(r),
                        ![r].table = IF Hit(r) THEN prefix ELSE @]
    BY Zenon DEF Admit
  <2>2. r \in ToSet(waiting) /\ r \in Requests
    BY <1>3
  <2> HIDE DEF r
  <2> QED BY <1>0, <2>1, <2>2, LiveAdmitted, Zenon
<1> HIDE DEF r
<1>5. ASSUME NEW q \in Requests
      PROVE  /\ req'[q].status = req[q].status /\ req'[q].generated = req[q].generated
             /\ req'[q].pending = req[q].pending /\ req'[q] \in Live
             /\ q \in ToSet(running) => q # r
  <2>1. q \in ToSet(running) => q # r
    BY <1>4 DEF InBatch
  <2> QED BY <1>0, <1>4, <2>1, KVRequest
<1>6. TypeOK'
  <2>1. it \in 1 .. MaxIter + 1 /\ it \in Nat /\ MaxIter \in Nat
    BY <1>0, KVUse, Zenon DEF TypeOK
  <2>2. 1 <= it /\ it <= MaxIter + 1
    BY <2>1
  <2> QED BY <1>0, <1>1, <1>3, <1>4, <1>5, <2>1, <2>2, KVUse, KVTypeNext
<1>7. KVQueues'
  <2>1. KVRound' = KVRound
    BY <1>1 DEF KVRound
  <2>2. pc' # "arrive" => it' <= MaxIter
    BY <1>0, <1>1 DEF KVQueues
  <2>3. ToSet(admitted') \cup ToSet(waiting') = ToSet(admitted) \cup ToSet(waiting)
    BY <1>3
  <2>4. pc' \in {"arrive", "plan", "release", "end"} => admitted' = << >>
    BY <1>1
  <2> QED BY <1>0, <1>1, <1>3, <1>5, <2>1, <2>2, <2>3, <2>4, KVQueuesSame, SMTT(30)
<1>8. KVIdle'
  <2>1. \A q : InBatch(q)' <=> InBatch(q) \/ q = r
    BY <1>1, <1>3 DEF InBatch
  <2>2. ~Reserving /\ ~Reserving' /\ Requests' = Requests
    <3>1. Requests' = Requests
      BY <1>1, KVFixed, Zenon
    <3> QED BY <1>1, <3>1 DEF Reserving
  <2>3. Apart(prefix) /\ Apart(<< >>)
    BY <1>0 DEF KVPrefix, Apart
  <2>4. ASSUME NEW q \in Requests
        PROVE  /\ ~(InBatch(q) \/ q = r) => req'[q].table = << >> /\ req'[q].T = 0
               /\ req'[q].pending = << >>
               /\ Apart(req'[q].table) /\ Apart(req'[q].pending)
    <3>1. /\ ~InBatch(q) => req[q].table = << >> /\ req[q].T = 0
          /\ req[q].pending = << >>
          /\ Apart(req[q].table) /\ Apart(req[q].pending)
      BY <1>0, <2>2, Zenon DEF KVIdle
    <3> QED BY <1>4, <1>5, <2>3, <3>1
  <2> QED BY <2>1, <2>2, <2>4, Zenon DEF KVIdle
<1>9. KVServed'
  <2>1. (Planning' <=> Planning) /\ \A q : Prompt(q)' = Prompt(q)
    BY <1>1, KVFixed, Zenon DEF Planning
  <2>2. ASSUME NEW q \in ToSet(running) PROVE req'[q] = req[q]
    <3>1. q \in Requests
      BY <1>0, KVUse
    <3> QED BY <1>4, <1>5, <3>1
  <2>3. \A q \in ToSet(running) : DecodeDq(q)' = DecodeDq(q)
    BY <2>2, Zenon DEF DecodeDq
  <2> QED BY <1>0, <1>1, <2>1, <2>2, <2>3 DEF KVServed
<1>10. KVAdmitted'
  <2>1. \A q : Prompt(q)' = Prompt(q) /\ Shared(q)' = Shared(q)
    BY <1>1, KVFixed, Zenon
  <2>2. ASSUME NEW q \in ToSet(admitted')
        PROVE  /\ req'[q].T + req'[q].s = Prompt(q) + req'[q].generated
               /\ req'[q].dq = BlocksFor(Prompt(q) + req'[q].generated) - BlocksFor(req'[q].T)
               /\ IF req'[q].hit THEN Shared(q) /\ prefix # << >> /\ req'[q].T = Sys /\ req'[q].table = prefix
                                 ELSE req'[q].T = 0 /\ req'[q].table = << >>
    <3>1. CASE q # r
      <4>1. q \in ToSet(admitted) /\ q \in Requests
        BY <1>0, <1>3, <2>2, <3>1, KVUse
      <4>2. req'[q] = req[q]
        BY <1>4, <3>1, <4>1
      <4> QED BY <1>0, <4>1, <4>2 DEF KVAdmitted
    <3>2. CASE q = r
      <4>1. Target(r) = Prompt(r) + req'[r].generated
        BY <1>4 DEF Target, Prompt
      <4>2. AdmitDq(r) = BlocksFor(Prompt(r) + req'[r].generated) - BlocksFor(req'[r].T)
        BY <1>4, <4>1, Zenon DEF AdmitDq
      <4>3. req'[r].T + req'[r].s = Target(r)
        <5>1. \A a, b \in Nat : b + (a - b) = a
          OBVIOUS
        <5> QED BY <1>4, <5>1
      <4>4. /\ req'[r].hit = Hit(r) /\ req'[r].T = (IF Hit(r) THEN Sys ELSE 0)
            /\ req'[r].table = IF Hit(r) THEN prefix ELSE << >>
        BY <1>4, Zenon DEF Start
      <4>5. IF req'[r].hit THEN Shared(r) /\ prefix # << >> /\ req'[r].T = Sys /\ req'[r].table = prefix
                           ELSE req'[r].T = 0 /\ req'[r].table = << >>
        BY <1>4, <4>4, Zenon
      <4> QED BY <1>4, <3>2, <4>1, <4>2, <4>3, <4>5
    <3> QED BY <3>1, <3>2
  <2> QED BY <1>1, <2>1, <2>2, Zenon DEF KVAdmitted
<1>11. KVFeasible'
  <2> DEFINE P == InPlan
             d(q) == req[q].dq
             ds == [i \in DOMAIN P |-> req[P[i]].dq]
  <2>1. P \in Seq(Requests) /\ ToSet(P) = ToSet(running) \cup ToSet(admitted) /\ PlanNeed = Total(ds)
    BY <1>0, KVPlanNeed, Zenon DEF PlanNeed, Need
  <2>2. InPlan' = Append(P, r)
    <3>1. running \o Append(admitted, r) = Append(running \o admitted, r)
      BY <1>2, <1>3, SMTT(30)
    <3> QED BY <1>1, <3>1, Zenon DEF InPlan, r
  <2>3. PlanNeed' = Total([i \in DOMAIN Append(P, r) |-> req'[Append(P, r)[i]].dq])
    BY <2>2, Zenon DEF PlanNeed, Need
  <2> HIDE DEF P
  <2>4. \A i \in 1 .. Len(P) : P[i] \in Requests /\ P[i] \in ToSet(P) /\ P[i] # r
    <3>1. r \notin ToSet(P)
      BY <1>4, <2>1 DEF InBatch
    <3> QED BY <2>1, <3>1, Listed
  <2>5. \A i \in 1 .. Len(P) : req'[P[i]].dq = req[P[i]].dq /\ req[P[i]].dq \in Nat
    BY <1>0, <1>4, <2>4, KVRequest
  <2>6. /\ DOMAIN P = 1 .. Len(P) /\ Len(P) \in Nat /\ DOMAIN Append(P, r) = 1 .. Len(P) + 1
        /\ Append(P, r)[Len(P) + 1] = r /\ \A i \in 1 .. Len(P) : Append(P, r)[i] = P[i]
    BY <1>3, <2>1, AppendProperties
  <2>7. ds \in Seq(Int) /\ Len(ds) = Len(P) /\ \A i \in 1 .. Len(P) : ds[i] = req[P[i]].dq
    BY <2>5, <2>6
  <2>8. [i \in DOMAIN Append(P, r) |-> req'[Append(P, r)[i]].dq] = Append(ds, AdmitDq(r))
    <3> DEFINE g == [i \in 1 .. Len(P) + 1 |-> req'[Append(P, r)[i]].dq]
               n == Len(P)
               k == Append(ds, AdmitDq(r))
    <3>1. k \in Seq(Int) /\ Len(k) = n + 1 /\ k[n + 1] = AdmitDq(r) /\ \A i \in 1 .. n : k[i] = ds[i]
      <4>1. AdmitDq(r) \in Int
        BY <1>4
      <4> HIDE DEF ds
      <4> QED BY <2>7, <4>1, AppendProperties
    <3>2. ASSUME NEW i \in 1 .. n + 1 PROVE g[i] = k[i]
      <4>1. CASE i = n + 1
        BY <1>4, <2>6, <3>1, <4>1
      <4>2. CASE i # n + 1
        <5>1. i \in 1 .. n
          BY <2>6, <4>2
        <5> QED BY <2>5, <2>6, <2>7, <3>1, <5>1
      <4> QED BY <4>1, <4>2
    <3>3. g = k
      <4>1. k = [i \in 1 .. n + 1 |-> k[i]]
        <5> HIDE DEF k
        <5> QED BY <3>1, <2>6
      <4>2. g = [i \in 1 .. n + 1 |-> g[i]]
        OBVIOUS
      <4> HIDE DEF g, k
      <4> QED BY <3>2, <4>1, <4>2
    <3> QED BY <2>6, <3>3
  <2> HIDE DEF ds
  <2>9. PlanNeed' = PlanNeed + AdmitDq(r)
    <3>1. AdmitDq(r) \in Int
      BY <1>4
    <3>2. Total(Append(ds, AdmitDq(r))) = Total(ds) + AdmitDq(r)
      BY <2>7, <3>1, TotalAppend
    <3> QED BY <2>1, <2>3, <2>8, <3>2, Zenon
  <2> QED BY <1>1, <2>9 DEF KVFeasible, r
<1>12. KVPrefix'
  <2>1. Requests' = Requests /\ Blocks' = Blocks /\ \A q : Shared(q)' = Shared(q)
    BY <1>1, KVFixed, Zenon
  <2>2. /\ prefix # << >> => Len(prefix) = SysBlocks
        /\ Apart(prefix)
        /\ \A i \in DOMAIN prefix : pool.fill[prefix[i]] = B
    BY <1>0 DEF KVPrefix
  <2>3. ASSUME NEW q \in Requests
        PROVE  \/ req'[q].table = req[q].table
               \/ Shared(q) /\ req'[q].table = prefix
    BY <1>4
  <2>4. ASSUME NEW q \in Requests, NEW i \in DOMAIN req'[q].table, NEW j \in DOMAIN prefix,
               req'[q].table[i] = prefix[j]
        PROVE  i = j /\ Shared(q)
    <3>1. CASE req'[q].table = req[q].table
      BY <1>0, <2>4, <3>1 DEF KVPrefix
    <3>2. CASE Shared(q) /\ req'[q].table = prefix
      BY <2>2, <2>4, <3>2 DEF Apart
    <3> QED BY <2>3, <3>1, <3>2
  <2>5. ASSUME NEW q \in Requests, NEW p \in Requests, NEW b \in Blocks, q # p,
               b \in ToSet(req'[q].table), b \in ToSet(req'[p].table)
        PROVE  b \in ToSet(prefix)
    <3>1. CASE req'[q].table = req[q].table /\ req'[p].table = req[p].table
      BY <1>0, <2>5, <3>1 DEF KVPrefix
    <3>2. CASE req'[q].table = prefix \/ req'[p].table = prefix
      BY <2>5, <3>2
    <3> QED BY <2>3, <3>1, <3>2
  <2> QED BY <1>1, <2>1, <2>2, <2>4, <2>5 DEF KVPrefix
<1>13. Conserved' /\ Refcounts'
  <2>1. ASSUME NEW q \in Requests, NEW b \in Blocks
        PROVE  Counted(q)' /\ b \in ToSet(req'[q].table) <=> Counted(q) /\ b \in ToSet(req[q].table)
    <3>1. CASE q = r
      <4>1. ~Counted(q)' /\ b \notin ToSet(req[q].table)
        BY <1>1, <1>3, <1>4, <3>1, SetOfEmpty DEF Counted
      <4> QED BY <3>1, <4>1
    <3>2. CASE q # r
      <4>1. (Counted(q)' <=> Counted(q)) /\ req'[q] = req[q]
        BY <1>1, <1>3, <1>4, <3>2 DEF Counted
      <4> QED BY <4>1
    <3> QED BY <3>1, <3>2
  <2> QED BY <1>0, <1>1, <1>5, <2>1, KVConservedSame, KVRefsSame
<1> QED BY <1>6, <1>7, <1>8, <1>9, <1>10, <1>11, <1>12, <1>13 DEF KVInv


---------------------------------------------------------------------------
(* The blocks of a plan are dealt out from the free list.                  *)

\* A request is in a plan once.
LEMMA KVPlan ==
  ASSUME TypeOK, KVQueues
  PROVE  /\ InPlan \in Seq(Requests) /\ Apart(InPlan)
         /\ ToSet(InPlan) = ToSet(running) \cup ToSet(admitted)
         /\ \A r : r \in ToSet(InPlan) <=> InBatch(r)
         /\ ToSet(running) \cap ToSet(admitted) = {}
         /\ Apart(running) /\ Apart(admitted) /\ Apart(waiting)
         /\ ToSet(admitted) \cap ToSet(waiting) = {}
<1>1. waiting \in Seq(Requests) /\ running \in Seq(Requests) /\ admitted \in Seq(Requests)
  BY KVUse
<1>2. ToSet(running) \cap ToSet(admitted) = {}
  <2>1. ASSUME NEW r \in ToSet(running), r \in ToSet(admitted) PROVE FALSE
    <3>1. r \in Requests
      BY KVUse
    <3>2. req[r].status = "Running" /\ req[r].status = "Waiting"
      BY <2>1, <3>1 DEF KVQueues
    <3> QED BY <3>2
  <2> QED BY <2>1
<1>3. Apart(running) /\ Apart(admitted \o waiting)
  BY DEF KVQueues
<1>4. Apart(admitted) /\ Apart(waiting) /\ ToSet(admitted) \cap ToSet(waiting) = {}
  BY <1>1, <1>3, ApartConcat
<1>5. Apart(running \o admitted)
  BY <1>1, <1>2, <1>3, <1>4, ApartConcat
<1>6. InPlan \in Seq(Requests) /\ ToSet(InPlan) = ToSet(running) \cup ToSet(admitted)
  BY KVPlanNeed
<1> QED BY <1>2, <1>3, <1>4, <1>5, <1>6 DEF InPlan, InBatch

\* The blocks a longer plan needs.
LEMMA NeedAppend ==
  ASSUME TypeOK, NEW q \in Seq(Requests), NEW e \in Requests
  PROVE  Need(q) \in Nat /\ Need(Append(q, e)) = Need(q) + req[e].dq /\ req[e].dq \in Nat
<1> DEFINE ds == [i \in DOMAIN q |-> req[q[i]].dq]
           n == Len(q)
           k == Append(ds, req[e].dq)
           g == [i \in DOMAIN Append(q, e) |-> req[Append(q, e)[i]].dq]
<1>1. n \in Nat /\ DOMAIN q = 1 .. n /\ \A i \in 1 .. n : q[i] \in Requests
  OBVIOUS
<1>2. \A i \in 1 .. n : req[q[i]].dq \in Nat
  BY <1>1, KVRequest
<1>3. req[e].dq \in Nat
  BY KVRequest
<1>4. ds \in Seq(Nat) /\ Len(ds) = n /\ \A i \in 1 .. n : ds[i] = req[q[i]].dq
  BY <1>1, <1>2
<1>5. /\ DOMAIN Append(q, e) = 1 .. n + 1 /\ Append(q, e)[n + 1] = e
      /\ \A i \in 1 .. n : Append(q, e)[i] = q[i]
  BY AppendProperties
<1>6. k \in Seq(Nat) /\ Len(k) = n + 1 /\ k[n + 1] = req[e].dq /\ \A i \in 1 .. n : k[i] = ds[i]
  <2> HIDE DEF ds
  <2> QED BY <1>3, <1>4, AppendProperties
<1>7. g = k
  <2>1. ASSUME NEW i \in 1 .. n + 1 PROVE g[i] = k[i]
    <3>1. CASE i = n + 1
      BY <1>5, <1>6, <3>1
    <3>2. CASE i # n + 1
      <4>1. i \in 1 .. n
        BY <1>1, <3>2
      <4> QED BY <1>4, <1>5, <1>6, <4>1
    <3> QED BY <3>1, <3>2
  <2>2. k = [i \in 1 .. n + 1 |-> k[i]]
    <3> HIDE DEF k
    <3> QED BY <1>1, <1>6
  <2>3. g = [i \in 1 .. n + 1 |-> g[i]]
    BY <1>5
  <2> HIDE DEF g, k
  <2> QED BY <2>1, <2>2, <2>3
<1>8. Need(q) = Total(ds) /\ Need(Append(q, e)) = Total(k)
  BY <1>7, Zenon DEF Need
<1> HIDE DEF ds
<1>9. ds \in Seq(Int) /\ req[e].dq \in Int /\ Total(ds) \in Nat
  BY <1>3, <1>4, TotalNat
<1>10. Total(Append(ds, req[e].dq)) = Total(ds) + req[e].dq
  BY <1>9, TotalAppend, SMTT(30)
<1> QED BY <1>3, <1>8, <1>9, <1>10

\* No plan needs no blocks.
LEMMA NeedNone == Need(<< >>) = 0
<1>1. [i \in DOMAIN << >> |-> req[<< >>[i]].dq] = << >>
  OBVIOUS
<1>2. Need(<< >>) = Total(<< >>)
  BY <1>1, Zenon DEF Need
<1>3. << >> \in Seq(Int) /\ Len(<< >>) = 0
  OBVIOUS
<1> QED BY <1>2, <1>3, TotalEmpty, Zenon

\* What the first of a plan need.
Needed == [i \in 0 .. Len(InPlan) |-> Need(SubSeq(InPlan, 1, i))]

\* The cuts at which the free list is shared out to the plan.
LEMMA KVSums ==
  ASSUME TypeOK
  PROVE  /\ Len(InPlan) \in Nat
         /\ Needed \in [0 .. Len(InPlan) -> Nat] /\ Needed[0] = 0
         /\ Needed[Len(InPlan)] = PlanNeed
         /\ \A i \in 1 .. Len(InPlan) :
              /\ Needed[i] = Needed[i - 1] + req[InPlan[i]].dq
              /\ req[InPlan[i]].dq \in Nat /\ Needed[i - 1] \in Nat
              /\ Taken(i) = Slice(pool.free, Needed, i)
<1> DEFINE P == InPlan
           m == Len(P)
           N == Needed
<1>1. P \in Seq(Requests) /\ m \in Nat
  BY KVPlanNeed
<1>2. N = [i \in 0 .. m |-> Need(SubSeq(P, 1, i))]
  BY DEF Needed
<1>3. PlanNeed = Need(P)
  BY DEF PlanNeed
<1> HIDE DEF P
<1>4. SubSeq(P, 1, m) = P /\ SubSeq(P, 1, 0) = << >>
  <2>1. /\ SubSeq(P, 1, m) \in Seq(Requests) /\ Len(SubSeq(P, 1, m)) = m
        /\ \A i \in 1 .. m : SubSeq(P, 1, m)[i] = P[i]
    <3>1. m \in 0 .. m
      BY <1>1
    <3> QED BY <1>1, <3>1, HeadAndRest
  <2> QED BY <1>1, <2>1
<1>5. \A i \in 0 .. m : SubSeq(P, 1, i) \in Seq(Requests)
  BY <1>1, HeadAndRest
<1>6. ASSUME NEW i \in 1 .. m
      PROVE  /\ P[i] \in Requests /\ SubSeq(P, 1, i) = Append(SubSeq(P, 1, i - 1), P[i])
             /\ SubSeq(P, 1, i - 1) \in Seq(Requests)
  <2> DEFINE h == i - 1
  <2>1. h \in 0 .. m /\ i \in 0 .. m /\ i = h + 1 /\ h \in Nat
    BY <1>1
  <2> HIDE DEF h
  <2>2. /\ SubSeq(P, 1, i) \in Seq(Requests) /\ Len(SubSeq(P, 1, i)) = i
        /\ \A j \in 1 .. i : SubSeq(P, 1, i)[j] = P[j]
    BY <1>1, <2>1, HeadAndRest
  <2>3. /\ SubSeq(P, 1, h) \in Seq(Requests) /\ Len(SubSeq(P, 1, h)) = h
        /\ \A j \in 1 .. h : SubSeq(P, 1, h)[j] = P[j]
    BY <1>1, <2>1, HeadAndRest
  <2>4. P[i] \in Requests
    BY <1>1
  <2> DEFINE u == SubSeq(P, 1, i)
             w == SubSeq(P, 1, h)
             z == Append(w, P[i])
  <2>5. z \in Seq(Requests) /\ Len(z) = h + 1 /\ z[h + 1] = P[i] /\ \A j \in 1 .. h : z[j] = w[j]
    <3> HIDE DEF w
    <3> QED BY <2>3, <2>4, AppendProperties DEF w
  <2>6. u = z
    <3>1. u \in Seq(Requests) /\ Len(u) = Len(z)
      BY <2>1, <2>2, <2>5
    <3>2. \A j \in 1 .. Len(u) : u[j] = z[j]
      <4>1. ASSUME NEW j \in 1 .. i PROVE u[j] = z[j]
        <5>1. j = i \/ j \in 1 .. h
          BY <2>1
        <5> QED BY <2>1, <2>2, <2>3, <2>5, <5>1
      <4> QED BY <2>2, <4>1
    <3> HIDE DEF u, z
    <3> QED BY <2>5, <3>1, <3>2, SeqEqual
  <2> QED BY <2>3, <2>4, <2>6 DEF h
<1>7. \A i \in 0 .. m : Need(SubSeq(P, 1, i)) \in Nat
  <2>1. CASE Requests = {}
    <3>1. m = 0
      <4>1. \A i \in 1 .. m : P[i] \in Requests
        BY <1>1
      <4> QED BY <1>1, <2>1, <4>1
    <3>2. Need(<< >>) = 0
      BY NeedNone
    <3>3. ASSUME NEW i \in 0 .. m PROVE SubSeq(P, 1, i) = << >>
      <4>1. i = 0
        BY <3>1
      <4> QED BY <1>4, <4>1, Zenon
    <3>4. 0 \in Nat
      OBVIOUS
    <3> QED BY <3>2, <3>3, <3>4, Zenon
  <2>2. CASE Requests # {}
    BY <1>5, <2>2, NeedAppend
  <2> QED BY <2>1, <2>2
<1>8. N \in [0 .. m -> Nat]
  BY <1>2, <1>7
<1>9. N[0] = 0 /\ N[m] = PlanNeed
  <2>1. 0 \in 0 .. m /\ m \in 0 .. m
    BY <1>1
  <2> QED BY <1>2, <1>3, <1>4, <2>1, NeedNone DEF P
<1>10. ASSUME NEW i \in 1 .. m
       PROVE  /\ N[i] = N[i - 1] + req[P[i]].dq /\ req[P[i]].dq \in Nat /\ N[i - 1] \in Nat
              /\ Taken(i) = Slice(pool.free, N, i)
  <2> DEFINE h == i - 1
  <2>1. h \in 0 .. m /\ i \in 0 .. m
    BY <1>1
  <2>2. N[i] = Need(SubSeq(P, 1, i)) /\ N[h] = Need(SubSeq(P, 1, h))
    <3> HIDE DEF h
    <3> QED BY <1>2, <2>1
  <2>3. Need(Append(SubSeq(P, 1, h), P[i])) = Need(SubSeq(P, 1, h)) + req[P[i]].dq
        /\ req[P[i]].dq \in Nat /\ Need(SubSeq(P, 1, h)) \in Nat
    BY <1>6, NeedAppend
  <2>4. Taken(i) = SubSeq(pool.free, Need(SubSeq(P, 1, i - 1)) + 1, Need(SubSeq(P, 1, i)))
    BY DEF Taken, P
  <2> QED BY <1>6, <2>2, <2>3, <2>4, Zenon DEF Slice
<1> QED BY <1>1, <1>8, <1>9, <1>10 DEF P

\* A request's place in the plan.
PlaceOf(r) ==
  LET I == {i \in 1 .. Len(InPlan) : InPlan[i] = r} IN IF I # {} THEN Min(I) ELSE 0

\* Where a request of the batch stands in the plan.
LEMMA KVPlace ==
  ASSUME TypeOK, KVQueues, NEW r \in Requests
  PROVE  IF InBatch(r) THEN PlaceOf(r) \in 1 .. Len(InPlan) /\ InPlan[PlaceOf(r)] = r
                       ELSE PlaceOf(r) = 0
<1> DEFINE I == {i \in 1 .. Len(InPlan) : InPlan[i] = r}
<1>1. InPlan \in Seq(Requests) /\ \A q : q \in ToSet(InPlan) <=> InBatch(q)
  BY KVPlan
<1>2. InBatch(r) <=> I # {}
  <2>1. r \in ToSet(InPlan) <=> \E i \in 1 .. Len(InPlan) : InPlan[i] = r
    BY <1>1, Listed
  <2> QED BY <1>1, <2>1
<1>3. I \in SUBSET Nat /\ \A i \in I : i \in 1 .. Len(InPlan) /\ InPlan[i] = r
  BY <1>1
<1>4. PlaceOf(r) = IF I # {} THEN Min(I) ELSE 0
  BY Zenon DEF PlaceOf
<1> HIDE DEF I
<1>5. I # {} => Min(I) \in I
  BY <1>3, MinOf
<1> QED BY <1>2, <1>3, <1>4, <1>5, Zenon

\* A request with blocks pending.
LEMMA LivePending ==
  ASSUME NEW m \in Live, NEW b \in Seq(Blocks)
  PROVE  LET l == [m EXCEPT !.pending = b] IN
         /\ l.status = m.status /\ l.T = m.T /\ l.generated = m.generated /\ l.table = m.table
         /\ l.pending = b /\ l.hit = m.hit /\ l.s = m.s /\ l.dq = m.dq
         /\ l \in Live
<1> DEFINE l == [m EXCEPT !.pending = b]
<1>2. /\ l.status = m.status /\ l.T = m.T /\ l.generated = m.generated /\ l.table = m.table
      /\ l.pending = b /\ l.hit = m.hit /\ l.s = m.s /\ l.dq = m.dq
      /\ DOMAIN l = DOMAIN m /\ l = [f \in DOMAIN m |-> l[f]]
  BY DEF Live
<1> HIDE DEF l
<1>3. /\ m.status \in {"Future", "Waiting", "Running", "Finished", "Canceled"} /\ m.T \in Nat
      /\ m.generated \in Nat /\ m.table \in Seq(Blocks)
      /\ m.hit \in BOOLEAN /\ m.s \in Nat /\ m.dq \in Nat
  BY LiveFields
<1>5. /\ l.status \in {"Future", "Waiting", "Running", "Finished", "Canceled"} /\ l.T \in Nat
      /\ l.generated \in Nat /\ l.table \in Seq(Blocks) /\ l.pending \in Seq(Blocks)
      /\ l.hit \in BOOLEAN /\ l.s \in Nat /\ l.dq \in Nat
  BY <1>2, <1>3, Zenon
<1>6. l \in Live
  BY <1>2, <1>5, LiveIs, Zenon
<1> QED BY <1>2, <1>6 DEF l

\* What a request is dealt, and what is left.
Dealt(r) == IF InBatch(r) THEN Taken(PlaceOf(r)) ELSE << >>

Left == SubSeq(pool.free, PlanNeed + 1, Len(pool.free))

\* The blocks each request of the plan gets are its own, and were free.
LEMMA KVTaken ==
  ASSUME TypeOK, KVQueues, Conserved, PlanNeed <= Len(pool.free)
  PROVE  /\ \A r \in Requests : /\ Dealt(r) \in Seq(Blocks) /\ Apart(Dealt(r))
                                /\ InBatch(r) => Len(Dealt(r)) = req[r].dq
         /\ \A r, q \in Requests : r # q => ToSet(Dealt(r)) \cap ToSet(Dealt(q)) = {}
         /\ Left \in Seq(Blocks) /\ Apart(Left)
         /\ \A b : b \in ToSet(Left) <=>
                     b \in ToSet(pool.free) /\ \A r \in Requests : b \notin ToSet(Dealt(r))
         /\ \A r \in Requests : ToSet(Dealt(r)) \subseteq ToSet(pool.free)
<1> DEFINE need(r) == Dealt(r)
           s == pool.free
           N == Needed
           m == Len(InPlan)
           k == PlanNeed
           rest == Left
<1>1. s \in Seq(Blocks) /\ Apart(s)
  <2>1. s \in Seq(Blocks)
    BY KVUse, PoolFields
  <2> QED BY <2>1 DEF Conserved, Apart, IsInjective
<1>2. /\ m \in Nat /\ N \in [0 .. m -> Nat] /\ N[0] = 0 /\ N[m] = k /\ k \in Nat
      /\ \A i \in 1 .. m : /\ N[i] = N[i - 1] + req[InPlan[i]].dq
                           /\ req[InPlan[i]].dq \in Nat /\ N[i - 1] \in Nat
                           /\ Taken(i) = Slice(s, N, i)
  BY KVSums, KVPlanNeed
<1>3. k <= Len(s) /\ Len(s) \in Nat
  BY <1>1
<1>4. \A r \in Requests : /\ InBatch(r) => PlaceOf(r) \in 1 .. m /\ InPlan[PlaceOf(r)] = r
                          /\ need(r) = IF InBatch(r) THEN Taken(PlaceOf(r)) ELSE << >>
  BY KVPlace DEF Dealt
<1>5. \A i \in 1 .. m : InPlan[i] \in Requests /\ InBatch(InPlan[i]) /\ PlaceOf(InPlan[i]) = i
  <2>1. InPlan \in Seq(Requests) /\ Apart(InPlan) /\ \A r : r \in ToSet(InPlan) <=> InBatch(r)
    BY KVPlan
  <2>2. ASSUME NEW i \in 1 .. m PROVE InPlan[i] \in Requests /\ InBatch(InPlan[i]) /\ PlaceOf(InPlan[i]) = i
    <3>1. InPlan[i] \in Requests /\ InPlan[i] \in ToSet(InPlan)
      BY <2>1, Listed
    <3> DEFINE j == PlaceOf(InPlan[i])
    <3>2. j \in 1 .. m /\ InPlan[j] = InPlan[i]
      BY <1>4, <2>1, <3>1
    <3> HIDE DEF j
    <3>3. j = i
      BY <2>1, <3>2 DEF Apart
    <3> QED BY <2>1, <3>1, <3>3 DEF j
  <2> QED BY <2>2
<1> HIDE DEF need, s, N, m, k
<1>6. /\ \A i \in 1 .. m : /\ Slice(s, N, i) \in Seq(Blocks) /\ Apart(Slice(s, N, i))
                           /\ Len(Slice(s, N, i)) = N[i] - N[i - 1]
      /\ \A i, j \in 1 .. m : i # j => ToSet(Slice(s, N, i)) \cap ToSet(Slice(s, N, j)) = {}
      /\ \A e : (\E i \in 1 .. m : e \in ToSet(Slice(s, N, i))) <=> (\E p \in 1 .. N[m] : e = s[p])
  <2>1. ASSUME NEW i \in 1 .. m PROVE N[i - 1] <= N[i]
    <3>1. N[i] = N[i - 1] + req[InPlan[i]].dq /\ req[InPlan[i]].dq \in Nat /\ N[i - 1] \in Nat
      BY <1>2
    <3> QED BY <3>1
  <2>2. /\ m \in Nat /\ N \in [0 .. m -> Nat] /\ N[0] = 0 /\ N[m] <= Len(s)
        /\ s \in Seq(Blocks) /\ Apart(s) /\ \A i \in 1 .. m : N[i - 1] <= N[i]
    BY <1>1, <1>2, <1>3, <2>1
  <2>3. CutUp(Blocks, s, N, m)
    BY <2>2, SlicesCut, Zenon
  <2> QED BY <2>3, Zenon DEF CutUp
<1>7. ASSUME NEW r \in Requests
      PROVE  /\ need(r) \in Seq(Blocks) /\ Apart(need(r))
             /\ InBatch(r) => Len(need(r)) = req[r].dq
  <2>1. CASE InBatch(r)
    <3> DEFINE i == PlaceOf(r)
    <3>1. i \in 1 .. m /\ need(r) = Taken(i) /\ InPlan[i] = r
      BY <1>4, <2>1
    <3> HIDE DEF i
    <3>2. Taken(i) = Slice(s, N, i) /\ N[i] = N[i - 1] + req[r].dq /\ req[r].dq \in Nat /\ N[i - 1] \in Nat
      BY <1>2, <3>1
    <3> QED BY <1>6, <3>1, <3>2
  <2>2. CASE ~InBatch(r)
    <3>1. need(r) = << >>
      BY <1>4, <2>2
    <3> QED BY <2>2, <3>1 DEF Apart
  <2> QED BY <2>1, <2>2
<1>8. ASSUME NEW r \in Requests, NEW q \in Requests, r # q
      PROVE  ToSet(need(r)) \cap ToSet(need(q)) = {}
  <2>1. CASE InBatch(r) /\ InBatch(q)
    <3> DEFINE i == PlaceOf(r)
               j == PlaceOf(q)
    <3>1. /\ i \in 1 .. m /\ need(r) = Taken(i) /\ InPlan[i] = r
          /\ j \in 1 .. m /\ need(q) = Taken(j) /\ InPlan[j] = q
      BY <1>4, <2>1
    <3> HIDE DEF i, j
    <3>2. Taken(i) = Slice(s, N, i) /\ Taken(j) = Slice(s, N, j)
      BY <1>2, <3>1
    <3>3. i # j
      BY <1>8, <3>1
    <3> QED BY <1>6, <3>1, <3>2, <3>3
  <2>2. CASE ~(InBatch(r) /\ InBatch(q))
    BY <1>4, <2>2, SetOfEmpty
  <2> QED BY <2>1, <2>2
<1>9. \A b : (\E r \in Requests : b \in ToSet(need(r))) <=> (\E p \in 1 .. k : b = s[p])
  <2>1. ASSUME NEW b, NEW r \in Requests, b \in ToSet(need(r)) PROVE \E i \in 1 .. m : b \in ToSet(Slice(s, N, i))
    <3>1. InBatch(r)
      BY <1>4, <2>1, SetOfEmpty
    <3> QED BY <1>2, <1>4, <2>1, <3>1
  <2>2. ASSUME NEW b, NEW i \in 1 .. m, b \in ToSet(Slice(s, N, i)) PROVE \E r \in Requests : b \in ToSet(need(r))
    <3>1. need(InPlan[i]) = Slice(s, N, i) /\ InPlan[i] \in Requests
      BY <1>2, <1>4, <1>5
    <3> QED BY <2>2, <3>1
  <2> QED BY <1>2, <1>6, <2>1, <2>2
<1>10. /\ rest \in Seq(Blocks) /\ Len(rest) = Len(s) - k
       /\ \A i \in 1 .. Len(s) - k : rest[i] = s[k + i]
  <2>1. k \in 0 .. Len(s)
    BY <1>2, <1>3
  <2>2. rest = SubSeq(s, k + 1, Len(s))
    BY DEF Left, s, k
  <2> HIDE DEF rest
  <2> QED BY <1>1, <2>1, <2>2, HeadAndRest
<1> HIDE DEF rest
<1>11. Apart(rest)
  <2>1. DOMAIN rest = 1 .. Len(s) - k
    BY <1>10
  <2>2. ASSUME NEW i \in 1 .. Len(s) - k, NEW j \in 1 .. Len(s) - k, rest[i] = rest[j] PROVE i = j
    <3>1. k + i \in 1 .. Len(s) /\ k + j \in 1 .. Len(s) /\ i \in Nat /\ j \in Nat
      BY <1>2, <1>3
    <3>2. s[k + i] = s[k + j]
      BY <1>10, <2>2
    <3>3. k + i = k + j
      BY <1>1, <3>1, <3>2 DEF Apart
    <3> QED BY <1>2, <3>1, <3>3
  <2> QED BY <2>1, <2>2 DEF Apart
<1>12. ASSUME NEW b
       PROVE  b \in ToSet(rest) <=> b \in ToSet(s) /\ ~(\E p \in 1 .. k : b = s[p])
  <2>1. b \in ToSet(rest) <=> \E i \in 1 .. Len(s) - k : rest[i] = b
    BY <1>10, Listed
  <2>2. b \in ToSet(s) <=> \E p \in 1 .. Len(s) : s[p] = b
    BY <1>1, Listed
  <2>3. ASSUME NEW i \in 1 .. Len(s) - k, rest[i] = b
        PROVE  b \in ToSet(s) /\ ~(\E p \in 1 .. k : b = s[p])
    <3>1. k + i \in 1 .. Len(s) /\ b = s[k + i] /\ i \in Nat /\ i > 0
      BY <1>2, <1>3, <1>10, <2>3
    <3>2. ASSUME NEW p \in 1 .. k, b = s[p] PROVE FALSE
      <4>1. p \in 1 .. Len(s)
        BY <1>2, <1>3
      <4>2. p = k + i
        <5>1. \A x, y \in 1 .. Len(s) : s[x] = s[y] => x = y
          BY <1>1 DEF Apart
        <5>2. s[p] = s[k + i]
          BY <3>1, <3>2
        <5> QED BY <3>1, <4>1, <5>1, <5>2
      <4> QED BY <1>2, <3>1, <4>2
    <3> QED BY <2>2, <3>1, <3>2
  <2>4. ASSUME b \in ToSet(s), ~(\E p \in 1 .. k : b = s[p])
        PROVE  \E i \in 1 .. Len(s) - k : rest[i] = b
    <3>1. PICK p \in 1 .. Len(s) : s[p] = b
      BY <2>2, <2>4
    <3>2. p - k \in 1 .. Len(s) - k /\ k + (p - k) = p
      BY <1>2, <1>3, <2>4, <3>1
    <3> QED BY <1>10, <3>1, <3>2
  <2> QED BY <2>1, <2>3, <2>4
<1>13. \A p \in 1 .. k : s[p] \in ToSet(s)
  <2>1. \A p \in 1 .. k : p \in 1 .. Len(s)
    BY <1>2, <1>3
  <2> QED BY <1>1, <2>1, Listed
<1> QED BY <1>7, <1>8, <1>9, <1>10, <1>11, <1>12, <1>13, SMTT(30) DEF need, rest, s, k

\* The blocks the plan needs are taken from the head of the free list, each for
\* one request.
LEMMA KVReserve == ASSUME KVInv, Reserve PROVE KVInv'
<1> DEFINE owner(b) == {r \in ToSet(InPlan) : b \in ToSet(req'[r].pending)}
           w == [b \in Blocks |-> IF owner(b) # {} THEN CHOOSE r \in owner(b) : TRUE ELSE pool.resv[b]]
           s == [b \in Blocks |-> IF owner(b) # {} THEN "Reserved" ELSE pool.state[b]]
           d == [b \in Blocks |-> IF b \in ToSet(prefix) THEN pool.holders[b] \cup Hits ELSE pool.holders[b]]
<1>0. TypeOK /\ KVQueues /\ KVIdle /\ KVServed /\ KVAdmitted /\ KVPrefix /\ KVFeasible /\ Conserved /\ Refcounts
  BY DEF KVInv
<1>1. /\ pc = "reserve" /\ pc' = "execute"
      /\ par' = par /\ it' = it /\ waiting' = waiting /\ running' = running
      /\ admitted' = admitted /\ prefix' = prefix /\ failed' = failed
  BY Zenon DEF Reserve
<1>2. pool \in Pool /\ pool.free \in Seq(Blocks) /\ pool.state \in States /\ pool.holders \in Holdings
      /\ pool.resv \in Reservations
  <2>1. pool \in Pool
    BY <1>0, KVUse
  <2> QED BY <2>1, PoolFields DEF States, Holdings, Reservations
<1>3. req' = [r \in Requests |-> IF PlaceOf(r) = 0 THEN req[r]
                                 ELSE [req[r] EXCEPT !.pending = Taken(PlaceOf(r))]]
  BY Zenon DEF Reserve, SelectInSeq, PlaceOf
<1>4. pool' = WithReserved(pool, Left, s, w, d)
  <2>1. pool' = [pool EXCEPT !.free    = SubSeq(@, PlanNeed + 1, Len(@)),
           !.state   = [b \in Blocks |-> IF owner(b) # {} THEN "Reserved" ELSE @[b]],
           !.resv    = [b \in Blocks |-> IF owner(b) # {} THEN CHOOSE r \in owner(b) : TRUE
                                                         ELSE @[b]],
           !.holders = [b \in Blocks |-> IF b \in ToSet(prefix) THEN @[b] \cup Hits
                                                               ELSE @[b]]]
    BY Zenon DEF Reserve
  <2> DEFINE P == [state: [Blocks -> {"Free", "Reserved", "Committed"}],
                   holders: [Blocks -> SUBSET (Requests \cup {Index})],
                   resv: [Blocks -> Requests \cup {0}], fill: [Blocks -> 0 .. B], free: Seq(Blocks)]
  <2>2. pool \in P
    BY <1>2 DEF Pool
  <2> HIDE DEF owner
  <2> QED BY <2>1, <2>2 DEF WithReserved, Left
<1>5. PlanNeed <= Len(pool.free)
  BY <1>0, <1>1 DEF KVFeasible
<1>6. /\ \A r \in Requests : /\ Dealt(r) \in Seq(Blocks) /\ Apart(Dealt(r))
                             /\ InBatch(r) => Len(Dealt(r)) = req[r].dq
      /\ \A r, q \in Requests : r # q => ToSet(Dealt(r)) \cap ToSet(Dealt(q)) = {}
      /\ Left \in Seq(Blocks) /\ Apart(Left)
      /\ \A b : b \in ToSet(Left) <=>
                  b \in ToSet(pool.free) /\ \A r \in Requests : b \notin ToSet(Dealt(r))
      /\ \A r \in Requests : ToSet(Dealt(r)) \subseteq ToSet(pool.free)
  BY <1>0, <1>5, KVTaken, Zenon
<1>7. ASSUME NEW r \in Requests
      PROVE  /\ req'[r].status = req[r].status /\ req'[r].T = req[r].T
             /\ req'[r].generated = req[r].generated /\ req'[r].table = req[r].table
             /\ req'[r].pending = Dealt(r) /\ req'[r].hit = req[r].hit
             /\ req'[r].s = req[r].s /\ req'[r].dq = req[r].dq
             /\ req'[r] \in Live
             /\ req[r].pending = << >>
             /\ ~InBatch(r) => Dealt(r) = << >>
  <2>1. req[r] \in Live
    BY <1>0, KVRequest
  <2>2. req[r].pending = << >>
    <3>1. ~Reserving
      BY <1>1 DEF Reserving
    <3> QED BY <1>0, <3>1, Zenon DEF KVIdle
  <2>3. CASE InBatch(r)
    <3> DEFINE b == Dealt(r)
    <3>1. PlaceOf(r) \in 1 .. Len(InPlan) /\ b = Taken(PlaceOf(r)) /\ Len(InPlan) \in Nat
      BY <1>0, <2>3, KVPlace, KVSums DEF Dealt
    <3>2. PlaceOf(r) # 0
      BY <3>1
    <3>3. req'[r] = [req[r] EXCEPT !.pending = b] /\ b \in Seq(Blocks)
      BY <1>3, <1>6, <3>1, <3>2
    <3> HIDE DEF b
    <3> QED BY <2>1, <2>2, <2>3, <3>3, LivePending DEF b
  <2>4. CASE ~InBatch(r)
    <3>1. PlaceOf(r) = 0 /\ Dealt(r) = << >>
      BY <1>0, <2>4, KVPlace DEF Dealt
    <3>2. req'[r] = req[r]
      BY <1>3, <3>1
    <3> QED BY <2>1, <2>2, <3>1, <3>2
  <2> QED BY <2>3, <2>4
<1>8. req' = [r \in Requests |-> req'[r]]
  BY <1>3
<1>9. ASSUME NEW b \in Blocks
      PROVE  /\ owner(b) # {} <=> \E r \in Requests : b \in ToSet(Dealt(r))
             /\ \A r \in Requests : b \in ToSet(Dealt(r)) => owner(b) = {r}
  <2>1. ToSet(InPlan) \subseteq Requests /\ \A r : r \in ToSet(InPlan) <=> InBatch(r)
    <3>1. InPlan \in Seq(Requests) /\ \A r : r \in ToSet(InPlan) <=> InBatch(r)
      BY <1>0, KVPlan
    <3> QED BY <3>1, SetOf
  <2>2. owner(b) = {r \in ToSet(InPlan) : b \in ToSet(Dealt(r))}
    BY <1>7, <2>1
  <2>3. ASSUME NEW r \in Requests, b \in ToSet(Dealt(r)) PROVE r \in ToSet(InPlan)
    BY <1>7, <2>1, <2>3, SetOfEmpty
  <2> HIDE DEF owner
  <2>4. ASSUME NEW r \in Requests, b \in ToSet(Dealt(r)), NEW q \in owner(b) PROVE q = r
    BY <1>6, <2>1, <2>2, <2>4
  <2> QED BY <2>1, <2>2, <2>3, <2>4
<1> HIDE DEF owner
<1>10. s \in States /\ w \in Reservations /\ d \in Holdings
  <2>1. \A b \in Blocks : owner(b) # {} => (CHOOSE r \in owner(b) : TRUE) \in Requests
    <3>1. ASSUME NEW b \in Blocks, owner(b) # {} PROVE (CHOOSE r \in owner(b) : TRUE) \in Requests
      <4>1. PICK r \in Requests : b \in ToSet(Dealt(r))
        BY <1>9, <3>1
      <4>2. owner(b) = {r}
        BY <1>9, <4>1
      <4> QED BY <4>2
    <3> QED BY <3>1
  <2>2. Hits \subseteq Requests
    BY <1>0, KVUse DEF Hits
  <2>3. s \in States
    BY <1>2 DEF States
  <2>4. w \in Reservations
    BY <1>2, <2>1 DEF Reservations
  <2>5. d \in Holdings
    BY <1>2, <2>2 DEF Holdings
  <2> QED BY <2>3, <2>4, <2>5
<1>11. ASSUME NEW b \in Blocks
       PROVE  /\ s[b] = (IF \E r \in Requests : b \in ToSet(Dealt(r)) THEN "Reserved" ELSE pool.state[b])
              /\ \A r \in Requests : b \in ToSet(Dealt(r)) => w[b] = r
              /\ (\A r \in Requests : b \notin ToSet(Dealt(r))) => w[b] = pool.resv[b]
              /\ d[b] = IF b \in ToSet(prefix) THEN pool.holders[b] \cup Hits ELSE pool.holders[b]
  <2>1. \A r \in Requests : b \in ToSet(Dealt(r)) => w[b] = r
    BY <1>9
  <2> QED BY <1>9, <2>1
<1> HIDE DEF s, w, d
<1>12. /\ pool' \in Pool /\ pool'.state = s /\ pool'.holders = d /\ pool'.resv = w
       /\ pool'.fill = pool.fill /\ pool'.free = Left
  BY <1>2, <1>4, <1>6, <1>10, PoolReserved
<1>13. /\ \A r : Counted(r)' /\ (Counted(r) <=> r \notin ToSet(admitted))
       /\ \A r : InBatch(r)' <=> InBatch(r)
       /\ Reserving' /\ ~Reserving /\ Planning /\ Planning'
  BY <1>1 DEF Counted, InBatch, Reserving, Planning
<1>14. TypeOK'
  <2>1. it \in 1 .. MaxIter + 1 /\ it \in Nat /\ MaxIter \in Nat
    BY <1>0, KVUse, Zenon DEF TypeOK
  <2>2. 1 <= it /\ it <= MaxIter + 1 /\ pc' \in Places
    BY <1>1, <2>1 DEF Places
  <2> QED BY <1>0, <1>1, <1>7, <1>8, <1>12, <2>1, <2>2, KVUse, KVTypeNext
<1>15. KVQueues'
  <2>1. KVRound' = KVRound
    BY <1>1 DEF KVRound
  <2>2. pc' # "arrive" => it' <= MaxIter
    BY <1>0, <1>1 DEF KVQueues
  <2> QED BY <1>0, <1>1, <1>7, <2>1, <2>2, KVQueuesSame
<1>16. KVIdle'
  <2>1. Requests' = Requests
    BY <1>1, KVFixed, Zenon
  <2>2. ASSUME NEW r \in Requests
        PROVE  /\ ~InBatch(r) => req'[r].table = << >> /\ req'[r].T = 0
               /\ IF InBatch(r) THEN Len(req'[r].pending) = req'[r].dq ELSE req'[r].pending = << >>
               /\ Apart(req'[r].table) /\ Apart(req'[r].pending)
    <3>1. /\ ~InBatch(r) => req[r].table = << >> /\ req[r].T = 0
          /\ Apart(req[r].table)
      BY <1>0, Zenon DEF KVIdle
    <3> QED BY <1>6, <1>7, <3>1
  <2> QED BY <1>13, <2>1, <2>2, Zenon DEF KVIdle
<1>17. KVServed' /\ KVAdmitted' /\ KVFeasible'
  <2>1. \A q : Prompt(q)' = Prompt(q) /\ Shared(q)' = Shared(q)
    BY <1>1, KVFixed, Zenon
  <2>2. \A q \in Requests : DecodeDq(q)' = DecodeDq(q)
    BY <1>7 DEF DecodeDq
  <2>3. ToSet(running) \subseteq Requests /\ ToSet(admitted) \subseteq Requests
    BY <1>0, KVUse
  <2>4. KVServed'
    <3>1. ASSUME NEW r \in ToSet(running)
          PROVE  /\ req'[r].generated > 0
                 /\ req'[r].T = Prompt(r) + req'[r].generated - 1
                 /\ Len(req'[r].table) = BlocksFor(req'[r].T)
                 /\ ~req'[r].hit
                 /\ req'[r].s = 1 /\ req'[r].dq = DecodeDq(r)'
                 /\ \A i \in DOMAIN req'[r].table : pool.fill[req'[r].table[i]] = Tokens(req'[r].T, i - 1)
      <4>1. r \in Requests
        BY <2>3
      <4>2. /\ req[r].generated > 0
            /\ req[r].T = Prompt(r) + req[r].generated - 1
            /\ Len(req[r].table) = BlocksFor(req[r].T)
            /\ ~req[r].hit
            /\ req[r].s = 1 /\ req[r].dq = DecodeDq(r)
            /\ \A i \in DOMAIN req[r].table : pool.fill[req[r].table[i]] = Tokens(req[r].T, i - 1)
        BY <1>0, <1>1, <1>13 DEF KVServed
      <4> QED BY <1>7, <2>2, <4>1, <4>2
    <3> QED BY <1>1, <1>12, <2>1, <3>1, Zenon DEF KVServed
  <2>5. KVAdmitted'
    <3>1. ASSUME NEW r \in ToSet(admitted)
          PROVE  /\ req'[r].T + req'[r].s = Prompt(r) + req'[r].generated
                 /\ req'[r].dq = BlocksFor(Prompt(r) + req'[r].generated) - BlocksFor(req'[r].T)
                 /\ IF req'[r].hit THEN Shared(r) /\ prefix # << >> /\ req'[r].T = Sys /\ req'[r].table = prefix
                                   ELSE req'[r].T = 0 /\ req'[r].table = << >>
      <4>1. r \in Requests
        BY <2>3
      <4> QED BY <1>0, <1>7, <4>1 DEF KVAdmitted
    <3> QED BY <1>1, <2>1, <3>1, Zenon DEF KVAdmitted
  <2>6. KVFeasible'
    BY <1>1 DEF KVFeasible
  <2> QED BY <2>4, <2>5, <2>6
<1>18. KVPrefix'
  BY <1>0, <1>1, <1>7, <1>12, KVPrefixSame
<1>19. Conserved'
  <2>1. \A b \in Blocks : pool.resv[b] = 0
    <3>1. ASSUME NEW b \in Blocks PROVE pool.resv[b] = 0
      <4>1. \A r \in Requests : pool.resv[b] = r => b \in ToSet(req[r].pending)
        BY <1>0, KVBlock
      <4>2. \A r \in Requests : b \notin ToSet(req[r].pending)
        BY <1>7, SetOfEmpty
      <4>3. pool.resv[b] \in Requests \cup {0}
        BY <1>0, KVBlock
      <4> QED BY <4>1, <4>2, <4>3
    <3> QED BY <3>1
  <2>2. ASSUME NEW b \in Blocks
        PROVE  /\ b \in ToSet(Left) <=> pool'.state[b] = "Free"
               /\ pool'.state[b] = "Reserved" <=> pool'.resv[b] # 0
               /\ \A r \in Requests : pool'.resv[b] = r <=> b \in ToSet(req'[r].pending)
    <3>1. /\ b \in ToSet(pool.free) <=> pool.state[b] = "Free"
          /\ pool.state[b] # "Reserved"
      BY <1>0, <2>1, KVBlock
    <3>2. 0 \notin Requests
      BY <1>0, KVUse
    <3>3. CASE \E r \in Requests : b \in ToSet(Dealt(r))
      <4>1. PICK r \in Requests : b \in ToSet(Dealt(r))
        BY <3>3
      <4>2. pool'.state[b] = "Reserved" /\ pool'.resv[b] = r /\ b \notin ToSet(Left)
        BY <1>6, <1>11, <1>12, <4>1
      <4>3. ASSUME NEW q \in Requests PROVE q = r <=> b \in ToSet(req'[q].pending)
        BY <1>6, <1>7, <4>1
      <4> QED BY <3>2, <4>2, <4>3
    <3>4. CASE \A r \in Requests : b \notin ToSet(Dealt(r))
      <4>1. pool'.state[b] = pool.state[b] /\ pool'.resv[b] = 0 /\ (b \in ToSet(Left) <=> b \in ToSet(pool.free))
        BY <1>6, <1>11, <1>12, <2>1, <3>4
      <4>2. \A q \in Requests : b \notin ToSet(req'[q].pending)
        BY <1>7, <3>4
      <4> QED BY <3>1, <3>2, <4>1, <4>2
    <3> QED BY <3>3, <3>4
  <2>3. ToSet(Left) \subseteq Blocks
    BY <1>6, SetOf
  <2>4. ToSet(Left) = {b \in Blocks : pool'.state[b] = "Free"}
    BY <2>2, <2>3
  <2> QED BY <1>1, <1>6, <1>12, <2>2, <2>4, KVConservedNext
<1>20. Refcounts'
  <2>1. ASSUME NEW b \in Blocks
        PROVE  /\ pool'.holders[b] \subseteq Requests \cup {Index}
               /\ pool'.state[b] = "Committed" <=> pool'.holders[b] # {}
               /\ Index \in pool'.holders[b] <=> b \in ToSet(prefix')
               /\ \A r \in Requests : r \in pool'.holders[b] <=> Counted(r)' /\ b \in ToSet(req'[r].table)
    <3>1. /\ pool.holders[b] \subseteq Requests \cup {Index}
          /\ Index \in pool.holders[b] <=> b \in ToSet(prefix)
          /\ \A r \in Requests : r \in pool.holders[b] <=> Counted(r) /\ b \in ToSet(req[r].table)
          /\ pool.state[b] = "Committed" <=> pool.holders[b] # {}
          /\ pool.state[b] = "Free" <=> b \in ToSet(pool.free)
      BY <1>0, KVBlock
    <3>2. /\ pool'.holders[b] = IF b \in ToSet(prefix) THEN pool.holders[b] \cup Hits ELSE pool.holders[b]
          /\ pool'.state[b] = (IF \E r \in Requests : b \in ToSet(Dealt(r)) THEN "Reserved" ELSE pool.state[b])
      BY <1>11, <1>12
    <3>3. Hits = {r \in ToSet(admitted) : req[r].hit} /\ Index \notin Requests /\ ToSet(admitted) \subseteq Requests
      BY <1>0, KVUse DEF Hits
    <3>4. (\E r \in Requests : b \in ToSet(Dealt(r))) => pool.state[b] = "Free"
      BY <1>6, <3>1
    <3>5. pool'.state[b] = "Committed" <=> pool'.holders[b] # {}
      BY <3>1, <3>2, <3>4
    <3>6. ASSUME NEW r \in Requests PROVE r \in pool'.holders[b] <=> b \in ToSet(req[r].table)
      <4>1. CASE r \notin ToSet(admitted)
        <5>1. r \notin Hits /\ Counted(r)
          BY <1>13, <3>3, <4>1
        <5> QED BY <3>1, <3>2, <5>1
      <4>2. CASE r \in ToSet(admitted)
        <5>1. r \notin pool.holders[b]
          BY <1>13, <3>1, <4>2
        <5>2. IF req[r].hit THEN req[r].table = prefix ELSE req[r].table = << >>
          BY <1>0, <4>2 DEF KVAdmitted
        <5>3. r \in Hits <=> req[r].hit
          BY <3>3, <4>2
        <5> QED BY <3>2, <5>1, <5>2, <5>3, SetOfEmpty
      <4> QED BY <4>1, <4>2
    <3>7. \A r \in Requests : req'[r].table = req[r].table
      BY <1>7
    <3> QED BY <1>1, <1>13, <3>1, <3>2, <3>3, <3>5, <3>6, <3>7
  <2> QED BY <1>0, <1>1, <2>1, KVRefsNext
<1> QED BY <1>14, <1>15, <1>16, <1>17, <1>18, <1>19, <1>20 DEF KVInv

\* A request whose plan is taken back.
LEMMA LiveUnplanned ==
  ASSUME NEW m \in Live
  PROVE  LET l == Unplanned(m) IN
         /\ l.status = m.status /\ l.generated = m.generated
         /\ l.T = (IF m.hit THEN 0 ELSE m.T) /\ l.table = (IF m.hit THEN << >> ELSE m.table)
         /\ l.pending = << >> /\ l.hit = m.hit /\ l.s = m.s /\ l.dq = m.dq
         /\ l \in Live
<1> DEFINE l == Unplanned(m)
<1>2. /\ l.status = m.status /\ l.generated = m.generated
      /\ l.T = (IF m.hit THEN 0 ELSE m.T) /\ l.table = (IF m.hit THEN << >> ELSE m.table)
      /\ l.pending = << >> /\ l.hit = m.hit /\ l.s = m.s /\ l.dq = m.dq
      /\ DOMAIN l = DOMAIN m /\ l = [f \in DOMAIN m |-> l[f]]
  BY DEF Live, Unplanned
<1> HIDE DEF l
<1>3. /\ m.status \in {"Future", "Waiting", "Running", "Finished", "Canceled"} /\ m.T \in Nat
      /\ m.generated \in Nat /\ m.table \in Seq(Blocks)
      /\ m.hit \in BOOLEAN /\ m.s \in Nat /\ m.dq \in Nat
  BY LiveFields
<1>4. l.T \in Nat /\ l.table \in Seq(Blocks) /\ l.pending \in Seq(Blocks)
  BY <1>2, <1>3
<1>5. /\ l.status \in {"Future", "Waiting", "Running", "Finished", "Canceled"}
      /\ l.generated \in Nat
      /\ l.hit \in BOOLEAN /\ l.s \in Nat /\ l.dq \in Nat
  BY <1>2, <1>3, Zenon
<1>6. l \in Live
  BY <1>2, <1>4, <1>5, LiveIs, Zenon
<1> QED BY <1>2, <1>6 DEF l

\* A block that is reserved has no holder, and is none a table or the cached prompt names.
LEMMA KVReserved ==
  ASSUME TypeOK, Conserved, Refcounts, NEW b \in Blocks, pool.resv[b] # 0
  PROVE  /\ pool.holders[b] = {} /\ b \notin ToSet(prefix)
         /\ \A r \in Requests : Counted(r) => b \notin ToSet(req[r].table)
<1>1. pool.state[b] = "Reserved" /\ pool.state[b] # "Committed"
  BY KVBlock
<1>2. pool.holders[b] = {}
  BY <1>1, KVBlock
<1> QED BY <1>2, KVBlock

\* A failed iteration gives back every block it had reserved, and nothing
\* committed.
LEMMA KVRollback == ASSUME KVInv, Rollback PROVE KVInv'
<1>0. TypeOK /\ KVQueues /\ KVIdle /\ KVServed /\ KVAdmitted /\ KVPrefix /\ KVFeasible /\ Conserved /\ Refcounts
  BY DEF KVInv
<1>1. /\ pc = "execute" /\ pc' = "arrive" /\ it' = it + 1
      /\ par' = par /\ waiting' = admitted \o waiting /\ running' = running
      /\ admitted' = << >> /\ prefix' = prefix /\ failed' = TRUE
      /\ pool' = Returned(InPlan)
  BY Zenon DEF Rollback
<1>2. req' = [r \in Requests |-> IF r \in ToSet(InPlan) THEN Unplanned(req[r]) ELSE req[r]]
  BY Zenon DEF Rollback
<1>3. /\ InPlan \in Seq(Requests) /\ Apart(InPlan)
      /\ ToSet(InPlan) = ToSet(running) \cup ToSet(admitted)
      /\ \A r : r \in ToSet(InPlan) <=> InBatch(r)
      /\ ToSet(running) \cap ToSet(admitted) = {}
  BY <1>0, KVPlan
<1>4. /\ \A r : Counted(r)' /\ Counted(r)
      /\ \A r : InBatch(r)' <=> r \in ToSet(running)
      /\ Reserving /\ ~Reserving' /\ Planning /\ ~Planning'
  BY <1>1, SetOfEmpty DEF Counted, InBatch, Reserving, Planning
<1>5. ASSUME NEW r \in Requests
      PROVE  /\ req'[r].status = req[r].status
             /\ req'[r].generated = req[r].generated
             /\ req'[r].T = (IF r \in ToSet(running) THEN req[r].T ELSE 0)
             /\ req'[r].table = (IF r \in ToSet(running) THEN req[r].table ELSE << >>)
             /\ req'[r].pending = << >>
             /\ req'[r] \in Live
             /\ InBatch(r) /\ req[r].hit => r \in ToSet(admitted) /\ req[r].table = prefix
             /\ ~InBatch(r) => req[r].pending = << >>
             /\ r \notin ToSet(running) => req[r].table = << >> \/ (req[r].hit /\ req[r].table = prefix /\ InBatch(r))
  <2>1. req[r] \in Live
    BY <1>0, KVRequest
  <2>2. r \in ToSet(running) => ~req[r].hit
    BY <1>0, <1>1 DEF KVServed
  <2>3. r \in ToSet(admitted) =>
          IF req[r].hit THEN req[r].table = prefix ELSE req[r].T = 0 /\ req[r].table = << >>
    BY <1>0 DEF KVAdmitted
  <2>4. ~InBatch(r) => req[r].table = << >> /\ req[r].T = 0 /\ req[r].pending = << >>
    BY <1>0, <1>4, Zenon DEF KVIdle
  <2>5. InBatch(r) <=> r \in ToSet(running) \/ r \in ToSet(admitted)
    BY DEF InBatch
  <2>6. req'[r] = IF InBatch(r) THEN Unplanned(req[r]) ELSE req[r]
    BY <1>2, <1>3
  <2>7. CASE InBatch(r)
    <3>1. req'[r] = Unplanned(req[r])
      BY <2>6, <2>7
    <3>2. /\ req'[r].status = req[r].status /\ req'[r].generated = req[r].generated
          /\ req'[r].T = (IF req[r].hit THEN 0 ELSE req[r].T)
          /\ req'[r].table = (IF req[r].hit THEN << >> ELSE req[r].table)
          /\ req'[r].pending = << >> /\ req'[r] \in Live
      BY <2>1, <3>1, LiveUnplanned
    <3> QED BY <2>2, <2>3, <2>5, <2>7, <3>2
  <2>8. CASE ~InBatch(r)
    <3>1. req'[r] = req[r]
      BY <2>6, <2>8
    <3> QED BY <2>1, <2>4, <2>5, <2>8, <3>1
  <2> QED BY <2>7, <2>8
<1>6. req' = [r \in Requests |-> req'[r]]
  BY <1>2
<1>7. /\ pool' \in Pool
      /\ \A b \in Blocks :
           /\ pool'.holders[b] = pool.holders[b] \ {r \in ToSet(InPlan) : req[r].hit /\ b \in ToSet(prefix)}
           /\ pool'.state[b] = IF pool.resv[b] \in ToSet(InPlan) THEN "Free" ELSE pool.state[b]
           /\ pool'.resv[b] = IF pool.resv[b] \in ToSet(InPlan) THEN 0 ELSE pool.resv[b]
           /\ pool.resv[b] \notin ToSet(InPlan) => pool'.fill[b] = pool.fill[b]
           /\ pool'.state[b] = "Reserved" <=> pool'.resv[b] # 0
      /\ ToSet(pool'.free) = {b \in Blocks : pool'.state[b] = "Free"} /\ Apart(pool'.free)
  <2>1. \A r \in Requests : Apart(req[r].pending)
    BY <1>0 DEF KVIdle
  <2> DEFINE p == Returned(InPlan)
  <2>2. /\ p \in Pool
        /\ \A b \in Blocks :
           /\ p.holders[b] = pool.holders[b] \ {r \in ToSet(InPlan) : req[r].hit /\ b \in ToSet(prefix)}
           /\ p.state[b] = IF pool.resv[b] \in ToSet(InPlan) THEN "Free" ELSE pool.state[b]
           /\ p.resv[b] = IF pool.resv[b] \in ToSet(InPlan) THEN 0 ELSE pool.resv[b]
           /\ pool.resv[b] \notin ToSet(InPlan) => p.fill[b] = pool.fill[b]
           /\ p.state[b] = "Reserved" <=> p.resv[b] # 0
        /\ ToSet(p.free) = {b \in Blocks : p.state[b] = "Free"} /\ Apart(p.free)
    BY <1>0, <1>3, <2>1, KVReturn
  <2> HIDE DEF p
  <2>3. pool' = p
    BY <1>1 DEF p
  <2> QED BY <2>2, <2>3
<1>8. \A r \in ToSet(InPlan) : r # 0 /\ r \in Requests
  <2>1. ToSet(InPlan) \subseteq Requests
    BY <1>3, SetOf
  <2> QED BY <1>0, <2>1, KVUse
<1>9. ASSUME NEW b \in Blocks PROVE pool.resv[b] # 0 <=> pool.resv[b] \in ToSet(InPlan)
  <2>1. ASSUME pool.resv[b] # 0 PROVE pool.resv[b] \in ToSet(InPlan)
    <3>1. PICK r \in Requests : pool.resv[b] = r
      BY <1>0, <2>1, KVBlock
    <3>2. b \in ToSet(req[r].pending)
      BY <1>0, <3>1, KVBlock
    <3>3. InBatch(r)
      BY <1>5, <3>1, <3>2, SetOfEmpty
    <3> QED BY <1>3, <3>1, <3>3
  <2> QED BY <1>8, <2>1
<1>10. \A b \in Blocks : pool.holders[b] # {} => pool'.fill[b] = pool.fill[b]
  BY <1>0, <1>7, <1>9, KVReserved
<1>11. TypeOK'
  <2>1. it \in 1 .. MaxIter + 1 /\ it \in Nat /\ MaxIter \in Nat
    BY <1>0, KVUse, Zenon DEF TypeOK
  <2>2. it <= MaxIter
    BY <1>0, <1>1 DEF KVQueues
  <2>3. it' \in Nat /\ 1 <= it' /\ it' <= MaxIter + 1 /\ pc' \in Places
    BY <1>1, <2>1, <2>2 DEF Places
  <2>4. waiting' \in Seq(Requests) /\ admitted' \in Seq(Requests) /\ failed' \in BOOLEAN
    BY <1>0, <1>1, KVUse
  <2> QED BY <1>0, <1>1, <1>5, <1>6, <1>7, <2>3, <2>4, KVUse, KVTypeNext
<1>12. KVQueues'
  <2>1. KVRound' = KVRound
    BY <1>1 DEF KVRound
  <2>2. admitted \in Seq(Requests) /\ waiting \in Seq(Requests)
    BY <1>0, KVUse
  <2>3. admitted' \o waiting' = admitted \o waiting
    BY <1>1, <2>2
  <2>4. ToSet(admitted') \cup ToSet(waiting') = ToSet(admitted) \cup ToSet(waiting)
    BY <1>1, <2>2, SetOfConcat, SetOfEmpty
  <2>5. \A r \in Requests : req'[r].status = req[r].status
    BY <1>5
  <2> QED BY <1>0, <1>1, <2>1, <2>3, <2>4, <2>5, KVQueuesSame
<1>13. KVIdle'
  <2>1. Requests' = Requests
    BY <1>1, KVFixed, Zenon
  <2>2. ASSUME NEW r \in Requests
        PROVE  /\ r \notin ToSet(running) => req'[r].table = << >> /\ req'[r].T = 0
               /\ req'[r].pending = << >>
               /\ Apart(req'[r].table) /\ Apart(req'[r].pending)
    <3>1. Apart(req[r].table)
      BY <1>0, Zenon DEF KVIdle
    <3>2. Apart(<< >>)
      BY DEF Apart
    <3> QED BY <1>5, <3>1, <3>2
  <2> QED BY <1>4, <2>1, <2>2, Zenon DEF KVIdle
<1>14. KVServed'
  <2>1. \A q : Prompt(q)' = Prompt(q)
    BY <1>1, KVFixed, Zenon
  <2>2. ASSUME NEW r \in ToSet(running)
        PROVE  /\ req'[r].generated > 0
               /\ req'[r].T = Prompt(r) + req'[r].generated - 1
               /\ Len(req'[r].table) = BlocksFor(req'[r].T)
               /\ \A i \in DOMAIN req'[r].table : pool'.fill[req'[r].table[i]] = Tokens(req'[r].T, i - 1)
    <3>1. r \in Requests
      BY <1>0, KVUse
    <3>2. /\ req[r].generated > 0
          /\ req[r].T = Prompt(r) + req[r].generated - 1
          /\ Len(req[r].table) = BlocksFor(req[r].T)
          /\ \A i \in DOMAIN req[r].table : pool.fill[req[r].table[i]] = Tokens(req[r].T, i - 1)
      BY <1>0 DEF KVServed
    <3>3. ASSUME NEW i \in DOMAIN req[r].table PROVE pool'.fill[req[r].table[i]] = pool.fill[req[r].table[i]]
      <4>1. req[r].table[i] \in ToSet(req[r].table) /\ req[r].table[i] \in Blocks
        <5>1. req[r].table \in Seq(Blocks)
          BY <1>0, <3>1, KVRequest
        <5> QED BY <5>1, Listed
      <4>2. r \in pool.holders[req[r].table[i]]
        BY <1>0, <1>4, <3>1, <4>1, KVBlock
      <4> QED BY <1>10, <4>1, <4>2
    <3> QED BY <1>5, <3>1, <3>2, <3>3
  <2> QED BY <1>1, <1>4, <2>1, <2>2 DEF KVServed
<1>15. KVAdmitted' /\ KVFeasible'
  BY <1>1, SetOfEmpty DEF KVAdmitted, KVFeasible
<1>16. KVPrefix'
  <2>1. Requests' = Requests /\ Blocks' = Blocks /\ \A r : Shared(r)' = Shared(r)
    BY <1>1, KVFixed, Zenon
  <2>2. ASSUME NEW i \in DOMAIN prefix PROVE pool'.fill[prefix[i]] = B
    <3>1. prefix[i] \in Blocks /\ prefix[i] \in ToSet(prefix)
      BY <1>0, KVUse, Listed
    <3>2. pool.holders[prefix[i]] # {}
      BY <1>0, <3>1, KVBlock
    <3>3. pool.fill[prefix[i]] = B
      BY <1>0 DEF KVPrefix
    <3> QED BY <1>10, <3>1, <3>2, <3>3
  <2>3. ASSUME NEW r \in Requests PROVE req'[r].table = req[r].table \/ req'[r].table = << >>
    BY <1>5
  <2>4. \A r \in Requests : \A i \in DOMAIN req'[r].table :
          \A j \in DOMAIN prefix : req'[r].table[i] = prefix[j] => i = j /\ Shared(r)
    BY <1>0, <2>3 DEF KVPrefix
  <2>5. \A r, q \in Requests : \A b \in Blocks :
          r # q /\ b \in ToSet(req'[r].table) /\ b \in ToSet(req'[q].table) => b \in ToSet(prefix)
    BY <1>0, <2>3, SetOfEmpty DEF KVPrefix
  <2>6. (prefix # << >> => Len(prefix) = SysBlocks) /\ Apart(prefix)
    BY <1>0 DEF KVPrefix
  <2> QED BY <1>1, <2>1, <2>2, <2>4, <2>5, <2>6 DEF KVPrefix
<1>17. Conserved'
  <2>1. ASSUME NEW b \in Blocks, NEW r \in Requests
        PROVE  pool'.resv[b] = r <=> b \in ToSet(req'[r].pending)
    <3>1. pool'.resv[b] = 0
      BY <1>7, <1>9
    <3> QED BY <1>0, <1>5, <3>1, KVUse, SetOfEmpty
  <2>2. pool'.free \in Seq(Blocks)
    BY <1>7, PoolFields
  <2> QED BY <1>1, <1>7, <2>1, <2>2, KVConservedNext
<1>18. Refcounts'
  <2>1. ASSUME NEW b \in Blocks
        PROVE  /\ pool'.holders[b] \subseteq Requests \cup {Index}
               /\ pool'.state[b] = "Committed" <=> pool'.holders[b] # {}
               /\ Index \in pool'.holders[b] <=> b \in ToSet(prefix')
               /\ \A r \in Requests : r \in pool'.holders[b] <=> Counted(r)' /\ b \in ToSet(req'[r].table)
    <3> DEFINE gone == {r \in ToSet(InPlan) : req[r].hit /\ b \in ToSet(prefix)}
    <3>1. /\ pool.holders[b] \subseteq Requests \cup {Index}
          /\ Index \in pool.holders[b] <=> b \in ToSet(prefix)
          /\ \A r \in Requests : r \in pool.holders[b] <=> b \in ToSet(req[r].table)
          /\ pool.state[b] = "Committed" <=> pool.holders[b] # {}
      BY <1>0, <1>4, KVBlock
    <3>2. /\ pool'.holders[b] = pool.holders[b] \ gone
          /\ pool'.state[b] = IF pool.resv[b] # 0 THEN "Free" ELSE pool.state[b]
      BY <1>7, <1>9
    <3>3. Index \notin gone /\ (b \notin ToSet(prefix) => gone = {})
      <4>1. Index \notin Requests
        BY <1>0, KVUse
      <4> QED BY <1>8, <4>1
    <3>4. pool.resv[b] # 0 => pool.holders[b] = {}
      BY <1>0, KVReserved
    <3>5. ASSUME NEW r \in Requests PROVE r \in gone <=> InBatch(r) /\ req[r].hit /\ b \in ToSet(prefix)
      BY <1>3
    <3> HIDE DEF gone
    <3>6. pool'.state[b] = "Committed" <=> pool'.holders[b] # {}
      BY <3>1, <3>2, <3>3, <3>4
    <3>7. ASSUME NEW r \in Requests PROVE r \in pool'.holders[b] <=> b \in ToSet(req'[r].table)
      <4>1. CASE r \in ToSet(running)
        <5>1. InBatch(r) /\ r \notin ToSet(admitted)
          BY <1>3, <4>1 DEF InBatch
        <5>2. r \notin gone /\ req'[r].table = req[r].table
          BY <1>5, <3>5, <4>1, <5>1
        <5> QED BY <3>1, <3>2, <5>2
      <4>2. CASE r \notin ToSet(running)
        <5>1. req'[r].table = << >> /\ b \notin ToSet(req'[r].table)
          BY <1>5, <4>2, SetOfEmpty
        <5>2. b \in ToSet(req[r].table) => r \in gone
          BY <1>5, <3>5, <4>2, SetOfEmpty
        <5> QED BY <3>1, <3>2, <5>1, <5>2
      <4> QED BY <4>1, <4>2
    <3> QED BY <1>1, <1>4, <3>1, <3>2, <3>3, <3>6, <3>7
  <2> QED BY <1>0, <1>1, <2>1, KVRefsNext
<1> QED BY <1>11, <1>12, <1>13, <1>14, <1>15, <1>16, <1>17, <1>18 DEF KVInv

\* What is kept of a list is in the order of the list.
LEMMA KeptRising ==
  ASSUME NEW S, NEW T, NEW s \in Seq(S), NEW arr \in [S -> Nat], Rising(s, arr)
  PROVE  Rising(Kept(s, T), arr)
<1> DEFINE k == Kept(s, T)
<1>1. k \in Seq(S) /\ \E h : KeptAt(s, k, T, h)
  BY KeptPlaces, Zenon
<1> HIDE DEF k
<1>2. PICK h : KeptAt(s, k, T, h)
  BY <1>1
<1>3. /\ h \in [1 .. Len(k) -> 1 .. Len(s)] /\ \A i, j \in 1 .. Len(k) : i < j => h[i] < h[j]
      /\ \A j \in 1 .. Len(k) : k[j] = s[h[j]]
  BY <1>2 DEF KeptAt
<1>4. ASSUME NEW i \in 1 .. Len(k), NEW j \in 1 .. Len(k), i < j PROVE arr[k[i]] <= arr[k[j]]
  <2>1. h[i] \in 1 .. Len(s) /\ h[j] \in 1 .. Len(s) /\ h[i] < h[j] /\ k[i] = s[h[i]] /\ k[j] = s[h[j]]
    BY <1>3, <1>4
  <2> QED BY <2>1 DEF Rising
<1> QED BY <1>4 DEF Rising, k

CanceledLive(l) == [Stripped(l, "Canceled") EXCEPT !.pending = << >>, !.s = 0, !.dq = 0]

\* A canceled request.
LEMMA LiveCanceled ==
  ASSUME NEW m \in Live
  PROVE  LET l == CanceledLive(m) IN
         /\ l.status = "Canceled" /\ l.generated = m.generated /\ l.T = 0 /\ l.table = << >>
         /\ l.pending = << >> /\ l \in Live
<1> DEFINE k == Stripped(m, "Canceled")
           l == CanceledLive(m)
<1>1. /\ k.status = "Canceled" /\ k.T = 0 /\ k.generated = m.generated /\ k.table = << >>
      /\ k.hit = m.hit /\ k \in Live
  BY LiveStripped
<1>2. l = [k EXCEPT !.pending = << >>, !.s = 0, !.dq = 0]
  BY DEF CanceledLive
<1> HIDE DEF k, l
<1>3. /\ l.status = k.status /\ l.T = k.T /\ l.generated = k.generated /\ l.table = k.table
      /\ l.pending = << >> /\ l.hit = k.hit /\ l.s = 0 /\ l.dq = 0
      /\ DOMAIN l = DOMAIN k /\ l = [f \in DOMAIN k |-> l[f]]
  BY <1>1, <1>2 DEF Live
<1>4. /\ k.status \in {"Future", "Waiting", "Running", "Finished", "Canceled"} /\ k.T \in Nat
      /\ k.generated \in Nat /\ k.table \in Seq(Blocks) /\ k.hit \in BOOLEAN
  BY <1>1, LiveFields
<1>5. 0 \in Nat /\ << >> \in Seq(Blocks)
  OBVIOUS
<1>6. /\ l.status \in {"Future", "Waiting", "Running", "Finished", "Canceled"} /\ l.T \in Nat
      /\ l.generated \in Nat /\ l.table \in Seq(Blocks) /\ l.pending \in Seq(Blocks)
      /\ l.hit \in BOOLEAN /\ l.s \in Nat /\ l.dq \in Nat
  BY <1>3, <1>4, <1>5, Zenon
<1>7. l \in Live
  BY <1>1, <1>3, <1>6, LiveIs, Zenon
<1> QED BY <1>1, <1>3, <1>7 DEF l

\* A canceled request gives back what it had pending, and lets go of what it
\* had.
LEMMA KVCancel == ASSUME KVInv, Cancel PROVE KVInv'
<1> DEFINE v == par.fault.at
<1>0. TypeOK /\ KVQueues /\ KVIdle /\ KVServed /\ KVAdmitted /\ KVPrefix /\ KVFeasible /\ Conserved /\ Refcounts
  BY DEF KVInv
<1>1. /\ pc = "execute" /\ pc' = "commit" /\ v \in ToSet(admitted)
      /\ par' = par /\ it' = it /\ waiting' = waiting /\ running' = running
      /\ admitted' = Kept(admitted, Requests \ {v}) /\ prefix' = prefix /\ failed' = failed
      /\ pool' = Returned(<<v>>)
      /\ req' = [req EXCEPT ![v] = CanceledLive(@)]
  BY Zenon DEF Cancel, Cancels, CanceledLive
<1> HIDE DEF v
<1>2. v \in Requests /\ v # 0 /\ v # Index /\ admitted \in Seq(Requests) /\ waiting \in Seq(Requests)
      /\ ToSet(admitted) \subseteq Requests
  BY <1>0, <1>1, KVUse
<1>3. /\ ToSet(running) \cap ToSet(admitted) = {}
      /\ Apart(running) /\ Apart(admitted) /\ Apart(waiting)
      /\ ToSet(admitted) \cap ToSet(waiting) = {}
  BY <1>0, KVPlan
<1>4. /\ admitted' \in Seq(Requests) /\ ToSet(admitted') = ToSet(admitted) \ {v} /\ Apart(admitted')
      /\ Apart(admitted' \o waiting) /\ Rising(admitted' \o waiting, Arrival)
  <2> DEFINE T == Requests \ {v}
             k == Kept(admitted, T)
  <2>1. k \in Seq(Requests) /\ ToSet(k) = ToSet(admitted) \cap T /\ Apart(k)
    BY <1>2, <1>3, KeptPlaces, KeptSet, KeptApart
  <2>2. Arrival \in [Requests -> Nat] /\ Rising(admitted \o waiting, Arrival)
    BY <1>0, KVUse DEF KVQueues
  <2>3. Rising(admitted, Arrival) /\ Rising(waiting, Arrival)
        /\ \A x \in ToSet(admitted), y \in ToSet(waiting) : Arrival[x] <= Arrival[y]
    <3> DEFINE R == Requests
               arr == Arrival
    <3>1. arr \in [R -> Nat] /\ Rising(admitted \o waiting, arr) /\ admitted \in Seq(R) /\ waiting \in Seq(R)
      BY <1>2, <2>2
    <3> HIDE DEF R, arr
    <3>2. /\ Rising(admitted, arr) /\ Rising(waiting, arr)
          /\ \A x \in ToSet(admitted), y \in ToSet(waiting) : arr[x] <= arr[y]
      BY <3>1, RisingConcat
    <3> QED BY <3>2 DEF R, arr
  <2>4. Rising(k, Arrival)
    <3> DEFINE R == Requests
               arr == Arrival
    <3>1. arr \in [R -> Nat] /\ Rising(admitted, arr) /\ admitted \in Seq(R)
      BY <1>2, <2>2, <2>3
    <3> HIDE DEF R, arr, T, k
    <3>2. Rising(Kept(admitted, T), arr)
      BY <3>1, KeptRising
    <3> QED BY <3>2 DEF arr, k
  <2>5. ToSet(k) = ToSet(admitted) \ {v}
    BY <1>2, <2>1
  <2>6. k = admitted'
    BY <1>1
  <2> HIDE DEF k, T
  <2>7. Apart(k \o waiting)
    BY <1>2, <1>3, <2>1, <2>5, ApartConcat
  <2>8. Rising(k \o waiting, Arrival)
    <3> DEFINE R == Requests
               arr == Arrival
    <3>1. /\ arr \in [R -> Nat] /\ Rising(k, arr) /\ Rising(waiting, arr) /\ k \in Seq(R) /\ waiting \in Seq(R)
          /\ \A x \in ToSet(k), y \in ToSet(waiting) : arr[x] <= arr[y]
      BY <1>2, <2>1, <2>2, <2>3, <2>4, <2>5
    <3> HIDE DEF R, arr
    <3>2. Rising(k \o waiting, arr)
      BY <3>1, RisingConcat
    <3> QED BY <3>2 DEF arr
  <2> QED BY <2>1, <2>5, <2>6, <2>7, <2>8
<1>5. /\ \A r : Counted(r)' /\ Counted(r)
      /\ \A r : InBatch(r)' <=> InBatch(r) /\ r # v
      /\ Reserving /\ Reserving' /\ Planning /\ Planning' /\ InBatch(v)
  BY <1>1, <1>3, <1>4 DEF Counted, InBatch, Reserving, Planning
<1>6. ASSUME NEW r \in Requests
      PROVE  /\ r = v => /\ req'[r].status = "Canceled" /\ req'[r].T = 0
                         /\ req'[r].table = << >> /\ req'[r].pending = << >>
             /\ r # v => req'[r] = req[r]
             /\ req'[r] \in Live
  <2>1. req[r] \in Live /\ req \in [Requests -> Live]
    BY <1>0, KVUse, KVRequest
  <2>2. CASE r = v
    <3>1. req'[r] = CanceledLive(req[r])
      BY <1>1, <1>2, <2>1, <2>2
    <3> QED BY <2>1, <2>2, <3>1, LiveCanceled
  <2>3. CASE r # v
    <3>1. req'[r] = req[r]
      BY <1>1, <2>1, <2>3
    <3> QED BY <2>1, <2>3, <3>1
  <2> QED BY <2>2, <2>3
<1>7. req' = [r \in Requests |-> req'[r]]
  <2>1. DOMAIN req' = DOMAIN req /\ DOMAIN req = Requests /\ req' = [q \in DOMAIN req' |-> req'[q]]
    BY <1>0, <1>1, KVUse
  <2> QED BY <2>1
<1>8. /\ pool' \in Pool
      /\ \A b \in Blocks :
           /\ pool'.holders[b] = pool.holders[b] \ {r \in {v} : req[r].hit /\ b \in ToSet(prefix)}
           /\ pool'.state[b] = IF pool.resv[b] = v THEN "Free" ELSE pool.state[b]
           /\ pool'.resv[b] = IF pool.resv[b] = v THEN 0 ELSE pool.resv[b]
           /\ pool.resv[b] # v => pool'.fill[b] = pool.fill[b]
           /\ pool'.state[b] = "Reserved" <=> pool'.resv[b] # 0
      /\ ToSet(pool'.free) = {b \in Blocks : pool'.state[b] = "Free"} /\ Apart(pool'.free)
  <2>1. \A r \in Requests : Apart(req[r].pending)
    BY <1>0 DEF KVIdle
  <2> DEFINE rs == <<v>>
             p == Returned(rs)
  <2>2. rs \in Seq(Requests) /\ Apart(rs) /\ ToSet(rs) = {v}
    <3>1. rs \in Seq(Requests) /\ Apart(rs)
      BY <1>2 DEF Apart
    <3>2. ToSet(rs) = {v}
      BY SetOfOne, Zenon
    <3> QED BY <3>1, <3>2
  <2> HIDE DEF rs
  <2>3. /\ p \in Pool
        /\ \A b \in Blocks :
           /\ p.holders[b] = pool.holders[b] \ {r \in ToSet(rs) : req[r].hit /\ b \in ToSet(prefix)}
           /\ p.state[b] = IF pool.resv[b] \in ToSet(rs) THEN "Free" ELSE pool.state[b]
           /\ p.resv[b] = IF pool.resv[b] \in ToSet(rs) THEN 0 ELSE pool.resv[b]
           /\ pool.resv[b] \notin ToSet(rs) => p.fill[b] = pool.fill[b]
           /\ p.state[b] = "Reserved" <=> p.resv[b] # 0
        /\ ToSet(p.free) = {b \in Blocks : p.state[b] = "Free"} /\ Apart(p.free)
    BY <1>0, <2>1, <2>2, KVReturn
  <2> HIDE DEF p
  <2>4. pool' = p
    BY <1>1 DEF p, rs
  <2> QED BY <2>2, <2>3, <2>4
<1>9. \A b \in Blocks : pool.holders[b] # {} => pool'.fill[b] = pool.fill[b]
  BY <1>0, <1>2, <1>8, KVReserved
<1>10. ASSUME NEW r \in Requests, NEW i \in DOMAIN req[r].table
       PROVE  pool'.fill[req[r].table[i]] = pool.fill[req[r].table[i]]
  <2>1. req[r].table[i] \in ToSet(req[r].table) /\ req[r].table[i] \in Blocks
    <3>1. req[r].table \in Seq(Blocks)
      BY <1>0, KVRequest
    <3> QED BY <3>1, Listed
  <2>2. r \in pool.holders[req[r].table[i]]
    BY <1>0, <1>5, <2>1, KVBlock
  <2> QED BY <1>9, <2>1, <2>2
<1>11. TypeOK'
  <2>1. it \in 1 .. MaxIter + 1 /\ it \in Nat /\ MaxIter \in Nat
    BY <1>0, KVUse, Zenon DEF TypeOK
  <2>2. 1 <= it /\ it <= MaxIter + 1 /\ pc' \in Places
    BY <1>1, <2>1 DEF Places
  <2> QED BY <1>0, <1>1, <1>4, <1>6, <1>7, <1>8, <2>1, <2>2, KVUse, KVTypeNext
<1>12. KVQueues'
  <2>1. ASSUME NEW r \in Requests
        PROVE  /\ req'[r].status = "Waiting" <=> r \in ToSet(admitted') \cup ToSet(waiting)
               /\ req'[r].status = "Running" <=> r \in ToSet(running)
               /\ req'[r].status = "Future"  <=> Arrival[r] >= KVRound
    <3>1. /\ req[r].status = "Waiting" <=> r \in ToSet(admitted) \cup ToSet(waiting)
          /\ req[r].status = "Running" <=> r \in ToSet(running)
          /\ req[r].status = "Future"  <=> Arrival[r] >= KVRound
      BY <1>0 DEF KVQueues
    <3>2. CASE r # v
      BY <1>4, <1>6, <3>1, <3>2
    <3>3. CASE r = v
      <4>1. r \notin ToSet(running) /\ r \notin ToSet(waiting) /\ r \in ToSet(admitted) /\ r \notin ToSet(admitted')
        BY <1>1, <1>3, <1>4, <3>3
      <4>2. req[r].status = "Waiting" /\ req'[r].status = "Canceled"
        BY <1>6, <3>1, <3>3, <4>1
      <4> QED BY <3>1, <4>1, <4>2
    <3> QED BY <3>2, <3>3
  <2>2. KVRound' = KVRound
    BY <1>1 DEF KVRound
  <2>3. Requests' = Requests /\ Arrival' = Arrival
    BY <1>1, KVFixed, Zenon
  <2>4. pc' # "arrive" => it' <= MaxIter
    BY <1>0, <1>1 DEF KVQueues
  <2> QED BY <1>1, <1>3, <1>4, <2>1, <2>2, <2>3, <2>4 DEF KVQueues
<1>13. KVIdle'
  <2>1. Requests' = Requests
    BY <1>1, KVFixed, Zenon
  <2>2. ASSUME NEW r \in Requests
        PROVE  /\ ~(InBatch(r) /\ r # v) => req'[r].table = << >> /\ req'[r].T = 0
               /\ IF InBatch(r) /\ r # v THEN Len(req'[r].pending) = req'[r].dq ELSE req'[r].pending = << >>
               /\ Apart(req'[r].table) /\ Apart(req'[r].pending)
    <3>1. /\ ~InBatch(r) => req[r].table = << >> /\ req[r].T = 0
          /\ IF InBatch(r) THEN Len(req[r].pending) = req[r].dq ELSE req[r].pending = << >>
          /\ Apart(req[r].table) /\ Apart(req[r].pending)
      BY <1>0, <1>5, Zenon DEF KVIdle
    <3>2. Apart(<< >>)
      BY DEF Apart
    <3> QED BY <1>6, <3>1, <3>2
  <2> QED BY <1>5, <2>1, <2>2, Zenon DEF KVIdle
<1>14. KVServed' /\ KVAdmitted' /\ KVFeasible'
  <2>1. \A q : Prompt(q)' = Prompt(q) /\ Shared(q)' = Shared(q)
    BY <1>1, KVFixed, Zenon
  <2>2. \A q \in Requests : q # v => DecodeDq(q)' = DecodeDq(q)
    BY <1>6 DEF DecodeDq
  <2>3. ToSet(running) \subseteq Requests /\ v \notin ToSet(running)
    BY <1>0, <1>1, <1>3, KVUse
  <2>4. KVServed'
    <3>1. ASSUME NEW r \in ToSet(running)
          PROVE  /\ req'[r].generated > 0
                 /\ req'[r].T = Prompt(r) + req'[r].generated - 1
                 /\ Len(req'[r].table) = BlocksFor(req'[r].T)
                 /\ ~req'[r].hit
                 /\ req'[r].s = 1 /\ req'[r].dq = DecodeDq(r)'
                 /\ \A i \in DOMAIN req'[r].table : pool'.fill[req'[r].table[i]] = Tokens(req'[r].T, i - 1)
      <4>1. r \in Requests /\ r # v
        BY <2>3
      <4>2. /\ req[r].generated > 0
            /\ req[r].T = Prompt(r) + req[r].generated - 1
            /\ Len(req[r].table) = BlocksFor(req[r].T)
            /\ ~req[r].hit
            /\ req[r].s = 1 /\ req[r].dq = DecodeDq(r)
            /\ \A i \in DOMAIN req[r].table : pool.fill[req[r].table[i]] = Tokens(req[r].T, i - 1)
        BY <1>0, <1>1, <1>5 DEF KVServed
      <4> QED BY <1>6, <1>10, <2>2, <4>1, <4>2
    <3> QED BY <1>1, <2>1, <3>1, Zenon DEF KVServed
  <2>5. KVAdmitted'
    <3>1. ASSUME NEW r \in ToSet(admitted')
          PROVE  /\ req'[r].T + req'[r].s = Prompt(r) + req'[r].generated
                 /\ req'[r].dq = BlocksFor(Prompt(r) + req'[r].generated) - BlocksFor(req'[r].T)
                 /\ IF req'[r].hit THEN Shared(r) /\ prefix # << >> /\ req'[r].T = Sys /\ req'[r].table = prefix
                                   ELSE req'[r].T = 0 /\ req'[r].table = << >>
      <4>1. r \in Requests /\ r # v /\ r \in ToSet(admitted)
        BY <1>2, <1>4, <3>1
      <4> QED BY <1>0, <1>6, <4>1 DEF KVAdmitted
    <3> QED BY <1>1, <2>1, <3>1, Zenon DEF KVAdmitted
  <2>6. KVFeasible'
    BY <1>1 DEF KVFeasible
  <2> QED BY <2>4, <2>5, <2>6
<1>16. KVPrefix'
  <2>1. Requests' = Requests /\ Blocks' = Blocks /\ \A r : Shared(r)' = Shared(r)
    BY <1>1, KVFixed, ZenonT(40)
  <2>2. ASSUME NEW i \in DOMAIN prefix PROVE pool'.fill[prefix[i]] = B
    <3>1. prefix[i] \in Blocks /\ prefix[i] \in ToSet(prefix)
      BY <1>0, KVUse, Listed
    <3>2. pool.holders[prefix[i]] # {}
      BY <1>0, <3>1, KVBlock
    <3>3. pool.fill[prefix[i]] = B
      BY <1>0 DEF KVPrefix
    <3> QED BY <1>9, <3>1, <3>2, <3>3
  <2>3. ASSUME NEW r \in Requests PROVE req'[r].table = req[r].table \/ req'[r].table = << >>
    BY <1>6
  <2>4. \A r \in Requests : \A i \in DOMAIN req'[r].table :
          \A j \in DOMAIN prefix : req'[r].table[i] = prefix[j] => i = j /\ Shared(r)
    BY <1>0, <2>3 DEF KVPrefix
  <2>5. \A r, q \in Requests : \A b \in Blocks :
          r # q /\ b \in ToSet(req'[r].table) /\ b \in ToSet(req'[q].table) => b \in ToSet(prefix)
    BY <1>0, <2>3, SetOfEmpty DEF KVPrefix
  <2>6. (prefix # << >> => Len(prefix) = SysBlocks) /\ Apart(prefix)
    BY <1>0 DEF KVPrefix
  <2> QED BY <1>1, <2>1, <2>2, <2>4, <2>5, <2>6 DEF KVPrefix
<1>17. Conserved'
  <2>1. ASSUME NEW b \in Blocks, NEW r \in Requests
        PROVE  pool'.resv[b] = r <=> b \in ToSet(req'[r].pending)
    <3>1. pool'.resv[b] = IF pool.resv[b] = v THEN 0 ELSE pool.resv[b]
      BY <1>8
    <3>2. pool.resv[b] = r <=> b \in ToSet(req[r].pending)
      BY <1>0, KVBlock
    <3>3. r # 0
      BY <1>0, KVUse
    <3>4. CASE r = v
      BY <1>6, <3>1, <3>3, <3>4, SetOfEmpty
    <3>5. CASE r # v
      BY <1>6, <3>1, <3>2, <3>3, <3>5
    <3> QED BY <3>4, <3>5
  <2>2. pool'.free \in Seq(Blocks)
    BY <1>8, PoolFields
  <2> QED BY <1>1, <1>8, <2>1, <2>2, KVConservedNext
<1>18. Refcounts'
  <2>1. ASSUME NEW b \in Blocks
        PROVE  /\ pool'.holders[b] \subseteq Requests \cup {Index}
               /\ pool'.state[b] = "Committed" <=> pool'.holders[b] # {}
               /\ Index \in pool'.holders[b] <=> b \in ToSet(prefix')
               /\ \A r \in Requests : r \in pool'.holders[b] <=> Counted(r)' /\ b \in ToSet(req'[r].table)
    <3> DEFINE gone == {r \in {v} : req[r].hit /\ b \in ToSet(prefix)}
    <3>1. /\ pool.holders[b] \subseteq Requests \cup {Index}
          /\ Index \in pool.holders[b] <=> b \in ToSet(prefix)
          /\ \A r \in Requests : r \in pool.holders[b] <=> b \in ToSet(req[r].table)
          /\ pool.state[b] = "Committed" <=> pool.holders[b] # {}
      BY <1>0, <1>5, KVBlock
    <3>2. /\ pool'.holders[b] = pool.holders[b] \ gone
          /\ pool'.state[b] = IF pool.resv[b] = v THEN "Free" ELSE pool.state[b]
      BY <1>8
    <3>3. Index \notin gone /\ (b \notin ToSet(prefix) => gone = {})
      BY <1>2
    <3>4. pool.resv[b] = v => pool.holders[b] = {}
      BY <1>0, <1>2, KVReserved
    <3>5. ASSUME NEW r \in Requests PROVE r \in gone <=> r = v /\ req[v].hit /\ b \in ToSet(prefix)
      OBVIOUS
    <3> HIDE DEF gone
    <3>6. pool'.state[b] = "Committed" <=> pool'.holders[b] # {}
      BY <3>1, <3>2, <3>3, <3>4
    <3>7. ASSUME NEW r \in Requests PROVE r \in pool'.holders[b] <=> b \in ToSet(req'[r].table)
      <4>1. CASE r # v
        BY <1>6, <3>1, <3>2, <3>5, <4>1
      <4>2. CASE r = v
        <5>1. b \notin ToSet(req'[r].table)
          BY <1>6, <4>2, SetOfEmpty
        <5>2. IF req[v].hit THEN req[v].table = prefix ELSE req[v].table = << >>
          BY <1>0, <1>1 DEF KVAdmitted
        <5>3. b \in ToSet(req[r].table) => r \in gone
          BY <3>5, <4>2, <5>2, SetOfEmpty
        <5> QED BY <3>1, <3>2, <5>1, <5>3
      <4> QED BY <4>1, <4>2
    <3> QED BY <1>1, <1>5, <3>1, <3>2, <3>3, <3>6, <3>7
  <2> QED BY <1>0, <1>1, <2>1, KVRefsNext
<1> QED BY <1>11, <1>12, <1>13, <1>14, <1>16, <1>17, <1>18 DEF KVInv

KVDone == Kept(running, {r \in Requests : Finished(r)})

\* Requests that are finished let go of their blocks.
LEMMA KVRelease == ASSUME KVInv, Release PROVE KVInv'
<1> DEFINE done == KVDone
           gone(r) == r \in ToSet(done)
<1>0. TypeOK /\ KVQueues /\ KVIdle /\ KVServed /\ KVAdmitted /\ KVPrefix /\ KVFeasible /\ Conserved /\ Refcounts
  BY DEF KVInv
<1>1. /\ pc = "release" /\ pc' = "arrive" /\ it' = it + 1
      /\ par' = par /\ waiting' = waiting /\ running' = Kept(running, {r \in Requests : ~Finished(r)})
      /\ admitted' = admitted /\ prefix' = prefix /\ failed' = failed
      /\ pool' = Dropped(done)
  BY Zenon DEF Release, KVDone
<1>2. req' = [r \in Requests |-> IF r \in ToSet(done) THEN Stripped(req[r], "Finished") ELSE req[r]]
  BY Zenon DEF Release, KVDone
<1>3. running \in Seq(Requests) /\ ToSet(running) \subseteq Requests /\ Apart(running)
  BY <1>0, KVUse DEF KVQueues
<1>4. /\ done \in Seq(Requests) /\ Apart(done) /\ ToSet(done) \subseteq ToSet(running)
      /\ \A r \in Requests : gone(r) <=> r \in ToSet(running) /\ Finished(r)
  <2> DEFINE T == {r \in Requests : Finished(r)}
  <2>1. done = Kept(running, T)
    BY DEF KVDone
  <2>2. Kept(running, T) \in Seq(Requests) /\ ToSet(Kept(running, T)) = ToSet(running) \cap T /\ Apart(Kept(running, T))
    <3> HIDE DEF T
    <3> QED BY <1>3, KeptPlaces, KeptSet, KeptApart
  <2> HIDE DEF done
  <2> QED BY <2>1, <2>2
<1>5. /\ running' \in Seq(Requests) /\ Apart(running') /\ ToSet(running') \subseteq ToSet(running)
      /\ \A r \in Requests : r \in ToSet(running') <=> r \in ToSet(running) /\ ~gone(r)
  <2> DEFINE T == {r \in Requests : ~Finished(r)}
  <2>1. running' = Kept(running, T)
    BY <1>1
  <2>2. Kept(running, T) \in Seq(Requests) /\ ToSet(Kept(running, T)) = ToSet(running) \cap T /\ Apart(Kept(running, T))
    <3> HIDE DEF T
    <3> QED BY <1>3, KeptPlaces, KeptSet, KeptApart
  <2> QED BY <1>4, <2>1, <2>2
<1> HIDE DEF done
<1>6. /\ admitted = << >> /\ ToSet(admitted) = {} /\ ToSet(admitted') = {} /\ admitted' = << >>
      /\ \A r : Counted(r) /\ Counted(r)'
      /\ \A r : InBatch(r) <=> r \in ToSet(running)
      /\ \A r : InBatch(r)' <=> r \in ToSet(running')
      /\ ~Reserving /\ ~Reserving' /\ ~Planning'
  <2>1. admitted = << >>
    BY <1>0, <1>1 DEF KVQueues
  <2> QED BY <1>1, <2>1, SetOfEmpty DEF Counted, InBatch, Reserving, Planning
<1>7. ASSUME NEW r \in Requests
      PROVE  /\ req'[r].status = (IF gone(r) THEN "Finished" ELSE req[r].status)
             /\ req'[r].generated = req[r].generated
             /\ req'[r].T = (IF gone(r) THEN 0 ELSE req[r].T)
             /\ req'[r].table = (IF gone(r) THEN << >> ELSE req[r].table)
             /\ req'[r].pending = req[r].pending
             /\ req'[r] \in Live
  <2>1. req[r] \in Live
    BY <1>0, KVRequest
  <2>2. req'[r] = IF gone(r) THEN Stripped(req[r], "Finished") ELSE req[r]
    BY <1>2
  <2> HIDE DEF gone
  <2> QED BY <2>1, <2>2, LiveStripped
<1>8. req' = [r \in Requests |-> req'[r]]
  BY <1>2
<1>9. /\ pool' \in Pool
      /\ \A b \in Blocks :
           /\ pool'.holders[b] = pool.holders[b] \ ToSet(done)
           /\ pool'.holders[b] # {} => pool'.fill[b] = pool.fill[b]
           /\ pool'.resv[b] = pool.resv[b]
           /\ pool'.state[b] = "Reserved" <=> pool'.resv[b] # 0
           /\ pool'.state[b] = "Committed" <=> pool'.holders[b] # {}
      /\ ToSet(pool'.free) = {b \in Blocks : pool'.state[b] = "Free"} /\ Apart(pool'.free)
  <2> DEFINE H == Requests \cup {Index}
             p == Dropped(done)
             left(b) == pool.holders[b] # {} /\ pool.holders[b] \subseteq ToSet(done)
  <2>1. done \in Seq(H) /\ \A h \in ToSet(done) : h # Index => Counted(h)
    <3>1. Requests \subseteq H
      OBVIOUS
    <3> HIDE DEF H
    <3> QED BY <1>4, <1>6, <3>1
  <2>2. Apart(prefix) /\ \A r \in Requests : Apart(req[r].table)
    BY <1>0 DEF KVPrefix, KVIdle
  <2>3. /\ p \in Pool
        /\ \A b \in Blocks :
              /\ p.holders[b] = pool.holders[b] \ ToSet(done)
              /\ p.resv[b] = pool.resv[b]
              /\ ~left(b) => p.fill[b] = pool.fill[b]
              /\ p.state[b] = "Reserved" <=> p.resv[b] # 0
              /\ p.state[b] = "Committed" <=> p.holders[b] # {}
        /\ ToSet(p.free) = {b \in Blocks : p.state[b] = "Free"} /\ Apart(p.free)
    BY <1>0, <1>4, <2>1, <2>2, KVDrop
  <2>4. \A b \in Blocks : left(b) => pool.holders[b] \ ToSet(done) = {}
    OBVIOUS
  <2>5. pool' = p
    BY <1>1
  <2> HIDE DEF p, left
  <2> QED BY <2>3, <2>4, <2>5
<1>10. TypeOK'
  <2>1. it \in 1 .. MaxIter + 1 /\ it \in Nat /\ MaxIter \in Nat
    BY <1>0, KVUse, Zenon DEF TypeOK
  <2>2. it <= MaxIter
    BY <1>0, <1>1 DEF KVQueues
  <2>3. it' \in Nat /\ 1 <= it' /\ it' <= MaxIter + 1 /\ pc' \in Places
    BY <1>1, <2>1, <2>2 DEF Places
  <2> QED BY <1>0, <1>1, <1>5, <1>7, <1>8, <1>9, <2>3, KVUse, KVTypeNext
<1>11. KVQueues'
  <2>1. ASSUME NEW r \in Requests
        PROVE  /\ req'[r].status = "Waiting" <=> r \in ToSet(admitted') \cup ToSet(waiting')
               /\ req'[r].status = "Running" <=> r \in ToSet(running')
               /\ req'[r].status = "Future"  <=> Arrival[r] >= KVRound
    <3>1. /\ req[r].status = "Waiting" <=> r \in ToSet(admitted) \cup ToSet(waiting)
          /\ req[r].status = "Running" <=> r \in ToSet(running)
          /\ req[r].status = "Future"  <=> Arrival[r] >= KVRound
      BY <1>0 DEF KVQueues
    <3>2. gone(r) => r \in ToSet(running) /\ req'[r].status = "Finished"
      BY <1>4, <1>7
    <3>3. ~gone(r) => req'[r].status = req[r].status
      BY <1>7
    <3> HIDE DEF gone
    <3> QED BY <1>1, <1>5, <1>6, <3>1, <3>2, <3>3
  <2>2. KVRound' = KVRound
    BY <1>1 DEF KVRound
  <2>3. Requests' = Requests /\ Arrival' = Arrival
    BY <1>1, KVFixed, Zenon
  <2>4. Apart(admitted' \o waiting') /\ Rising(admitted' \o waiting', Arrival)
    BY <1>0, <1>1 DEF KVQueues
  <2> QED BY <1>1, <1>5, <1>6, <2>1, <2>2, <2>3, <2>4 DEF KVQueues
<1>12. KVIdle'
  <2>1. Requests' = Requests
    BY <1>1, KVFixed, Zenon
  <2>2. ASSUME NEW r \in Requests
        PROVE  /\ r \notin ToSet(running') => req'[r].table = << >> /\ req'[r].T = 0
               /\ req'[r].pending = << >>
               /\ Apart(req'[r].table) /\ Apart(req'[r].pending)
    <3>1. /\ r \notin ToSet(running) => req[r].table = << >> /\ req[r].T = 0
          /\ req[r].pending = << >>
          /\ Apart(req[r].table) /\ Apart(req[r].pending)
      BY <1>0, <1>6, Zenon DEF KVIdle
    <3>2. Apart(<< >>)
      BY DEF Apart
    <3>3. r \in ToSet(running') <=> r \in ToSet(running) /\ ~gone(r)
      BY <1>5
    <3> HIDE DEF gone
    <3> QED BY <1>7, <3>1, <3>2, <3>3
  <2> QED BY <1>6, <2>1, <2>2, Zenon DEF KVIdle
<1>13. KVServed'
  <2>2. \A r : Prompt(r)' = Prompt(r)
    BY <1>1, KVFixed, Zenon
  <2>3. ASSUME NEW r \in ToSet(running')
        PROVE  /\ req'[r].generated > 0
               /\ req'[r].T = Prompt(r) + req'[r].generated - 1
               /\ Len(req'[r].table) = BlocksFor(req'[r].T)
               /\ \A i \in DOMAIN req'[r].table : pool'.fill[req'[r].table[i]] = Tokens(req'[r].T, i - 1)
    <3>1. r \in Requests /\ r \in ToSet(running) /\ ~gone(r)
      BY <1>3, <1>5, <2>3
    <3>2. /\ req[r].generated > 0
          /\ req[r].T = Prompt(r) + req[r].generated - 1
          /\ Len(req[r].table) = BlocksFor(req[r].T)
          /\ \A i \in DOMAIN req[r].table : pool.fill[req[r].table[i]] = Tokens(req[r].T, i - 1)
      BY <1>0, <3>1 DEF KVServed
    <3>3. ASSUME NEW i \in DOMAIN req[r].table PROVE pool'.fill[req[r].table[i]] = pool.fill[req[r].table[i]]
      <4>1. req[r].table[i] \in ToSet(req[r].table) /\ req[r].table[i] \in Blocks
        <5>1. req[r].table \in Seq(Blocks)
          BY <1>0, <3>1, KVRequest
        <5> QED BY <5>1, Listed
      <4>2. r \in pool.holders[req[r].table[i]]
        BY <1>0, <1>6, <3>1, <4>1, KVBlock
      <4>3. r \in pool'.holders[req[r].table[i]]
        BY <1>9, <3>1, <4>1, <4>2
      <4> QED BY <1>9, <4>1, <4>3
    <3>4. req'[r].generated = req[r].generated /\ req'[r].T = req[r].T /\ req'[r].table = req[r].table
      BY <1>7, <3>1
    <3> QED BY <3>2, <3>3, <3>4
  <2> QED BY <1>1, <1>6, <2>2, <2>3 DEF KVServed
<1>14. KVAdmitted' /\ KVFeasible'
  BY <1>1, <1>6 DEF KVAdmitted, KVFeasible
<1>15. KVPrefix'
  <2>1. Requests' = Requests /\ Blocks' = Blocks /\ \A r : Shared(r)' = Shared(r)
    BY <1>1, KVFixed, Zenon
  <2>2. ASSUME NEW i \in DOMAIN prefix PROVE pool'.fill[prefix[i]] = B
    <3>1. prefix[i] \in Blocks /\ prefix[i] \in ToSet(prefix)
      BY <1>0, KVUse, Listed
    <3>2. Index \in pool.holders[prefix[i]] /\ Index \notin ToSet(done)
      BY <1>0, <1>3, <1>4, <3>1, KVBlock, KVUse
    <3>3. pool.fill[prefix[i]] = B
      BY <1>0 DEF KVPrefix
    <3>4. pool'.holders[prefix[i]] # {}
      BY <1>9, <3>1, <3>2
    <3> QED BY <1>9, <3>1, <3>3, <3>4
  <2>3. ASSUME NEW r \in Requests PROVE req'[r].table = req[r].table \/ req'[r].table = << >>
    BY <1>7
  <2>4. \A r \in Requests : \A i \in DOMAIN req'[r].table :
          \A j \in DOMAIN prefix : req'[r].table[i] = prefix[j] => i = j /\ Shared(r)
    BY <1>0, <2>3 DEF KVPrefix
  <2>5. \A r, q \in Requests : \A b \in Blocks :
          r # q /\ b \in ToSet(req'[r].table) /\ b \in ToSet(req'[q].table) => b \in ToSet(prefix)
    BY <1>0, <2>3, SetOfEmpty DEF KVPrefix
  <2>6. (prefix # << >> => Len(prefix) = SysBlocks) /\ Apart(prefix)
    BY <1>0 DEF KVPrefix
  <2> QED BY <1>1, <2>1, <2>2, <2>4, <2>5, <2>6 DEF KVPrefix
<1>16. Conserved'
  <2>1. \A b \in Blocks : \A r \in Requests : pool'.resv[b] = r <=> b \in ToSet(req'[r].pending)
    BY <1>0, <1>7, <1>9 DEF Conserved
  <2>2. pool'.free \in Seq(Blocks)
    BY <1>9, PoolFields
  <2> QED BY <1>1, <1>9, <2>1, <2>2, KVConservedNext
<1>17. Refcounts'
  <2>1. ASSUME NEW b \in Blocks
        PROVE  /\ pool'.holders[b] \subseteq Requests \cup {Index}
               /\ pool'.state[b] = "Committed" <=> pool'.holders[b] # {}
               /\ Index \in pool'.holders[b] <=> b \in ToSet(prefix')
               /\ \A r \in Requests : r \in pool'.holders[b] <=> Counted(r)' /\ b \in ToSet(req'[r].table)
    <3>1. /\ pool.holders[b] \subseteq Requests \cup {Index}
          /\ Index \in pool.holders[b] <=> b \in ToSet(prefix)
          /\ \A r \in Requests : r \in pool.holders[b] <=> Counted(r) /\ b \in ToSet(req[r].table)
      BY <1>0, KVBlock
    <3>2. pool'.holders[b] = pool.holders[b] \ ToSet(done) /\ Index \notin ToSet(done)
          /\ (pool'.state[b] = "Committed" <=> pool'.holders[b] # {})
      BY <1>0, <1>3, <1>4, <1>9, KVUse
    <3>3. ASSUME NEW r \in Requests
          PROVE  b \in ToSet(req'[r].table) <=> b \in ToSet(req[r].table) /\ ~gone(r)
      BY <1>7, SetOfEmpty
    <3> QED BY <1>1, <1>6, <3>1, <3>2, <3>3
  <2> QED BY <1>0, <1>1, <2>1, KVRefsNext
<1> QED BY <1>10, <1>11, <1>12, <1>13, <1>14, <1>15, <1>16, <1>17 DEF KVInv

----------------------------------------------------------------------------
(* The plan is committed.                                                  *)

\* A committed request; one just admitted runs from now on.
RunningLive(l) == [Committed(l) EXCEPT !.status = "Running"]

\* A request after its iteration.
LEMMA LiveCommitted ==
  ASSUME NEW m \in Live
  PROVE  LET l == Committed(m) IN
         /\ l.status = m.status /\ l.generated = m.generated + 1 /\ l.T = m.T + m.s
         /\ l.table = m.table \o m.pending /\ l.pending = << >>
         /\ RunningLive(m).status = "Running" /\ RunningLive(m).generated = l.generated
         /\ RunningLive(m).T = l.T /\ RunningLive(m).table = l.table /\ RunningLive(m).pending = << >>
         /\ l \in Live /\ RunningLive(m) \in Live
<1> DEFINE l == Committed(m)
           k == RunningLive(m)
           x == m.table \o m.pending
           y == m.generated + 1
           z == m.T + m.s
<1>1. /\ m.status \in {"Future", "Waiting", "Running", "Finished", "Canceled"} /\ m.T \in Nat
      /\ m.generated \in Nat /\ m.table \in Seq(Blocks) /\ m.pending \in Seq(Blocks)
      /\ m.hit \in BOOLEAN /\ m.s \in Nat /\ m.dq \in Nat
  BY LiveFields
<1>2. x \in Seq(Blocks) /\ y \in Nat /\ z \in Nat /\ << >> \in Seq(Blocks)
      /\ "Running" \in {"Future", "Waiting", "Running", "Finished", "Canceled"}
  BY <1>1
<1>3. l = [m EXCEPT !.table = x, !.pending = << >>, !.T = z, !.generated = y]
  BY DEF Committed, Live
<1>4. k = [l EXCEPT !.status = "Running"]
  BY DEF RunningLive
<1> HIDE DEF l, k, x, y, z
<1>5. /\ l.status = m.status /\ l.T = z /\ l.generated = y /\ l.table = x
      /\ l.pending = << >> /\ l.hit = m.hit /\ l.s = m.s /\ l.dq = m.dq
      /\ DOMAIN l = DOMAIN m /\ l = [f \in DOMAIN m |-> l[f]]
  BY <1>3 DEF Live
<1>6. /\ l.status \in {"Future", "Waiting", "Running", "Finished", "Canceled"} /\ l.T \in Nat
      /\ l.generated \in Nat /\ l.table \in Seq(Blocks) /\ l.pending \in Seq(Blocks)
      /\ l.hit \in BOOLEAN /\ l.s \in Nat /\ l.dq \in Nat
  BY <1>1, <1>2, <1>5, Zenon
<1>7. l \in Live
  BY <1>5, <1>6, LiveIs, Zenon
<1>8. /\ k.status = "Running" /\ k.T = l.T /\ k.generated = l.generated /\ k.table = l.table
      /\ k.pending = l.pending /\ k.hit = l.hit /\ k.s = l.s /\ k.dq = l.dq
      /\ DOMAIN k = DOMAIN l /\ k = [f \in DOMAIN l |-> k[f]]
  BY <1>4, <1>7 DEF Live
<1>9. /\ k.status \in {"Future", "Waiting", "Running", "Finished", "Canceled"} /\ k.T \in Nat
      /\ k.generated \in Nat /\ k.table \in Seq(Blocks) /\ k.pending \in Seq(Blocks)
      /\ k.hit \in BOOLEAN /\ k.s \in Nat /\ k.dq \in Nat
  BY <1>2, <1>6, <1>8, Zenon
<1>10. k \in Live
  BY <1>7, <1>8, <1>9, LiveIs, Zenon
<1> QED BY <1>5, <1>7, <1>8, <1>10 DEF l, k, x, y, z

\* How full the block at place i is.
LEMMA TokensOf ==
  ASSUME NEW t \in Nat, NEW i \in Nat, i > 0
  PROVE  /\ Tokens(t, i - 1) \in 0 .. B
         /\ i <= SysBlocks /\ t >= Sys => Tokens(t, i - 1) = B
<1>1. B \in Nat /\ B > 0 /\ SysBlocks \in Nat /\ Sys = SysBlocks * B /\ Sys \in Nat
  BY KVSizes
<1> DEFINE j == i - 1
           x == j * B
<1>2. j \in Nat /\ x \in Nat
  BY <1>1
<1>3. i <= SysBlocks => x + B <= Sys
  <2>1. ASSUME i <= SysBlocks PROVE x + B <= Sys
    <3>1. PICK d \in Nat : SysBlocks = j + 1 + d
      <4>1. SysBlocks - i \in Nat /\ SysBlocks = j + 1 + (SysBlocks - i)
        BY <1>1, <2>1
      <4> QED BY <4>1
    <3>2. SysBlocks * B = j * B + B + d * B /\ d * B >= 0
      BY <1>1, <1>2, <3>1
    <3> QED BY <1>1, <1>2, <3>2
  <2> QED BY <2>1
<1>4. Tokens(t, j) = IF t - x < 0 THEN 0 ELSE IF t - x > B THEN B ELSE t - x
  BY DEF Tokens
<1> HIDE DEF x
<1>5. Tokens(t, j) \in 0 .. B /\ (i <= SysBlocks /\ t >= Sys => Tokens(t, j) = B)
  BY <1>1, <1>2, <1>3, <1>4
<1> QED BY <1>5

\* Where an element is in a list that has it once.
FirstAt(t, b) == LET I == {i \in 1 .. Len(t) : t[i] = b} IN IF I # {} THEN Min(I) ELSE 0

\* Where an element of a list without repetitions stands.
LEMMA FirstIs ==
  ASSUME NEW S, NEW t \in Seq(S), Apart(t), NEW b
  PROVE  /\ \A i \in 1 .. Len(t) : t[i] = b => FirstAt(t, b) = i
         /\ FirstAt(t, b) # 0 => FirstAt(t, b) \in 1 .. Len(t) /\ t[FirstAt(t, b)] = b
<1> DEFINE I == {i \in 1 .. Len(t) : t[i] = b}
<1>1. FirstAt(t, b) = IF I # {} THEN Min(I) ELSE 0
  BY Zenon DEF FirstAt
<1>2. I \in SUBSET Nat /\ \A i \in I : i \in 1 .. Len(t) /\ t[i] = b
  OBVIOUS
<1>3. \A i \in 1 .. Len(t) : t[i] = b => i \in I
  OBVIOUS
<1>4. \A i, j \in 1 .. Len(t) : t[i] = t[j] => i = j
  BY DEF Apart
<1> HIDE DEF I
<1>5. I # {} => Min(I) \in I
  BY <1>2, MinOf
<1> QED BY <1>1, <1>2, <1>3, <1>4, <1>5

\* What a request has once the plan is committed.
NewTable(r) == req[r].table \o req[r].pending
NewT(r)     == Prompt(r) + req[r].generated

\* A table only grows by blocks of its own.
LEMMA KVNewTables ==
  ASSUME KVInv, Reserving
  PROVE  /\ \A r \in Requests :
              /\ NewTable(r) \in Seq(Blocks) /\ Apart(NewTable(r))
              /\ ToSet(NewTable(r)) = ToSet(req[r].table) \cup ToSet(req[r].pending)
              /\ ~InBatch(r) => NewTable(r) = << >>
              /\ \A i \in DOMAIN NewTable(r) : \A j \in DOMAIN prefix :
                   NewTable(r)[i] = prefix[j] => i = j /\ Shared(r)
         /\ \A r, q \in Requests : \A b \in Blocks :
              r # q /\ b \in ToSet(NewTable(r)) /\ b \in ToSet(NewTable(q)) => b \in ToSet(prefix)
<1>0. TypeOK /\ KVQueues /\ KVIdle /\ KVServed /\ KVAdmitted /\ KVPrefix /\ KVFeasible /\ Conserved /\ Refcounts
  BY DEF KVInv
<1>1. \A r : Counted(r)
  BY DEF Counted, Reserving
<1>2. ASSUME NEW r \in Requests
      PROVE  /\ req[r].table \in Seq(Blocks) /\ req[r].pending \in Seq(Blocks)
             /\ Apart(req[r].table) /\ Apart(req[r].pending)
             /\ ToSet(req[r].pending) \subseteq Blocks
             /\ ~InBatch(r) => req[r].table = << >> /\ req[r].pending = << >>
             /\ \A b \in ToSet(req[r].pending) :
                  /\ b \in Blocks /\ pool.resv[b] = r /\ b \notin ToSet(prefix)
                  /\ \A q \in Requests : b \notin ToSet(req[q].table)
  <2>1. req[r].table \in Seq(Blocks) /\ req[r].pending \in Seq(Blocks) /\ ToSet(req[r].pending) \subseteq Blocks
    BY <1>0, KVRequest
  <2>2. /\ Apart(req[r].table) /\ Apart(req[r].pending)
        /\ ~InBatch(r) => req[r].table = << >> /\ req[r].pending = << >>
    BY <1>0, Zenon DEF KVIdle
  <2>3. ASSUME NEW b \in ToSet(req[r].pending)
        PROVE  /\ b \in Blocks /\ pool.resv[b] = r /\ b \notin ToSet(prefix)
               /\ \A q \in Requests : b \notin ToSet(req[q].table)
    <3>1. b \in Blocks /\ pool.resv[b] = r /\ r # 0
      BY <1>0, <2>1, KVBlock, KVUse
    <3>2. pool.resv[b] # 0
      BY <3>1
    <3> QED BY <1>0, <1>1, <3>1, <3>2, KVReserved
  <2> QED BY <2>1, <2>2, <2>3
<1>3. ASSUME NEW r \in Requests
      PROVE  /\ NewTable(r) \in Seq(Blocks) /\ Apart(NewTable(r))
             /\ ToSet(NewTable(r)) = ToSet(req[r].table) \cup ToSet(req[r].pending)
             /\ ~InBatch(r) => NewTable(r) = << >>
  <2>1. ToSet(req[r].table) \cap ToSet(req[r].pending) = {}
    BY <1>2
  <2> DEFINE t == req[r].table
             p == req[r].pending
  <2>2. t \in Seq(Blocks) /\ p \in Seq(Blocks) /\ Apart(t) /\ Apart(p) /\ ToSet(t) \cap ToSet(p) = {}
        /\ (~InBatch(r) => t = << >> /\ p = << >>) /\ NewTable(r) = t \o p
    BY <1>2, <2>1 DEF NewTable
  <2> HIDE DEF t, p
  <2>3. t \o p \in Seq(Blocks) /\ Apart(t \o p) /\ ToSet(t \o p) = ToSet(t) \cup ToSet(p)
    BY <2>2, ApartConcat, SetOfConcat
  <2> QED BY <2>2, <2>3 DEF t, p
<1>4. ASSUME NEW r \in Requests, NEW i \in DOMAIN NewTable(r), NEW j \in DOMAIN prefix,
             NewTable(r)[i] = prefix[j]
      PROVE  i = j /\ Shared(r)
  <2>1. prefix[j] \in ToSet(prefix)
    BY <1>0, KVUse, Listed
  <2>2. req[r].table \in Seq(Blocks) /\ req[r].pending \in Seq(Blocks)
    BY <1>2
  <2>3. NewTable(r) = req[r].table \o req[r].pending
    BY DEF NewTable
  <2>4. CASE i \in DOMAIN req[r].table
    <3> DEFINE t == req[r].table
               p == req[r].pending
    <3>1. NewTable(r)[i] = t[i]
      <4>1. t \in Seq(Blocks) /\ p \in Seq(Blocks) /\ NewTable(r) = t \o p /\ i \in DOMAIN t
        BY <2>2, <2>3, <2>4
      <4> HIDE DEF t, p
      <4> QED BY <4>1
    <3> QED BY <1>0, <1>4, <2>4, <3>1 DEF KVPrefix
  <2>5. CASE i \notin DOMAIN req[r].table
    <3> DEFINE t == req[r].table
               p == req[r].pending
               k == i - Len(t)
    <3>1. k \in 1 .. Len(p) /\ NewTable(r)[i] = p[k]
      <4>1. t \in Seq(Blocks) /\ p \in Seq(Blocks) /\ NewTable(r) = t \o p /\ i \notin DOMAIN t /\ i \in DOMAIN (t \o p)
        BY <1>4, <2>2, <2>3, <2>5
      <4> HIDE DEF t, p
      <4> QED BY <4>1
    <3>2. p[k] \in ToSet(p)
      <4>1. p \in Seq(Blocks)
        BY <2>2
      <4> HIDE DEF p, k
      <4> QED BY <3>1, <4>1, Listed
    <3>3. p[k] \notin ToSet(prefix)
      <4> HIDE DEF k
      <4> QED BY <1>2, <3>2
    <3> QED BY <1>4, <2>1, <3>1, <3>3
  <2> QED BY <2>4, <2>5
<1>5. ASSUME NEW r \in Requests, NEW q \in Requests, NEW b \in Blocks, r # q,
             b \in ToSet(NewTable(r)), b \in ToSet(NewTable(q))
      PROVE  b \in ToSet(prefix)
  <2>1. b \in ToSet(req[r].pending) => FALSE
    <3>1. ASSUME b \in ToSet(req[r].pending) PROVE FALSE
      <4>1. pool.resv[b] = r /\ b \notin ToSet(req[q].table)
        BY <1>2, <3>1
      <4>2. b \in ToSet(req[q].pending)
        BY <1>3, <1>5, <4>1
      <4>3. pool.resv[b] = q
        BY <1>2, <4>2
      <4> QED BY <1>5, <4>1, <4>3
    <3> QED BY <3>1
  <2>2. b \in ToSet(req[r].table)
    BY <1>3, <1>5, <2>1
  <2>3. b \in ToSet(req[q].table)
    <3>1. b \notin ToSet(req[q].pending)
      BY <1>2, <2>2
    <3> QED BY <1>3, <1>5, <3>1
  <2> QED BY <1>0, <1>5, <2>2, <2>3 DEF KVPrefix
<1> QED BY <1>3, <1>4, <1>5

\* The table of a request in the plan is as long as its tokens take.
LEMMA KVNewTokens ==
  ASSUME KVInv, Reserving, NEW r \in Requests, InBatch(r)
  PROVE  /\ req[r].T + req[r].s = NewT(r) /\ NewT(r) \in Nat
         /\ Len(NewTable(r)) = BlocksFor(NewT(r))
         /\ Shared(r) => NewT(r) >= Sys
<1>0. TypeOK /\ KVQueues /\ KVIdle /\ KVServed /\ KVAdmitted /\ KVPrefix
  BY DEF KVInv
<1>1. /\ req[r].T \in Nat /\ req[r].generated \in Nat /\ req[r].s \in Nat /\ req[r].dq \in Nat
      /\ req[r].table \in Seq(Blocks) /\ req[r].pending \in Seq(Blocks)
      /\ Prompt(r) \in Nat /\ (Shared(r) => Prompt(r) >= Sys)
  BY <1>0, KVRequest
<1>2. Sys \in Nat /\ SysBlocks \in Nat /\ BlocksFor(0) = 0 /\ BlocksFor(Sys) = SysBlocks
      /\ \A t \in Nat : BlocksFor(t) \in Nat
  BY KVSizes
<1>3. NewT(r) \in Nat /\ (Shared(r) => NewT(r) >= Sys)
  <2> DEFINE p == Prompt(r)
             g == req[r].generated
  <2>1. p \in Nat /\ g \in Nat /\ Sys \in Nat /\ (Shared(r) => p >= Sys) /\ NewT(r) = p + g
    BY <1>1, <1>2 DEF NewT
  <2> HIDE DEF p, g
  <2> QED BY <2>1
<1>4. Len(req[r].pending) = req[r].dq
  BY <1>0, Zenon DEF KVIdle
<1>5. Len(NewTable(r)) = Len(req[r].table) + req[r].dq
  <2> DEFINE t == req[r].table
             p == req[r].pending
  <2>1. t \in Seq(Blocks) /\ p \in Seq(Blocks) /\ NewTable(r) = t \o p
    BY <1>1 DEF NewTable
  <2> HIDE DEF t, p
  <2>2. Len(NewTable(r)) = Len(t) + Len(p)
    BY <2>1
  <2> QED BY <1>4, <2>2 DEF t, p
<1>6. Planning
  BY DEF Planning, Reserving
<1>7. CASE r \in ToSet(running)
  <2>1. /\ req[r].T = Prompt(r) + req[r].generated - 1
        /\ Len(req[r].table) = BlocksFor(req[r].T)
        /\ req[r].s = 1 /\ req[r].dq = DecodeDq(r)
    BY <1>0, <1>6, <1>7 DEF KVServed
  <2>2. DecodeDq(r) = BlocksFor(req[r].T + 1) - BlocksFor(req[r].T)
    BY DEF DecodeDq
  <2>3. NewT(r) = req[r].T + 1
    BY <1>1, <2>1 DEF NewT
  <2>4. BlocksFor(req[r].T) \in Nat /\ BlocksFor(req[r].T + 1) \in Nat
    <3> DEFINE x == req[r].T + 1
    <3>1. req[r].T \in Nat /\ x \in Nat
      BY <1>1
    <3> HIDE DEF x
    <3>2. BlocksFor(req[r].T) \in Nat /\ BlocksFor(x) \in Nat
      BY <1>2, <3>1
    <3> QED BY <3>2 DEF x
  <2>5. BlocksFor(NewT(r)) = BlocksFor(req[r].T + 1)
    BY <2>3
  <2> HIDE DEF BlocksFor
  <2> QED BY <1>1, <1>3, <1>5, <2>1, <2>2, <2>3, <2>4, <2>5
<1>8. CASE r \in ToSet(admitted)
  <2>1. /\ req[r].T + req[r].s = NewT(r)
        /\ req[r].dq = BlocksFor(NewT(r)) - BlocksFor(req[r].T)
        /\ \/ prefix # << >> /\ req[r].T = Sys /\ req[r].table = prefix
           \/ req[r].T = 0 /\ req[r].table = << >>
    BY <1>0, <1>8 DEF KVAdmitted, NewT
  <2>2. Len(req[r].table) = BlocksFor(req[r].T)
    BY <1>0, <1>2, <2>1 DEF KVPrefix
  <2>3. BlocksFor(req[r].T) \in Nat /\ BlocksFor(NewT(r)) \in Nat
    BY <1>1, <1>2, <1>3
  <2> HIDE DEF BlocksFor
  <2> QED BY <1>3, <1>5, <2>1, <2>2, <2>3
<1> QED BY <1>7, <1>8 DEF InBatch

KVLives == [r \in Requests |-> IF r \in ToSet(InPlan) THEN Committed(req[r]) ELSE req[r]]

\* Who fills a block, by its place in the plan, and up to where.
Filling(b) == {k \in 1 .. Len(InPlan) : Fills(KVLives[InPlan[k]], InPlan[k], b)}
Filler(b)  == IF Filling(b) # {} THEN Max(Filling(b)) ELSE 0
FilledTo(b) == LET l == KVLives[InPlan[Filler(b)]] IN Tokens(l.T, FirstAt(l.table, b) - 1)

\* The requests of the batch after the iteration.
LEMMA KVLivesAre ==
  ASSUME KVInv, Reserving, NEW r \in Requests
  PROVE  /\ KVLives[r] \in Live /\ KVLives[r].table = NewTable(r)
         /\ KVLives[r].pending = << >>
         /\ KVLives[r].status = req[r].status
         /\ InBatch(r) => KVLives[r].T = NewT(r) /\ KVLives[r].generated = req[r].generated + 1
         /\ ~InBatch(r) => KVLives[r].T = 0
         /\ InBatch(r) => KVLives[r] = Committed(req[r])
<1>0. TypeOK /\ KVQueues /\ KVIdle
  BY DEF KVInv
<1>1. req[r] \in Live
  BY <1>0, KVRequest
<1>2. r \in ToSet(InPlan) <=> InBatch(r)
  BY <1>0, KVPlan
<1>3. KVLives[r] = IF InBatch(r) THEN Committed(req[r]) ELSE req[r]
  BY <1>2 DEF KVLives
<1>4. CASE InBatch(r)
  <2>1. KVLives[r] = Committed(req[r])
    BY <1>3, <1>4
  <2>2. req[r].T + req[r].s = NewT(r)
    BY <1>4, KVNewTokens
  <2> QED BY <1>1, <1>4, <2>1, <2>2, LiveCommitted, ZenonT(40) DEF NewTable
<1>5. CASE ~InBatch(r)
  <2>1. KVLives[r] = req[r]
    BY <1>3, <1>5
  <2>2. req[r].table = << >> /\ req[r].T = 0 /\ req[r].pending = << >>
    BY <1>0, <1>5, Zenon DEF KVIdle
  <2>3. NewTable(r) = << >>
    BY <1>5, KVNewTables
  <2> QED BY <1>1, <1>5, <2>1, <2>2, <2>3
<1> QED BY <1>4, <1>5

\* Whose writing an iteration's blocks are.
LEMMA KVFillsIs ==
  ASSUME KVInv, Reserving, NEW r \in Requests, NEW b \in Blocks
  PROVE  Fills(KVLives[r], r, b) <=> b \in ToSet(NewTable(r)) /\ b \notin ToSet(prefix)
<1>0. TypeOK /\ KVPrefix
  BY DEF KVInv
<1> DEFINE t == NewTable(r)
           j == FirstAt(t, b)
<1>1. Fills(KVLives[r], r, b) <=> j # 0 /\ ~(Shared(r) /\ j <= SysBlocks /\ b \in ToSet(prefix))
  <2>1. KVLives[r].table = t
    BY KVLivesAre
  <2>2. SelectInSeq(t, LAMBDA x : x = b) = j
    BY Zenon DEF SelectInSeq, FirstAt
  <2> HIDE DEF t, j
  <2> QED BY <2>1, <2>2 DEF Fills, Shared
<1>2. t \in Seq(Blocks) /\ Apart(t)
      /\ \A i \in DOMAIN t : \A k \in DOMAIN prefix : t[i] = prefix[k] => i = k /\ Shared(r)
  BY KVNewTables
<1> HIDE DEF t
<1>3. /\ j # 0 => j \in 1 .. Len(t) /\ t[j] = b
      /\ \A i \in 1 .. Len(t) : t[i] = b => j = i
  BY <1>2, FirstIs
<1>4. b \in ToSet(t) <=> j # 0
  <2>1. b \in ToSet(t) <=> \E i \in 1 .. Len(t) : t[i] = b
    BY <1>2, Listed
  <2>2. Len(t) \in Nat
    BY <1>2
  <2> HIDE DEF j
  <2> QED BY <1>3, <2>1, <2>2
<1>5. ASSUME b \in ToSet(prefix), j # 0 PROVE Shared(r) /\ j <= SysBlocks
  <2>1. prefix \in Seq(Blocks) /\ (prefix # << >> => Len(prefix) = SysBlocks)
    BY <1>0, KVUse DEF KVPrefix
  <2>2. PICK k \in 1 .. Len(prefix) : prefix[k] = b
    BY <1>5, <2>1, Listed
  <2>3. prefix # << >> /\ k \in DOMAIN prefix
    BY <2>1, <2>2
  <2>4. j \in DOMAIN t /\ t[j] = prefix[k]
    BY <1>2, <1>3, <1>5, <2>2
  <2>5. j = k /\ Shared(r)
    BY <1>2, <2>3, <2>4
  <2> QED BY <2>1, <2>2, <2>3, <2>5
<1> HIDE DEF j
<1> QED BY <1>1, <1>4, <1>5 DEF t

\* Each block is filled by the one request that has it, unless it is one of the
\* cached prompt's.
LEMMA KVFilled ==
  ASSUME KVInv, Reserving, NEW b \in Blocks
  PROVE  /\ b \in ToSet(prefix) => Filler(b) = 0
         /\ Filler(b) # 0 => FilledTo(b) \in 0 .. B
         /\ b \notin ToSet(prefix) => \A r \in Requests : \A i \in DOMAIN NewTable(r) :
              NewTable(r)[i] = b => Filler(b) # 0 /\ FilledTo(b) = Tokens(NewT(r), i - 1)
<1>0. TypeOK /\ KVQueues
  BY DEF KVInv
<1> DEFINE P == InPlan
           F == Filling(b)
           n == Len(P)
<1>1. /\ P \in Seq(Requests) /\ Apart(P) /\ n \in Nat
      /\ \A r : r \in ToSet(P) <=> InBatch(r)
  BY <1>0, KVPlan
<1>2. /\ \A k \in 1 .. n : P[k] \in Requests /\ P[k] \in ToSet(P)
      /\ \A r \in ToSet(P) : \E k \in 1 .. n : P[k] = r
      /\ \A k, m \in 1 .. n : P[k] = P[m] => k = m
  <2> HIDE DEF P
  <2> QED BY <1>1, Listed DEF Apart
<1>3. F = {k \in 1 .. n : Fills(KVLives[P[k]], P[k], b)}
  BY DEF Filling
<1>4. \A k \in 1 .. n : k \in F <=> b \in ToSet(NewTable(P[k])) /\ b \notin ToSet(prefix)
  BY <1>2, <1>3, KVFillsIs
<1>5. F \in SUBSET (0 .. n) /\ F \subseteq 1 .. n
  BY <1>1, <1>3
<1>6. Filler(b) = IF F # {} THEN Max(F) ELSE 0
  BY DEF Filler
<1>7. FilledTo(b) = Tokens(KVLives[P[Filler(b)]].T, FirstAt(KVLives[P[Filler(b)]].table, b) - 1)
  BY Zenon DEF FilledTo
<1> HIDE DEF F, P, n
<1>8. F # {} => Filler(b) \in F
  BY <1>1, <1>5, <1>6, MaxOf
<1>9. Filler(b) # 0 => Filler(b) \in F
  BY <1>6, <1>8
<1>10. b \in ToSet(prefix) => Filler(b) = 0
  BY <1>4, <1>5, <1>6
<1>11. ASSUME Filler(b) # 0
       PROVE  LET r == P[Filler(b)] IN
              /\ r \in Requests /\ InBatch(r) /\ FilledTo(b) = Tokens(NewT(r), FirstAt(NewTable(r), b) - 1)
              /\ FirstAt(NewTable(r), b) \in 1 .. Len(NewTable(r)) /\ b \in ToSet(NewTable(r))
              /\ NewT(r) \in Nat
  <2> DEFINE r == P[Filler(b)]
  <2>1. Filler(b) \in F /\ Filler(b) \in 1 .. n
    BY <1>5, <1>9, <1>11
  <2>2. r \in Requests /\ InBatch(r) /\ b \in ToSet(NewTable(r))
    BY <1>1, <1>2, <1>4, <2>1
  <2>3. FilledTo(b) = Tokens(KVLives[r].T, FirstAt(KVLives[r].table, b) - 1)
    BY <1>7
  <2> HIDE DEF r
  <2>4. KVLives[r].T = NewT(r) /\ KVLives[r].table = NewTable(r) /\ NewT(r) \in Nat
    BY <2>2, KVLivesAre, KVNewTokens
  <2>5. NewTable(r) \in Seq(Blocks) /\ Apart(NewTable(r))
    BY <2>2, KVNewTables
  <2>6. PICK i \in 1 .. Len(NewTable(r)) : NewTable(r)[i] = b
    BY <2>2, <2>5, Listed
  <2>7. FirstAt(NewTable(r), b) = i
    BY <2>5, <2>6, FirstIs
  <2> QED BY <2>2, <2>3, <2>4, <2>6, <2>7 DEF r
<1>12. ASSUME Filler(b) # 0 PROVE FilledTo(b) \in 0 .. B
  <2> DEFINE r == P[Filler(b)]
             i == FirstAt(NewTable(r), b)
  <2>1. /\ FilledTo(b) = Tokens(NewT(r), i - 1) /\ NewT(r) \in Nat /\ r \in Requests
        /\ i \in 1 .. Len(NewTable(r))
    BY <1>11, <1>12
  <2> HIDE DEF r, i
  <2>2. NewTable(r) \in Seq(Blocks)
    BY <2>1, KVNewTables
  <2>3. i \in Nat /\ i > 0
    BY <2>1, <2>2
  <2> QED BY <2>1, <2>3, TokensOf
<1>13. ASSUME b \notin ToSet(prefix), NEW r \in Requests, NEW i \in DOMAIN NewTable(r), NewTable(r)[i] = b
       PROVE  Filler(b) # 0 /\ FilledTo(b) = Tokens(NewT(r), i - 1)
  <2>1. NewTable(r) \in Seq(Blocks) /\ Apart(NewTable(r)) /\ (~InBatch(r) => NewTable(r) = << >>)
    BY KVNewTables
  <2>2. i \in 1 .. Len(NewTable(r)) /\ b \in ToSet(NewTable(r))
    BY <1>13, <2>1, Listed
  <2>3. InBatch(r)
    BY <2>1, <2>2
  <2>4. PICK k \in 1 .. n : P[k] = r
    BY <1>1, <1>2, <2>3
  <2>5. k \in F
    BY <1>4, <1>13, <2>2, <2>4
  <2>6. F # {} /\ Filler(b) \in F /\ Filler(b) \in 1 .. n /\ Filler(b) # 0
    <3>1. F # {} /\ Filler(b) \in F
      BY <1>8, <2>5
    <3>2. Filler(b) \in 1 .. n
      BY <1>5, <3>1
    <3>3. Filler(b) # 0
      BY <1>1, <3>2
    <3> QED BY <3>1, <3>2, <3>3
  <2> DEFINE q == P[Filler(b)]
  <2>7. q \in Requests /\ b \in ToSet(NewTable(q)) /\ FilledTo(b) = Tokens(NewT(q), FirstAt(NewTable(q), b) - 1)
    BY <1>11, <2>6
  <2> HIDE DEF q
  <2>8. q = r
    BY <1>13, <2>2, <2>7, KVNewTables
  <2>9. FirstAt(NewTable(r), b) = i
    BY <1>13, <2>1, <2>2, FirstIs
  <2> QED BY <2>6, <2>7, <2>8, <2>9
<1> QED BY <1>10, <1>12, <1>13

KVMine(b) == {r \in ToSet(InPlan) : b \in ToSet(req[r].pending)}

\* The pool a commit leaves, before the prompt is indexed.
KVCommittedPool ==
  WithCommitted(pool,
    [b \in Blocks |-> IF KVMine(b) # {} THEN "Committed" ELSE pool.state[b]],
    [b \in Blocks |-> IF KVMine(b) # {} THEN 0 ELSE pool.resv[b]],
    [b \in Blocks |-> IF KVMine(b) # {} THEN KVMine(b) ELSE pool.holders[b]],
    [b \in Blocks |-> IF Filler(b) # 0 THEN FilledTo(b) ELSE pool.fill[b]])

\* The pool after the iteration: what was reserved is committed.
LEMMA KVCommits ==
  ASSUME KVInv, Reserving
  PROVE  LET p == KVCommittedPool IN
         /\ p \in Pool /\ p.free = pool.free
         /\ \A b \in Blocks :
              /\ pool.state[b] = "Reserved" <=> KVMine(b) # {}
              /\ p.state[b] = IF pool.state[b] = "Reserved" THEN "Committed" ELSE pool.state[b]
              /\ p.resv[b] = 0
              /\ p.holders[b] \subseteq Requests \cup {Index}
              /\ Index \in p.holders[b] <=> b \in ToSet(prefix)
              /\ p.state[b] = "Committed" <=> p.holders[b] # {}
              /\ \A r \in Requests : r \in p.holders[b] <=> b \in ToSet(NewTable(r))
              /\ p.fill[b] = IF Filler(b) # 0 THEN FilledTo(b) ELSE pool.fill[b]
<1> DEFINE s == [b \in Blocks |-> IF KVMine(b) # {} THEN "Committed" ELSE pool.state[b]]
           w == [b \in Blocks |-> IF KVMine(b) # {} THEN 0 ELSE pool.resv[b]]
           d == [b \in Blocks |-> IF KVMine(b) # {} THEN KVMine(b) ELSE pool.holders[b]]
           g == [b \in Blocks |-> IF Filler(b) # 0 THEN FilledTo(b) ELSE pool.fill[b]]
           p == KVCommittedPool
<1>0. TypeOK /\ KVQueues /\ KVIdle /\ KVPrefix /\ Conserved /\ Refcounts
  BY DEF KVInv
<1>1. pool \in Pool /\ pool.state \in States /\ pool.holders \in Holdings
      /\ pool.resv \in Reservations /\ pool.fill \in Levels
  <2>1. pool \in Pool
    BY <1>0, KVUse
  <2> QED BY <2>1, PoolFields DEF States, Holdings, Reservations, Levels
<1>2. \A b : KVMine(b) \subseteq Requests
  <2>1. InPlan \in Seq(Requests)
    BY <1>0, KVPlan
  <2>2. ToSet(InPlan) \subseteq Requests
    BY <2>1, SetOf
  <2> QED BY <2>2 DEF KVMine
<1>3. ASSUME NEW b \in Blocks
      PROVE  /\ pool.state[b] = "Reserved" <=> KVMine(b) # {}
             /\ \A r \in Requests : r \in KVMine(b) <=> b \in ToSet(req[r].pending)
             /\ pool.state[b] = "Reserved" <=> pool.resv[b] # 0
  <2>1. ASSUME NEW r \in Requests PROVE r \in KVMine(b) <=> b \in ToSet(req[r].pending)
    <3>1. b \in ToSet(req[r].pending) => InBatch(r)
      <4>1. ~InBatch(r) => req[r].pending = << >>
        BY <1>0, Zenon DEF KVIdle
      <4> QED BY <4>1, SetOfEmpty
    <3>2. r \in ToSet(InPlan) <=> InBatch(r)
      BY <1>0, KVPlan
    <3> QED BY <3>1, <3>2 DEF KVMine
  <2>2. /\ pool.state[b] = "Reserved" <=> pool.resv[b] # 0
        /\ pool.resv[b] \in Requests \cup {0}
        /\ \A r \in Requests : pool.resv[b] = r <=> b \in ToSet(req[r].pending)
    BY <1>0, KVBlock
  <2>3. 0 \notin Requests
    BY <1>0, KVUse
  <2> QED BY <1>2, <2>1, <2>2, <2>3
<1>4. s \in States /\ w \in Reservations /\ d \in Holdings /\ g \in Levels
  <2>1. \A b \in Blocks : Filler(b) # 0 => FilledTo(b) \in 0 .. B
    BY KVFilled
  <2>2. s \in States
    BY <1>1 DEF States
  <2>3. w \in Reservations
    BY <1>1 DEF Reservations
  <2>4. d \in Holdings
    BY <1>1, <1>2 DEF Holdings
  <2>5. g \in Levels
    BY <1>1, <2>1 DEF Levels
  <2> QED BY <2>2, <2>3, <2>4, <2>5
<1>5. p = WithCommitted(pool, s, w, d, g)
  BY DEF KVCommittedPool
<1>6. \A b \in Blocks :
        /\ s[b] = (IF KVMine(b) # {} THEN "Committed" ELSE pool.state[b])
        /\ w[b] = (IF KVMine(b) # {} THEN 0 ELSE pool.resv[b])
        /\ d[b] = (IF KVMine(b) # {} THEN KVMine(b) ELSE pool.holders[b])
        /\ g[b] = (IF Filler(b) # 0 THEN FilledTo(b) ELSE pool.fill[b])
  OBVIOUS
<1> HIDE DEF s, w, d, g, p
<1>7. p \in Pool /\ p.state = s /\ p.holders = d /\ p.resv = w /\ p.fill = g /\ p.free = pool.free
  BY <1>1, <1>4, <1>5, PoolCommits
<1>8. ASSUME NEW b \in Blocks
      PROVE  /\ pool.state[b] = "Reserved" <=> KVMine(b) # {}
             /\ p.state[b] = IF pool.state[b] = "Reserved" THEN "Committed" ELSE pool.state[b]
             /\ p.resv[b] = 0
             /\ p.holders[b] \subseteq Requests \cup {Index}
             /\ Index \in p.holders[b] <=> b \in ToSet(prefix)
             /\ p.state[b] = "Committed" <=> p.holders[b] # {}
             /\ \A r \in Requests : r \in p.holders[b] <=> b \in ToSet(NewTable(r))
             /\ p.fill[b] = IF Filler(b) # 0 THEN FilledTo(b) ELSE pool.fill[b]
  <2>1. /\ pool.holders[b] \subseteq Requests \cup {Index}
        /\ pool.state[b] = "Committed" <=> pool.holders[b] # {}
        /\ \A r \in Requests : r \in pool.holders[b] <=> Counted(r) /\ b \in ToSet(req[r].table)
        /\ Index \in pool.holders[b] <=> b \in ToSet(prefix)
    BY <1>0, KVBlock
  <2>2. \A r : Counted(r)
    BY DEF Counted, Reserving
  <2>3. \A r \in Requests : b \in ToSet(NewTable(r)) <=> b \in ToSet(req[r].table) \/ b \in ToSet(req[r].pending)
    BY KVNewTables
  <2>4. Index \notin Requests
    BY <1>0, KVUse
  <2>5. pool.state[b] = "Reserved" => pool.holders[b] = {}
    BY <2>1
  <2>6. /\ p.state[b] = (IF KVMine(b) # {} THEN "Committed" ELSE pool.state[b])
        /\ p.resv[b] = (IF KVMine(b) # {} THEN 0 ELSE pool.resv[b])
        /\ p.holders[b] = (IF KVMine(b) # {} THEN KVMine(b) ELSE pool.holders[b])
        /\ p.fill[b] = (IF Filler(b) # 0 THEN FilledTo(b) ELSE pool.fill[b])
    BY <1>6, <1>7
  <2>7. /\ pool.state[b] = "Reserved" <=> KVMine(b) # {}
        /\ \A r \in Requests : r \in KVMine(b) <=> b \in ToSet(req[r].pending)
        /\ pool.state[b] = "Reserved" <=> pool.resv[b] # 0
        /\ KVMine(b) \subseteq Requests
    BY <1>2, <1>3
  <2>8. /\ p.state[b] = IF pool.state[b] = "Reserved" THEN "Committed" ELSE pool.state[b]
        /\ p.resv[b] = 0
    BY <2>6, <2>7
  <2>9. CASE KVMine(b) # {}
    <3>1. pool.holders[b] = {} /\ p.holders[b] = KVMine(b) /\ p.state[b] = "Committed"
      BY <2>5, <2>6, <2>7, <2>9
    <3> QED BY <2>1, <2>2, <2>3, <2>4, <2>6, <2>7, <2>8, <2>9, <3>1
  <2>10. CASE KVMine(b) = {}
    <3>1. p.holders[b] = pool.holders[b] /\ p.state[b] = pool.state[b]
          /\ \A r \in Requests : b \notin ToSet(req[r].pending)
      BY <2>6, <2>7, <2>10
    <3> QED BY <2>1, <2>2, <2>3, <2>6, <2>7, <2>8, <2>10, <3>1
  <2> QED BY <2>9, <2>10
<1> QED BY <1>7, <1>8 DEF p

\* A committed block is full up to the last token of the request it is for.
LEMMA KVFilledBlocks ==
  ASSUME KVInv, Reserving
  PROVE  /\ \A r \in Requests : InBatch(r) => \A i \in DOMAIN NewTable(r) :
              KVCommittedPool.fill[NewTable(r)[i]] = Tokens(NewT(r), i - 1)
         /\ \A i \in DOMAIN prefix : KVCommittedPool.fill[prefix[i]] = B
<1> DEFINE f == KVCommittedPool.fill
<1>0. TypeOK /\ KVPrefix
  BY DEF KVInv
<1>1. \A b \in Blocks : f[b] = IF Filler(b) # 0 THEN FilledTo(b) ELSE pool.fill[b]
  BY KVCommits
<1> HIDE DEF f
<1>2. /\ prefix \in Seq(Blocks) /\ (prefix # << >> => Len(prefix) = SysBlocks)
      /\ \A i \in DOMAIN prefix : pool.fill[prefix[i]] = B
  BY <1>0, KVUse DEF KVPrefix
<1>3. ASSUME NEW b \in ToSet(prefix) PROVE f[b] = B /\ b \in Blocks
  <2>1. b \in Blocks
    BY <1>0, KVUse
  <2>2. PICK i \in 1 .. Len(prefix) : prefix[i] = b
    BY <1>2, Listed
  <2>3. pool.fill[b] = B
    BY <1>2, <2>2
  <2>4. Filler(b) = 0
    BY <2>1, KVFilled
  <2> QED BY <1>1, <2>1, <2>3, <2>4
<1>4. ASSUME NEW i \in DOMAIN prefix PROVE f[prefix[i]] = B
  <2>1. prefix[i] \in ToSet(prefix)
    BY <1>2, Listed
  <2> QED BY <1>3, <2>1
<1>5. ASSUME NEW r \in Requests, InBatch(r), NEW i \in DOMAIN NewTable(r)
      PROVE  f[NewTable(r)[i]] = Tokens(NewT(r), i - 1)
  <2> DEFINE b == NewTable(r)[i]
             t == NewTable(r)
  <2>1. t \in Seq(Blocks) /\ \A k \in DOMAIN t : \A j \in DOMAIN prefix : t[k] = prefix[j] => k = j /\ Shared(r)
    BY KVNewTables
  <2>2. b \in Blocks /\ i \in Nat /\ i > 0
    <3>1. t \in Seq(Blocks) /\ i \in DOMAIN t
      BY <1>5, <2>1
    <3> HIDE DEF t
    <3>2. t[i] \in Blocks /\ i \in Nat /\ i > 0
      BY <3>1
    <3> QED BY <3>2 DEF t
  <2>3. CASE b \in ToSet(prefix)
    <3>1. PICK j \in 1 .. Len(prefix) : prefix[j] = b
      BY <1>2, <2>3, Listed
    <3>2. j \in DOMAIN prefix /\ prefix # << >>
      BY <1>2, <3>1
    <3>3. i = j /\ Shared(r)
      BY <1>5, <2>1, <3>1, <3>2
    <3>4. i <= SysBlocks
      BY <1>2, <3>1, <3>2, <3>3
    <3>5. NewT(r) \in Nat /\ NewT(r) >= Sys
      BY <1>5, <3>3, KVNewTokens
    <3>6. Tokens(NewT(r), i - 1) = B
      BY <2>2, <3>4, <3>5, TokensOf
    <3> QED BY <1>3, <2>3, <3>6
  <2>4. CASE b \notin ToSet(prefix)
    <3>1. Filler(b) # 0 /\ FilledTo(b) = Tokens(NewT(r), i - 1)
      BY <1>5, <2>2, <2>4, KVFilled
    <3> QED BY <1>1, <2>2, <3>1
  <2> QED BY <2>3, <2>4
<1> QED BY <1>4, <1>5 DEF f

\* The cached prompt: full, and in the tables of those it is shared by only.
PromptOf(p, s) ==
  /\ s \in Seq(Blocks) /\ (s # << >> => Len(s) = SysBlocks) /\ Apart(s)
  /\ \A i \in DOMAIN s : p.fill[s[i]] = B
  /\ \A r \in Requests : \A i \in DOMAIN NewTable(r) :
       \A j \in DOMAIN s : NewTable(r)[i] = s[j] => i = j /\ Shared(r)
  /\ \A r, q \in Requests : \A b \in Blocks :
       r # q /\ b \in ToSet(NewTable(r)) /\ b \in ToSet(NewTable(q)) => b \in ToSet(s)

\* The cached prompt is full of the prompt still.
LEMMA KVPromptKept ==
  ASSUME KVInv, Reserving PROVE PromptOf(KVCommittedPool, prefix)
<1>0. TypeOK /\ KVPrefix
  BY DEF KVInv
<1>1. prefix \in Seq(Blocks) /\ (prefix # << >> => Len(prefix) = SysBlocks) /\ Apart(prefix)
  BY <1>0, KVUse DEF KVPrefix
<1>2. \A i \in DOMAIN prefix : KVCommittedPool.fill[prefix[i]] = B
  BY KVFilledBlocks
<1>3. /\ \A r \in Requests : \A i \in DOMAIN NewTable(r) :
           \A j \in DOMAIN prefix : NewTable(r)[i] = prefix[j] => i = j /\ Shared(r)
      /\ \A r, q \in Requests : \A b \in Blocks :
           r # q /\ b \in ToSet(NewTable(r)) /\ b \in ToSet(NewTable(q)) => b \in ToSet(prefix)
  BY KVNewTables
<1> QED BY <1>1, <1>2, <1>3, Zenon DEF PromptOf

\* The first blocks of a request that had the prompt to itself are full of it.
LEMMA KVPromptIndexed ==
  ASSUME KVInv, Reserving, prefix = << >>, NEW o \in Requests, InBatch(o), Shared(o)
  PROVE  /\ PromptOf(KVCommittedPool, PrefixOf(NewTable(o)))
         /\ ToSet(PrefixOf(NewTable(o))) \subseteq ToSet(NewTable(o))
<1> DEFINE t == NewTable(o)
           s == PrefixOf(t)
<1>1. /\ t \in Seq(Blocks) /\ Apart(t)
      /\ \A r, q \in Requests : \A b \in Blocks :
           r # q /\ b \in ToSet(NewTable(r)) /\ b \in ToSet(NewTable(q)) => b \in ToSet(prefix)
  BY KVNewTables
<1>2. NewT(o) \in Nat /\ Len(t) = BlocksFor(NewT(o)) /\ NewT(o) >= Sys
  BY KVNewTokens
<1>3. SysBlocks \in Nat /\ SysBlocks <= Len(t)
  <2>1. SysBlocks \in Nat /\ Sys \in Nat /\ BlocksFor(Sys) = SysBlocks
        /\ \A x, y \in Nat : x <= y => BlocksFor(x) <= BlocksFor(y)
    BY KVSizes
  <2>2. BlocksFor(Sys) <= BlocksFor(NewT(o))
    BY <1>2, <2>1
  <2> QED BY <1>2, <2>1, <2>2
<1> HIDE DEF t
<1>4. s \in Seq(Blocks) /\ Len(s) = SysBlocks /\ \A i \in 1 .. SysBlocks : s[i] = t[i]
  <2>1. s = SubSeq(t, 1, SysBlocks) /\ Len(t) \in Nat
    BY <1>1 DEF PrefixOf
  <2> QED BY <1>1, <1>3, <2>1, SubSeqProperties
<1> HIDE DEF s
<1>5. /\ DOMAIN s = 1 .. SysBlocks /\ \A i \in DOMAIN s : i \in DOMAIN t /\ s[i] = t[i] /\ t[i] \in Blocks
  BY <1>1, <1>3, <1>4
<1>6. Apart(s)
  BY <1>1, <1>5 DEF Apart
<1>7. ToSet(s) \subseteq ToSet(t)
  <2>1. ASSUME NEW b \in ToSet(s) PROVE b \in ToSet(t)
    <3>1. PICK i \in 1 .. Len(s) : s[i] = b
      BY <1>4, Listed
    <3>2. i \in 1 .. Len(t) /\ t[i] = b
      BY <1>1, <1>3, <1>4, <3>1
    <3> QED BY <1>1, <3>2, Listed
  <2> QED BY <2>1
<1>8. ASSUME NEW i \in DOMAIN s PROVE KVCommittedPool.fill[s[i]] = B
  <2>1. i \in DOMAIN t /\ s[i] = t[i] /\ i \in Nat /\ i > 0 /\ i <= SysBlocks
    BY <1>3, <1>5, <1>8
  <2>2. KVCommittedPool.fill[t[i]] = Tokens(NewT(o), i - 1)
    BY <2>1, KVFilledBlocks DEF t
  <2>3. Tokens(NewT(o), i - 1) = B
    BY <1>2, <2>1, TokensOf
  <2> QED BY <2>1, <2>2, <2>3
<1>9. ASSUME NEW r \in Requests, NEW i \in DOMAIN NewTable(r), NEW j \in DOMAIN s, NewTable(r)[i] = s[j]
      PROVE  i = j /\ Shared(r)
  <2>1. j \in DOMAIN t /\ t[j] = NewTable(r)[i] /\ t[j] \in Blocks /\ j \in 1 .. Len(t)
    BY <1>1, <1>5, <1>9
  <2>2. t[j] \in ToSet(t)
    BY <1>1, <2>1, Listed
  <2>3. t[j] \in ToSet(NewTable(r))
    <3>1. NewTable(r) \in Seq(Blocks)
      BY KVNewTables
    <3>2. NewTable(r)[i] \in ToSet(NewTable(r))
      BY <1>9, <3>1, Listed
    <3> QED BY <2>1, <3>2
  <2>4. r = o
    <3>1. ToSet(prefix) = {}
      BY SetOfEmpty
    <3>2. r # o => t[j] \in ToSet(prefix)
      BY <1>1, <2>1, <2>2, <2>3 DEF t
    <3> QED BY <3>1, <3>2
  <2>5. i = j
    BY <1>1, <1>9, <2>1, <2>4 DEF t, Apart
  <2> QED BY <2>4, <2>5
<1>10. \A r, q \in Requests : \A b \in Blocks :
         r # q /\ b \in ToSet(NewTable(r)) /\ b \in ToSet(NewTable(q)) => b \in ToSet(s)
  BY <1>1, SetOfEmpty
<1>11. PromptOf(KVCommittedPool, s)
  BY <1>4, <1>6, <1>8, <1>9, <1>10 DEF PromptOf
<1> QED BY <1>7, <1>11 DEF s, t

KVOwner == LET I == {k \in 1 .. Len(InPlan) : par.specs[InPlan[k]].sys /\ KVLives[InPlan[k]].T >= Sys}
           IN  IF I # {} THEN Min(I) ELSE 0

IndexedHolders == [b \in Blocks |-> IF b \in ToSet(prefix') THEN KVCommittedPool.holders[b] \cup {Index}
                                                          ELSE KVCommittedPool.holders[b]]

\* What a commit changes, by its cases.
LEMMA KVCommitIs ==
  ASSUME KVInv, Commit
  PROVE  /\ pc \in {"execute", "commit"} /\ pc' = "release"
         /\ par' = par /\ it' = it /\ waiting' = waiting /\ failed' = failed
         /\ running' = InPlan /\ admitted' = << >>
         /\ req' = [r \in Requests |-> IF r \in ToSet(admitted)
                                       THEN [KVLives[r] EXCEPT !.status = "Running"]
                                       ELSE KVLives[r]]
         /\ \/ pool' = KVCommittedPool /\ prefix' = prefix
            \/ /\ prefix = << >> /\ KVOwner # 0
               /\ prefix' = PrefixOf(KVLives[InPlan[KVOwner]].table)
               /\ pool' = WithHolders(KVCommittedPool, IndexedHolders)
<1> DEFINE L == KVLives
<1>0. TypeOK
  BY DEF KVInv
<1>1. /\ pc = "commit" \/ pc = "execute"
      /\ pc' = "release"
      /\ par' = par /\ it' = it /\ waiting' = waiting /\ failed' = failed
      /\ running' = InPlan /\ admitted' = << >>
      /\ req' = [r \in Requests |-> IF r \in ToSet(admitted) THEN [L[r] EXCEPT !.status = "Running"] ELSE L[r]]
      /\ Register(PoolCommitted(L), L)
  BY Zenon DEF Commit, KVLives
<1>2. PoolCommitted(L) = KVCommittedPool
  <2>1. PoolCommitted(L) = [pool EXCEPT
         !.state   = [b \in Blocks |-> IF KVMine(b) # {} THEN "Committed" ELSE @[b]],
         !.resv    = [b \in Blocks |-> IF KVMine(b) # {} THEN 0 ELSE @[b]],
         !.holders = [b \in Blocks |-> IF KVMine(b) # {} THEN KVMine(b) ELSE @[b]],
         !.fill    = [b \in Blocks |-> IF Filler(b) # 0 THEN FilledTo(b) ELSE @[b]]]
    BY Zenon DEF PoolCommitted, KVMine, Filler, Filling, FilledTo, FirstAt, SelectLastInSeq, SelectInSeq
  <2> DEFINE P == [state: [Blocks -> {"Free", "Reserved", "Committed"}],
                   holders: [Blocks -> SUBSET (Requests \cup {Index})],
                   resv: [Blocks -> Requests \cup {0}], fill: [Blocks -> 0 .. B], free: Seq(Blocks)]
  <2>2. pool \in P
    BY <1>0, KVUse DEF Pool
  <2> QED BY <2>1, <2>2 DEF KVCommittedPool, WithCommitted
<1> HIDE DEF L
<1>3. \/ pool' = KVCommittedPool /\ prefix' = prefix
      \/ /\ prefix = << >> /\ KVOwner # 0
         /\ prefix' = PrefixOf(L[InPlan[KVOwner]].table)
         /\ pool' = [KVCommittedPool EXCEPT !.holders = [b \in Blocks |->
                         IF b \in ToSet(prefix') THEN @[b] \cup {Index} ELSE @[b]]]
  BY <1>1, <1>2, Zenon DEF Register, KVOwner, SelectInSeq, L
<1>4. KVCommittedPool \in [state: [Blocks -> {"Free", "Reserved", "Committed"}],
                   holders: [Blocks -> SUBSET (Requests \cup {Index})],
                   resv: [Blocks -> Requests \cup {0}], fill: [Blocks -> 0 .. B], free: Seq(Blocks)]
  <2>1. KVCommittedPool \in Pool
    BY <1>1, KVCommits DEF Reserving
  <2> QED BY <2>1 DEF Pool
<1>5. [KVCommittedPool EXCEPT !.holders = [b \in Blocks |-> IF b \in ToSet(prefix') THEN @[b] \cup {Index} ELSE @[b]]]
      = WithHolders(KVCommittedPool, IndexedHolders)
  BY <1>4 DEF WithHolders, IndexedHolders
<1> QED BY <1>1, <1>3, <1>5 DEF L

\* The request whose prompt is indexed has it.
LEMMA KVOwnerIs ==
  ASSUME KVInv, Reserving, KVOwner # 0
  PROVE  LET o == InPlan[KVOwner] IN
         o \in Requests /\ InBatch(o) /\ Shared(o) /\ KVLives[o].table = NewTable(o)
<1> DEFINE I == {k \in 1 .. Len(InPlan) : par.specs[InPlan[k]].sys /\ KVLives[InPlan[k]].T >= Sys}
<1>1. KVOwner = IF I # {} THEN Min(I) ELSE 0
  BY Zenon DEF KVOwner
<1>2. /\ InPlan \in Seq(Requests) /\ \A r : r \in ToSet(InPlan) <=> InBatch(r)
  BY KVPlan DEF KVInv
<1>3. \A k \in 1 .. Len(InPlan) : InPlan[k] \in Requests /\ InPlan[k] \in ToSet(InPlan)
  BY <1>2, Listed
<1>4. I \in SUBSET Nat /\ \A k \in I : k \in 1 .. Len(InPlan) /\ Shared(InPlan[k])
  BY DEF Shared
<1> HIDE DEF I
<1>5. I # {} => Min(I) \in I
  BY <1>4, MinOf
<1>6. KVOwner \in 1 .. Len(InPlan) /\ Shared(InPlan[KVOwner])
  BY <1>1, <1>4, <1>5
<1>7. InPlan[KVOwner] \in Requests /\ InBatch(InPlan[KVOwner])
  BY <1>2, <1>3, <1>6
<1> QED BY <1>6, <1>7, KVLivesAre

\* The pool and the cached prompt after a commit.
LEMMA KVCommitPool ==
  ASSUME KVInv, Commit
  PROVE  /\ pool' \in Pool /\ pool'.free = pool.free /\ pool'.fill = KVCommittedPool.fill
         /\ PromptOf(pool', prefix')
         /\ \A b \in Blocks :
              /\ pool'.state[b] = IF pool.state[b] = "Reserved" THEN "Committed" ELSE pool.state[b]
              /\ pool'.resv[b] = 0
              /\ pool'.holders[b] \subseteq Requests \cup {Index}
              /\ Index \in pool'.holders[b] <=> b \in ToSet(prefix')
              /\ pool'.state[b] = "Committed" <=> pool'.holders[b] # {}
              /\ \A r \in Requests : r \in pool'.holders[b] <=> b \in ToSet(NewTable(r))
<1> DEFINE p == KVCommittedPool
<1>0. TypeOK /\ Reserving
  BY KVCommitIs DEF KVInv, Reserving
<1>1. /\ p \in Pool /\ p.free = pool.free
      /\ \A b \in Blocks :
           /\ p.state[b] = IF pool.state[b] = "Reserved" THEN "Committed" ELSE pool.state[b]
           /\ p.resv[b] = 0
           /\ p.holders[b] \subseteq Requests \cup {Index}
           /\ Index \in p.holders[b] <=> b \in ToSet(prefix)
           /\ p.state[b] = "Committed" <=> p.holders[b] # {}
           /\ \A r \in Requests : r \in p.holders[b] <=> b \in ToSet(NewTable(r))
  BY <1>0, KVCommits
<1>2. PromptOf(p, prefix)
  BY <1>0, KVPromptKept
<1>3. CASE pool' = p /\ prefix' = prefix
  <2> HIDE DEF p
  <2> QED BY <1>1, <1>2, <1>3 DEF p
<1>4. CASE /\ prefix = << >> /\ KVOwner # 0
           /\ prefix' = PrefixOf(KVLives[InPlan[KVOwner]].table)
           /\ pool' = WithHolders(p, IndexedHolders)
  <2> DEFINE o == InPlan[KVOwner]
             d == IndexedHolders
  <2>1. o \in Requests /\ InBatch(o) /\ Shared(o) /\ KVLives[o].table = NewTable(o)
    BY <1>0, <1>4, KVOwnerIs
  <2>2. prefix' = PrefixOf(NewTable(o))
    BY <1>4, <2>1
  <2>3. PromptOf(p, prefix') /\ ToSet(prefix') \subseteq ToSet(NewTable(o))
    BY <1>0, <1>4, <2>1, <2>2, KVPromptIndexed
  <2>4. \A b \in Blocks : d[b] = IF b \in ToSet(prefix') THEN p.holders[b] \cup {Index} ELSE p.holders[b]
    BY DEF IndexedHolders
  <2>5. d \in Holdings
    <3>1. d = [b \in Blocks |-> d[b]]
      BY DEF IndexedHolders
    <3>2. \A b \in Blocks : d[b] \in SUBSET (Requests \cup {Index})
      <4> HIDE DEF d, p
      <4> QED BY <1>1, <2>4
    <3> HIDE DEF d
    <3> QED BY <3>1, <3>2 DEF Holdings
  <2> HIDE DEF d, p
  <2>6. /\ pool' \in Pool /\ pool'.holders = d /\ pool'.state = p.state /\ pool'.resv = p.resv
        /\ pool'.fill = p.fill /\ pool'.free = p.free
    BY <1>1, <1>4, <2>5, PoolHolders DEF d
  <2>7. PromptOf(pool', prefix')
    BY <2>3, <2>6, Zenon DEF PromptOf
  <2>8. ASSUME NEW b \in Blocks
        PROVE  /\ pool'.state[b] = IF pool.state[b] = "Reserved" THEN "Committed" ELSE pool.state[b]
               /\ pool'.resv[b] = 0
               /\ pool'.holders[b] \subseteq Requests \cup {Index}
               /\ Index \in pool'.holders[b] <=> b \in ToSet(prefix')
               /\ pool'.state[b] = "Committed" <=> pool'.holders[b] # {}
               /\ \A r \in Requests : r \in pool'.holders[b] <=> b \in ToSet(NewTable(r))
    <3>1. pool'.holders[b] = IF b \in ToSet(prefix') THEN p.holders[b] \cup {Index} ELSE p.holders[b]
      BY <2>4, <2>6
    <3>2. Index \notin p.holders[b] /\ Index \notin Requests
      BY <1>0, <1>1, <1>4, SetOfEmpty, KVUse
    <3>3. b \in ToSet(prefix') => o \in p.holders[b]
      BY <1>1, <2>1, <2>3
    <3> HIDE DEF o
    <3>4. /\ p.state[b] = IF pool.state[b] = "Reserved" THEN "Committed" ELSE pool.state[b]
          /\ p.resv[b] = 0
          /\ p.holders[b] \subseteq Requests \cup {Index}
          /\ p.state[b] = "Committed" <=> p.holders[b] # {}
          /\ \A r \in Requests : r \in p.holders[b] <=> b \in ToSet(NewTable(r))
      BY <1>1
    <3> QED BY <2>6, <3>1, <3>2, <3>3, <3>4
  <2> QED BY <1>1, <2>6, <2>7, <2>8 DEF p
<1> QED BY <1>3, <1>4, KVCommitIs

\* An iteration commits what it reserved, and the first to have the prompt puts
\* it into the index.
LEMMA KVCommit == ASSUME KVInv, Commit PROVE KVInv'
<1>0. TypeOK /\ KVQueues /\ KVIdle /\ KVServed /\ KVAdmitted /\ KVPrefix /\ KVFeasible /\ Conserved /\ Refcounts
  BY DEF KVInv
<1>1. /\ pc \in {"execute", "commit"} /\ pc' = "release"
      /\ par' = par /\ it' = it /\ waiting' = waiting /\ failed' = failed
      /\ running' = InPlan /\ admitted' = << >>
      /\ req' = [r \in Requests |-> IF r \in ToSet(admitted)
                                    THEN [KVLives[r] EXCEPT !.status = "Running"]
                                    ELSE KVLives[r]]
  BY KVCommitIs
<1>2. /\ pool' \in Pool /\ pool'.free = pool.free /\ pool'.fill = KVCommittedPool.fill
      /\ PromptOf(pool', prefix')
      /\ \A b \in Blocks :
           /\ pool'.state[b] = IF pool.state[b] = "Reserved" THEN "Committed" ELSE pool.state[b]
           /\ pool'.resv[b] = 0
           /\ pool'.holders[b] \subseteq Requests \cup {Index}
           /\ Index \in pool'.holders[b] <=> b \in ToSet(prefix')
           /\ pool'.state[b] = "Committed" <=> pool'.holders[b] # {}
           /\ \A r \in Requests : r \in pool'.holders[b] <=> b \in ToSet(NewTable(r))
  BY KVCommitPool
<1>3. /\ InPlan \in Seq(Requests) /\ Apart(InPlan)
      /\ ToSet(InPlan) = ToSet(running) \cup ToSet(admitted)
      /\ \A r : r \in ToSet(InPlan) <=> InBatch(r)
      /\ ToSet(running) \cap ToSet(admitted) = {}
      /\ Apart(waiting) /\ ToSet(admitted) \cap ToSet(waiting) = {}
  BY <1>0, KVPlan
<1>4. /\ \A r : Counted(r)'
      /\ \A r : InBatch(r)' <=> InBatch(r)
      /\ Reserving /\ ~Reserving' /\ Planning /\ ~Planning'
  BY <1>1, <1>3, SetOfEmpty DEF Counted, InBatch, Reserving, Planning
<1>5. ASSUME NEW r \in Requests
      PROVE  /\ req'[r].status = (IF r \in ToSet(admitted) THEN "Running" ELSE req[r].status)
             /\ req'[r].table = NewTable(r)
             /\ req'[r].pending = << >>
             /\ InBatch(r) => req'[r].T = NewT(r) /\ req'[r].generated = req[r].generated + 1
             /\ ~InBatch(r) => req'[r].T = 0
             /\ req'[r] \in Live
  <2>1. /\ KVLives[r] \in Live /\ KVLives[r].table = NewTable(r)
        /\ KVLives[r].pending = << >>
        /\ KVLives[r].status = req[r].status
        /\ InBatch(r) => KVLives[r].T = NewT(r) /\ KVLives[r].generated = req[r].generated + 1
        /\ ~InBatch(r) => KVLives[r].T = 0
        /\ InBatch(r) => KVLives[r] = Committed(req[r])
    BY <1>4, KVLivesAre
  <2>2. CASE r \in ToSet(admitted)
    <3>1. InBatch(r)
      BY <2>2 DEF InBatch
    <3>2. req'[r] = RunningLive(req[r])
      BY <1>1, <2>1, <2>2, <3>1 DEF RunningLive
    <3>3. req[r] \in Live
      BY <1>0, KVRequest
    <3>4. /\ RunningLive(req[r]).status = "Running" /\ RunningLive(req[r]).generated = Committed(req[r]).generated
          /\ RunningLive(req[r]).T = Committed(req[r]).T /\ RunningLive(req[r]).table = Committed(req[r]).table
          /\ RunningLive(req[r]).pending = << >> /\ RunningLive(req[r]) \in Live
      BY <3>3, LiveCommitted
    <3> QED BY <2>1, <2>2, <3>1, <3>2, <3>4
  <2>3. CASE r \notin ToSet(admitted)
    <3>1. req'[r] = KVLives[r]
      BY <1>1, <2>3
    <3> QED BY <2>1, <2>3, <3>1
  <2> QED BY <2>2, <2>3
<1>6. req' = [r \in Requests |-> req'[r]]
  BY <1>1
<1>7. prefix' \in Seq(Blocks)
  BY <1>2 DEF PromptOf
<1>8. TypeOK'
  <2>1. it \in 1 .. MaxIter + 1 /\ it \in Nat /\ MaxIter \in Nat
    BY <1>0, KVUse, Zenon DEF TypeOK
  <2>2. 1 <= it /\ it <= MaxIter + 1 /\ pc' \in Places
    BY <1>1, <2>1 DEF Places
  <2>3. admitted' \in Seq(Requests) /\ running' \in Seq(Requests)
    BY <1>1, <1>3
  <2> QED BY <1>0, <1>1, <1>2, <1>5, <1>6, <1>7, <2>1, <2>2, <2>3, KVUse, KVTypeNext
<1>9. KVQueues'
  <2>1. ASSUME NEW r \in Requests
        PROVE  /\ req'[r].status = "Waiting" <=> r \in ToSet(admitted') \cup ToSet(waiting')
               /\ req'[r].status = "Running" <=> r \in ToSet(running')
               /\ req'[r].status = "Future"  <=> Arrival[r] >= KVRound
    <3>1. /\ req[r].status = "Waiting" <=> r \in ToSet(admitted) \cup ToSet(waiting)
          /\ req[r].status = "Running" <=> r \in ToSet(running)
          /\ req[r].status = "Future"  <=> Arrival[r] >= KVRound
      BY <1>0 DEF KVQueues
    <3>2. /\ r \in ToSet(running') <=> r \in ToSet(running) \/ r \in ToSet(admitted)
          /\ ~(r \in ToSet(running) /\ r \in ToSet(admitted))
          /\ ~(r \in ToSet(admitted) /\ r \in ToSet(waiting))
          /\ r \in ToSet(admitted') \cup ToSet(waiting') <=> r \in ToSet(waiting)
      BY <1>1, <1>3, SetOfEmpty
    <3> QED BY <1>5, <3>1, <3>2
  <2>2. KVRound' = KVRound
    BY <1>1 DEF KVRound
  <2>3. Requests' = Requests /\ Arrival' = Arrival
    BY <1>1, KVFixed, Zenon
  <2>4. pc' # "arrive" => it' <= MaxIter
    BY <1>0, <1>1 DEF KVQueues
  <2>5. admitted' \o waiting' = waiting /\ Rising(waiting, Arrival)
    <3> DEFINE R == Requests
               arr == Arrival
    <3>1. arr \in [R -> Nat] /\ Rising(admitted \o waiting, arr) /\ admitted \in Seq(R) /\ waiting \in Seq(R)
      BY <1>0, KVUse DEF KVQueues
    <3> HIDE DEF R, arr
    <3>2. Rising(waiting, arr)
      BY <3>1, RisingConcat
    <3> QED BY <1>1, <3>1, <3>2 DEF arr
  <2> QED BY <1>1, <1>3, <2>1, <2>2, <2>3, <2>4, <2>5 DEF KVQueues
<1>10. KVIdle'
  <2>1. Requests' = Requests
    BY <1>1, KVFixed, Zenon
  <2>2. ASSUME NEW r \in Requests
        PROVE  /\ ~InBatch(r) => req'[r].table = << >> /\ req'[r].T = 0
               /\ req'[r].pending = << >>
               /\ Apart(req'[r].table) /\ Apart(req'[r].pending)
    <3>1. Apart(NewTable(r)) /\ (~InBatch(r) => NewTable(r) = << >>)
      BY <1>4, KVNewTables
    <3>2. Apart(<< >>)
      BY DEF Apart
    <3> QED BY <1>5, <3>1, <3>2
  <2> QED BY <1>4, <2>1, <2>2, Zenon DEF KVIdle
<1>11. KVServed'
  <2>1. \A q : Prompt(q)' = Prompt(q)
    BY <1>1, KVFixed, Zenon
  <2>2. ASSUME NEW r \in ToSet(running')
        PROVE  /\ req'[r].generated > 0
               /\ req'[r].T = Prompt(r) + req'[r].generated - 1
               /\ Len(req'[r].table) = BlocksFor(req'[r].T)
               /\ \A i \in DOMAIN req'[r].table : pool'.fill[req'[r].table[i]] = Tokens(req'[r].T, i - 1)
    <3>1. r \in Requests /\ InBatch(r)
      <4>1. ToSet(InPlan) \subseteq Requests
        BY <1>3, SetOf
      <4> QED BY <1>1, <1>3, <2>2, <4>1
    <3>2. /\ req'[r].T = NewT(r) /\ req'[r].generated = req[r].generated + 1 /\ req'[r].table = NewTable(r)
          /\ req[r].generated \in Nat /\ Prompt(r) \in Nat
      BY <1>0, <1>5, <3>1, KVRequest
    <3>3. Len(NewTable(r)) = BlocksFor(NewT(r))
      BY <1>4, <3>1, KVNewTokens
    <3>4. \A i \in DOMAIN NewTable(r) : pool'.fill[NewTable(r)[i]] = Tokens(NewT(r), i - 1)
      BY <1>2, <1>4, <3>1, KVFilledBlocks
    <3>5. req'[r].generated > 0 /\ req'[r].T = Prompt(r) + req'[r].generated - 1
      <4> DEFINE g == req[r].generated
      <4>1. g \in Nat /\ Prompt(r) \in Nat /\ NewT(r) = Prompt(r) + g
        BY <3>2 DEF NewT
      <4>2. req'[r].generated = g + 1 /\ req'[r].T = NewT(r)
        BY <3>2
      <4> HIDE DEF g
      <4> QED BY <4>1, <4>2
    <3> QED BY <3>2, <3>3, <3>4, <3>5
  <2> QED BY <1>1, <1>4, <2>1, <2>2, ZenonT(40) DEF KVServed
<1>12. KVAdmitted' /\ KVFeasible'
  BY <1>1, SetOfEmpty DEF KVAdmitted, KVFeasible
<1>13. KVPrefix'
  <2>1. Requests' = Requests /\ Blocks' = Blocks /\ \A r : Shared(r)' = Shared(r)
    BY <1>1, KVFixed, Zenon
  <2>2. /\ prefix' # << >> => Len(prefix') = SysBlocks
        /\ Apart(prefix')
        /\ \A i \in DOMAIN prefix' : pool'.fill[prefix'[i]] = B
        /\ \A r \in Requests : \A i \in DOMAIN req'[r].table :
             \A j \in DOMAIN prefix' : req'[r].table[i] = prefix'[j] => i = j /\ Shared(r)
        /\ \A r, q \in Requests : \A b \in Blocks :
             r # q /\ b \in ToSet(req'[r].table) /\ b \in ToSet(req'[q].table) => b \in ToSet(prefix')
    BY <1>2, <1>5 DEF PromptOf
  <2> QED BY <2>1, <2>2 DEF KVPrefix
<1>14. Conserved'
  <2>1. ASSUME NEW b \in Blocks, NEW r \in Requests
        PROVE  pool'.resv[b] = r <=> b \in ToSet(req'[r].pending)
    BY <1>0, <1>2, <1>5, KVUse, SetOfEmpty
  <2>2. pool.free \in Seq(Blocks) /\ Apart(pool.free) /\ ToSet(pool.free) \subseteq Blocks
    <3>1. pool.free \in Seq(Blocks)
      BY <1>0, KVUse, PoolFields
    <3> QED BY <1>0, <3>1, SetOf DEF Conserved, Apart, IsInjective
  <2>3. ASSUME NEW b \in Blocks
        PROVE  /\ b \in ToSet(pool.free) <=> pool'.state[b] = "Free"
               /\ pool'.state[b] = "Reserved" <=> pool'.resv[b] # 0
    BY <1>0, <1>2, KVBlock
  <2>4. ToSet(pool'.free) = {b \in Blocks : pool'.state[b] = "Free"}
    BY <1>2, <2>2, <2>3
  <2> QED BY <1>1, <1>2, <2>1, <2>2, <2>3, <2>4, KVConservedNext
<1>15. Refcounts'
  <2>1. ASSUME NEW b \in Blocks
        PROVE  /\ pool'.holders[b] \subseteq Requests \cup {Index}
               /\ pool'.state[b] = "Committed" <=> pool'.holders[b] # {}
               /\ Index \in pool'.holders[b] <=> b \in ToSet(prefix')
               /\ \A r \in Requests : r \in pool'.holders[b] <=> Counted(r)' /\ b \in ToSet(req'[r].table)
    BY <1>2, <1>4, <1>5
  <2> QED BY <1>0, <1>1, <2>1, KVRefsNext
<1> QED BY <1>8, <1>9, <1>10, <1>11, <1>12, <1>13, <1>14, <1>15 DEF KVInv

\* KVInv holds first.
LEMMA KVStart == ASSUME Init PROVE KVInv
<1>1. /\ par \in Params /\ it = 1 /\ pc = "arrive"
      /\ pool = [state   |-> [b \in Blocks |-> "Free"],
                   holders |-> [b \in Blocks |-> {}],
                   resv    |-> [b \in Blocks |-> 0],
                   fill    |-> [b \in Blocks |-> 0],
                   free    |-> [i \in 1 .. par.N |-> i - 1]]
      /\ req = [r \in Requests |->
                    [status |-> "Future", T |-> 0, generated |-> 0,
                     table |-> << >>, pending |-> << >>, hit |-> FALSE,
                     s |-> 0, dq |-> 0]]
      /\ waiting = << >> /\ running = << >> /\ admitted = << >>
      /\ prefix = << >> /\ failed = FALSE
  BY DEF Init
<1>2. /\ B \in Nat /\ par.N \in Nat /\ Blocks = 0 .. par.N - 1 /\ Arrival \in [Requests -> Nat]
      /\ MaxIter \in Nat
  BY <1>1, KVParam
<1>3. ASSUME NEW r \in Requests
      PROVE  /\ req[r] \in Live /\ req[r].status = "Future" /\ req[r].T = 0 /\ req[r].table = << >>
             /\ req[r].pending = << >>
  <2> DEFINE l == [status |-> "Future", T |-> 0, generated |-> 0,
                     table |-> << >>, pending |-> << >>, hit |-> FALSE,
                     s |-> 0, dq |-> 0]
             Q == Seq(Blocks)
  <2>1. req[r] = l
    BY <1>1
  <2>2. << >> \in Q
    OBVIOUS
  <2> HIDE DEF Q
  <2>3. l \in [status: {"Future", "Waiting", "Running", "Finished", "Canceled"},
               T: Nat, generated: Nat, table: Q, pending: Q, hit: BOOLEAN, s: Nat, dq: Nat]
    BY <2>2
  <2>4. l \in Live
    BY <2>3 DEF Live, Q
  <2> QED BY <2>1, <2>4
<1>4. ToSet(running) = {} /\ ToSet(admitted) = {} /\ ToSet(waiting) = {} /\ ToSet(prefix) = {}
  BY <1>1, SetOfEmpty
<1> DEFINE q == [i \in 1 .. par.N |-> i - 1]
<1>5. q \in Seq(Blocks) /\ Apart(q) /\ ToSet(q) = Blocks
  <2>1. q \in Seq(Blocks) /\ Len(q) = par.N /\ DOMAIN q = 1 .. par.N
    BY <1>2
  <2>2. Apart(q)
    BY <1>2 DEF Apart
  <2>3. \A b \in Blocks : b + 1 \in 1 .. par.N /\ q[b + 1] = b
    BY <1>2
  <2> HIDE DEF q
  <2>4. \A b \in Blocks : b \in ToSet(q)
    BY <2>1, <2>3, Listed
  <2>5. ToSet(q) \subseteq Blocks
    BY <2>1, SetOf
  <2> QED BY <2>1, <2>2, <2>4, <2>5
<1> HIDE DEF q
<1>6. /\ pool \in Pool /\ pool.free = q
      /\ \A b \in Blocks : pool.state[b] = "Free" /\ pool.holders[b] = {} /\ pool.resv[b] = 0
  <2> DEFINE a == [Blocks -> {"Free", "Reserved", "Committed"}]
             h == [Blocks -> SUBSET (Requests \cup {Index})]
             v == [Blocks -> Requests \cup {0}]
             f == [Blocks -> 0 .. B]
             l == Seq(Blocks)
             as == [b \in Blocks |-> "Free"]
             hs == [b \in Blocks |-> {}]
             vs == [b \in Blocks |-> 0]
             fs == [b \in Blocks |-> 0]
  <2>1. as \in a /\ hs \in h /\ vs \in v /\ fs \in f /\ q \in l
    BY <1>2, <1>5
  <2>2. pool = [state |-> as, holders |-> hs, resv |-> vs, fill |-> fs, free |-> q]
    BY <1>1 DEF q
  <2>3. \A b \in Blocks : as[b] = "Free" /\ hs[b] = {} /\ vs[b] = 0
    OBVIOUS
  <2> HIDE DEF a, h, v, f, l, as, hs, vs, fs
  <2>4. pool \in [state: a, holders: h, resv: v, fill: f, free: l]
    BY <2>1, <2>2
  <2>5. pool.state = as /\ pool.holders = hs /\ pool.resv = vs /\ pool.free = q
    BY <2>2
  <2> QED BY <2>3, <2>4, <2>5 DEF Pool, a, h, v, f, l
<1>7. Apart(<< >>) /\ << >> \o << >> = << >> /\ \A arr : Rising(<< >>, arr)
  BY DEF Apart, Rising
<1>8. TypeOK
  <2> DEFINE L == Live
  <2>1. req \in [Requests -> L]
    <3>1. \A r \in Requests : req[r] \in L
      BY <1>3
    <3>2. req = [r \in Requests |-> req[r]]
      BY <1>1
    <3> HIDE DEF L
    <3> QED BY <3>1, <3>2
  <2>2. it \in 1 .. MaxIter + 1 /\ pc \in Places
    BY <1>1, <1>2 DEF Places
  <2>3. << >> \in Seq(Requests) /\ << >> \in Seq(Blocks)
    OBVIOUS
  <2> QED BY <1>1, <1>6, <2>1, <2>2, <2>3, Zenon DEF TypeOK
<1>9. KVQueues
  <2>1. ASSUME NEW r \in Requests PROVE req[r].status = "Future" /\ Arrival[r] >= KVRound
    <3>1. Arrival[r] = par.specs[r].arrival
      BY <1>8, KVRequest
    <3>2. par.specs[r].arrival \in Nat \ {0}
      <4>1. par \in Param
        BY <1>1, ParamsAssumption
      <4>2. par.specs \in Seq(Spec1)
        BY <4>1 DEF Param
      <4>3. par.specs[r] \in Spec1
        BY <4>2 DEF Requests
      <4> QED BY <4>3 DEF Spec1
    <3>3. KVRound = 1
      BY <1>1 DEF KVRound
    <3> QED BY <1>3, <3>1, <3>2, <3>3, SMTT(30)
  <2> QED BY <1>1, <1>4, <1>7, <2>1 DEF KVQueues
<1>10. ~Reserving
  BY <1>1 DEF Reserving
<1>11. KVIdle
  BY <1>3, <1>7, <1>10, Zenon DEF KVIdle
<1>12. KVServed /\ KVAdmitted /\ KVFeasible
  BY <1>1, <1>4 DEF KVServed, KVAdmitted, KVFeasible
<1>13. KVPrefix
  BY <1>1, <1>3, <1>7, SetOfEmpty DEF KVPrefix
<1>14. Conserved
  <2>1. IsInjective(pool.free)
    BY <1>5, <1>6 DEF IsInjective, Apart
  <2>2. ToSet(pool.free) = {b \in Blocks : pool.state[b] = "Free"}
    BY <1>5, <1>6
  <2>3. \A r \in Requests : r # 0 /\ ToSet(req[r].pending) = {}
    BY <1>3, <1>8, KVUse, SetOfEmpty
  <2> QED BY <1>6, <2>1, <2>2, <2>3 DEF Conserved
<1>15. Refcounts
  <2>1. \A r \in Requests : ToSet(req[r].table) = {}
    BY <1>3, SetOfEmpty
  <2> QED BY <1>4, <1>6, <2>1 DEF Refcounts
<1> QED BY <1>8, <1>9, <1>11, <1>12, <1>13, <1>14, <1>15 DEF KVInv

\* KVInv is about the variables it names.
LEMMA KVStay == ASSUME KVInv, UNCHANGED vars PROVE KVInv'
<1>1. /\ par' = par /\ it' = it /\ pc' = pc /\ pool' = pool /\ req' = req /\ waiting' = waiting
      /\ running' = running /\ admitted' = admitted /\ prefix' = prefix /\ failed' = failed
  BY DEF vars
<1>2. /\ TypeOK /\ KVQueues /\ KVIdle /\ KVServed /\ KVAdmitted /\ KVPrefix /\ KVFeasible
      /\ Conserved /\ Refcounts
  BY DEF KVInv
<1>3. /\ Requests' = Requests /\ Arrival' = Arrival /\ Blocks' = Blocks /\ Pool' = Pool /\ Live' = Live
      /\ Index' = Index /\ \A r : Prompt(r)' = Prompt(r) /\ Shared(r)' = Shared(r)
  BY <1>1, KVFixed, Zenon
<1>4. /\ KVRound' = KVRound /\ Reserving' = Reserving /\ Planning' = Planning
      /\ \A r : InBatch(r)' = InBatch(r) /\ DecodeDq(r)' = DecodeDq(r) /\ Counted(r)' = Counted(r)
      /\ PlanNeed' = PlanNeed
  BY <1>1, Zenon DEF KVRound, Reserving, Planning, InBatch, DecodeDq, Counted, PlanNeed, Need, InPlan
<1>5. TypeOK'
  BY <1>1, <1>2, <1>3, Zenon DEF TypeOK
<1>6. KVQueues'
  BY <1>1, <1>2, <1>3, <1>4, ZenonT(40) DEF KVQueues
<1>7. KVIdle'
  BY <1>1, <1>2, <1>3, <1>4, Zenon DEF KVIdle
<1>8. KVServed'
  BY <1>1, <1>2, <1>3, <1>4, ZenonT(40) DEF KVServed
<1>9. KVAdmitted'
  BY <1>1, <1>2, <1>3, Zenon DEF KVAdmitted
<1>10. KVPrefix'
  BY <1>1, <1>2, <1>3, KVPrefixSame
<1>11. KVFeasible'
  BY <1>1, <1>2, <1>4, Zenon DEF KVFeasible
<1>12. Conserved'
  BY <1>1, <1>2, KVConservedSame
<1>13. Refcounts'
  BY <1>1, <1>2, <1>4, KVRefsSame
<1> QED BY <1>5, <1>6, <1>7, <1>8, <1>9, <1>10, <1>11, <1>12, <1>13, ZenonT(40) DEF KVInv

\* What the invariant is for.
LEMMA KVFacts ==
  ASSUME KVInv PROVE Accounted /\ SharedBlocksFull /\ TokensHeld /\ PlanFeasible
<1>0. TypeOK /\ KVQueues /\ KVIdle /\ KVServed /\ KVAdmitted /\ KVPrefix /\ KVFeasible /\ Conserved /\ Refcounts
  BY DEF KVInv
<1>1. Accounted
  BY <1>0 DEF Accounted
<1>2. TokensHeld
  BY <1>0 DEF TokensHeld, KVServed, Prompt
<1>3. PlanFeasible
  BY <1>0 DEF PlanFeasible, KVFeasible, Free
<1>4. SharedBlocksFull
  <2>1. ASSUME NEW r \in Requests, NEW q \in Requests, NEW i \in DOMAIN req[r].table,
               NEW j \in DOMAIN req[q].table, r # q, req[r].table[i] = req[q].table[j]
        PROVE  i = j /\ i <= SysBlocks /\ pool.fill[req[r].table[i]] = B
    <3> DEFINE b == req[r].table[i]
    <3>1. req[r].table \in Seq(Blocks) /\ req[q].table \in Seq(Blocks)
      BY <1>0, KVRequest
    <3>2. b \in Blocks /\ b \in ToSet(req[r].table) /\ b \in ToSet(req[q].table)
      <4> DEFINE t == req[r].table
                 u == req[q].table
      <4>1. t \in Seq(Blocks) /\ u \in Seq(Blocks) /\ i \in 1 .. Len(t) /\ j \in 1 .. Len(u) /\ t[i] = u[j]
        BY <2>1, <3>1
      <4> HIDE DEF t, u
      <4>2. t[i] \in Blocks /\ t[i] \in ToSet(t) /\ t[i] \in ToSet(u)
        BY <4>1, Listed
      <4> QED BY <4>2 DEF t, u
    <3>3. b \in ToSet(prefix)
      BY <1>0, <2>1, <3>2 DEF KVPrefix
    <3>4. prefix \in Seq(Blocks)
      BY <1>0, KVUse
    <3>5. PICK k \in 1 .. Len(prefix) : prefix[k] = b
      BY <3>3, <3>4, Listed, SMTT(30)
    <3>6. k \in DOMAIN prefix /\ prefix # << >>
      BY <3>4, <3>5
    <3>7. i = k /\ j = k
      BY <1>0, <2>1, <3>5, <3>6 DEF KVPrefix
    <3>8. pool.fill[b] = B
      BY <1>0, <3>5, <3>6 DEF KVPrefix
    <3>9. k <= SysBlocks
      <4>1. Len(prefix) = SysBlocks
        BY <1>0, <3>6 DEF KVPrefix
      <4> QED BY <3>5, <4>1
    <3> QED BY <3>7, <3>8, <3>9
  <2> QED BY <2>1 DEF SharedBlocksFull
<1> QED BY <1>1, <1>2, <1>3, <1>4

\* Every action keeps KVInv.
LEMMA KVStep == ASSUME KVInv, Next PROVE KVInv'
<1>1. CASE Arrive            BY <1>1, KVArrive
<1>2. CASE DecodesFit        BY <1>2, KVDecodesFit
<1>3. CASE EvictForDecodes   BY <1>3, KVEvictForDecodes
<1>4. CASE Preempt           BY <1>4, KVPreempt
<1>5. CASE Admit             BY <1>5, KVAdmit
<1>6. CASE EvictForAdmission BY <1>6, KVEvictForAdmission
<1>7. CASE Planned           BY <1>7, KVPlanned
<1>8. CASE Reserve           BY <1>8, KVReserve
<1>9. CASE Rollback          BY <1>9, KVRollback
<1>10. CASE Cancel           BY <1>10, KVCancel
<1>11. CASE Commit           BY <1>11, KVCommit
<1>12. CASE Release          BY <1>12, KVRelease
<1> QED BY <1>1, <1>2, <1>3, <1>4, <1>5, <1>6, <1>7, <1>8, <1>9, <1>10, <1>11, <1>12 DEF Next

----------------------------------------------------------------------------
(* What both schedulers promise, see Serving.                              *)

Joined == {r \in Requests : req[r].status # "Future"}
Gone   == {r \in Requests : Over(r)}
Seats  == IF figure = "kv" THEN Count ELSE MAX_BATCH
Idlers == Joined \ (ToSet(InPlan) \cup Gone)

\* The operators of the library are the same under the instance.
LEMMA ServesLibrary ==
  /\ \A s : Serves!ToSet(s) = ToSet(s)
  /\ \A s, T : Serves!Kept(s, T) = Kept(s, T)
<1>1. \A s : Serves!ToSet(s) = ToSet(s)
  BY DEF Serves!ToSet, ToSet
<1>2. \A s, T : Serves!Kept(s, T) = Kept(s, T)
  BY Zenon DEF Serves!Kept, Kept, Serves!FlattenSeq, FlattenSeq
<1> QED BY <1>1, <1>2

\* Nobody joined, left or went: a stutter of the scheduler.
LEMMA ServesStutter ==
  ASSUME figure' = figure, par' = par,
         Scheduling => Joined' = Joined /\ InPlan' = InPlan /\ Gone' = Gone
  PROVE  UNCHANGED Serves!vars
BY DEF Serves!vars, Scheduling, Joined, InPlan, Gone, Over, Requests

\* Requests that join, none before one that arrived earlier, are a step of it.
LEMMA ServesJoin ==
  ASSUME Scheduling, figure' = figure, par' = par, InPlan' = InPlan, Gone' = Gone,
         NEW rs \in SUBSET (Requests \ Joined), rs # {}, Joined' = Joined \cup rs,
         \A r \in rs, q \in Requests :
           par.specs[q].arrival < par.specs[r].arrival => q \in Joined \cup rs
  PROVE  Serves!Next
<1>1. Serves!Join
  BY DEF Serves!Join, Serves!Requests, Scheduling, Joined, InPlan, Gone, Over, Requests
<1> QED BY <1>1 DEF Serves!Next, Requests, Scheduling


\* So is a request taken that none waiting arrived before.
LEMMA ServesServe ==
  ASSUME Scheduling, figure' = figure, par' = par, Joined' = Joined, Gone' = Gone,
         Len(InPlan) < Seats, NEW r \in Idlers, InPlan' = Append(InPlan, r),
         \A q \in Idlers : par.specs[r].arrival <= par.specs[q].arrival
  PROVE  Serves!Next
<1>1. Serves!Waiting = Idlers
  BY ServesLibrary DEF Serves!Waiting, Idlers, Scheduling, Joined, InPlan, Gone, Over, Requests
<1>2. Len(InPlan) < CASE figure = "kv" -> Len(par.specs) [] figure = "paged" -> MAX_BATCH [] OTHER -> 0
  BY DEF Seats, Scheduling, Count
<1>3. \A q \in Idlers : q \in Requests
  BY DEF Idlers, Joined
<1> HIDE DEF Idlers
<1>4. Serves!Serve
  BY <1>1, <1>2, <1>3 DEF Serves!Serve, Scheduling, Joined, InPlan, Gone, Over, Requests
<1> QED BY <1>4 DEF Serves!Next, Requests, Scheduling

\* So are the last taken, put back.
LEMMA ServesPutBack ==
  ASSUME Scheduling, figure' = figure, par' = par, Joined' = Joined, Gone' = Gone,
         NEW n \in 0 .. Len(InPlan) - 1, InPlan' = SubSeq(InPlan, 1, n)
  PROVE  Serves!Next
<1>1. Serves!PutBack
  BY DEF Serves!PutBack, Scheduling, Joined, InPlan, Gone, Over, Requests
<1> QED BY <1>1 DEF Serves!Next, Requests, Scheduling

\* So are requests of the batch that go.
LEMMA ServesLeave ==
  ASSUME Scheduling, figure' = figure, par' = par, Joined' = Joined,
         NEW rs \in SUBSET ToSet(InPlan), rs # {}, Gone' = Gone \cup rs,
         InPlan' = Kept(InPlan, Requests \ rs)
  PROVE  Serves!Next
<1>1. Serves!Requests = Requests
  BY DEF Serves!Requests, Scheduling
<1>2. Serves!Leave
  BY <1>1, ServesLibrary DEF Serves!Leave, Scheduling, Joined, InPlan, Gone, Over, Requests
<1> QED BY <1>2 DEF Serves!Next, Requests, Scheduling


\* The head of a queue in order of arrival arrived first.
LEMMA HeadFirst ==
  ASSUME NEW R, NEW w \in Seq(R), w # << >>, NEW arr \in [R -> Nat], Rising(w, arr)
  PROVE  \A q \in ToSet(w) : arr[Head(w)] <= arr[q]
<1>1. Head(w) = w[1] /\ Len(w) > 0 /\ Len(w) \in Nat
  BY HeadAndTail, LenProperties
<1>2. ASSUME NEW q \in ToSet(w) PROVE arr[Head(w)] <= arr[q]
  <2>1. PICK i \in 1 .. Len(w) : w[i] = q
    BY Listed
  <2>2. w[1] \in R /\ w[i] \in R /\ 1 \in 1 .. Len(w)
    BY <1>1, ElementOfSeq
  <2>3. arr[w[1]] \in Nat /\ arr[w[i]] \in Nat
    BY <2>2
  <2>4. 1 <= i => arr[w[1]] <= arr[w[i]]
    BY <2>2, <2>3 DEF Rising
  <2> QED BY <1>1, <2>1, <2>4
<1> QED BY <1>2

\* Distinct numbers up to n are at most n.
LEMMA ApartLen ==
  ASSUME NEW n \in Nat, NEW s \in Seq(1 .. n), Apart(s) PROVE Len(s) <= n
<1> DEFINE S == 1 .. Len(s)
           T == 1 .. n
<1>1. Len(s) \in Nat /\ \A i \in 1 .. Len(s) : s[i] \in 1 .. n
  BY LenProperties, ElementOfSeq
<1>2. IsFiniteSet(S) /\ Cardinality(S) = Len(s) /\ IsFiniteSet(T) /\ Cardinality(T) = n
  BY <1>1, CountTo
<1>3. ASSUME Len(s) > n PROVE FALSE
  <2>1. s \in [S -> T]
    <3>1. s = [i \in 1 .. Len(s) |-> s[i]]
      BY SeqDef, LenProperties
    <3> QED BY <1>1, <3>1
  <2>2. \A f \in [S -> T] : \E x, y \in S : x # y /\ f[x] = f[y]
    BY <1>1, <1>2, <1>3, FS_PigeonHole
  <2>3. PICK x \in S, y \in S : x # y /\ s[x] = s[y]
    BY <2>1, <2>2
  <2> QED BY <2>3 DEF Apart
<1> QED BY <1>1, <1>3

\* How the requests of the life of KV blocks are seen by the scheduler.
LEMMA KVStates ==
  ASSUME KVInv
  PROVE  /\ Idlers = ToSet(waiting) /\ Requests = 1 .. Count /\ Count \in Nat
         /\ InPlan \in Seq(Requests) /\ Apart(InPlan)
         /\ ToSet(InPlan) \subseteq Requests /\ ToSet(waiting) \subseteq Requests
         /\ waiting \in Seq(Requests) /\ Rising(waiting, Arrival)
         /\ Arrival \in [Requests -> Nat]
         /\ \A r \in Requests : Arrival[r] = par.specs[r].arrival
         /\ ToSet(waiting) \cap ToSet(InPlan) = {}
<1>0. TypeOK /\ KVQueues
  BY DEF KVInv
<1>1. /\ InPlan \in Seq(Requests) /\ Apart(InPlan)
      /\ ToSet(InPlan) = ToSet(running) \cup ToSet(admitted)
      /\ ToSet(admitted) \cap ToSet(waiting) = {}
  BY KVPlan, <1>0
<1>2. /\ ToSet(waiting) \subseteq Requests /\ ToSet(running) \subseteq Requests
      /\ ToSet(admitted) \subseteq Requests /\ waiting \in Seq(Requests) /\ admitted \in Seq(Requests)
      /\ Arrival \in [Requests -> Nat] /\ par \in Params
  BY <1>0, KVUse
<1>3. ASSUME NEW r \in Requests
      PROVE /\ r \in Idlers <=> r \in ToSet(waiting)
            /\ r \in ToSet(waiting) => r \notin ToSet(InPlan)
            /\ Arrival[r] = par.specs[r].arrival
  <2>1. /\ req[r].status \in {"Future", "Waiting", "Running", "Finished", "Canceled"}
        /\ Arrival[r] = par.specs[r].arrival
    BY <1>0, KVRequest
  <2>2. /\ req[r].status = "Waiting" <=> r \in ToSet(admitted) \cup ToSet(waiting)
        /\ req[r].status = "Running" <=> r \in ToSet(running)
    BY <1>0 DEF KVQueues
  <2> QED BY <1>1, <2>1, <2>2 DEF Idlers, Joined, Gone, Over
<1>4. Rising(waiting, Arrival)
  <2> DEFINE R == Requests
             arr == Arrival
  <2>1. arr \in [R -> Nat] /\ Rising(admitted \o waiting, arr) /\ admitted \in Seq(R) /\ waiting \in Seq(R)
    BY <1>0, <1>2 DEF KVQueues
  <2> HIDE DEF R, arr
  <2>2. Rising(waiting, arr)
    BY <2>1, RisingConcat
  <2> QED BY <2>2 DEF arr
<1>5. Idlers \subseteq Requests
  BY DEF Idlers, Joined
<1>6. Requests = 1 .. Count /\ Count \in Nat
  BY <1>2, KVParam
<1> QED BY <1>1, <1>2, <1>3, <1>4, <1>5, <1>6


\* Who joined and who went depends on the statuses.
LEMMA Statuses ==
  ASSUME Requests' = Requests, \A r \in Requests : req'[r].status = req[r].status
  PROVE  Joined' = Joined /\ Gone' = Gone
BY DEF Joined, Gone, Over

\* Arrivals join.
LEMMA KVServesArrive ==
  ASSUME KVInv, Arrive, figure = "kv", figure' = figure
  PROVE  Serves!Next \/ UNCHANGED Serves!vars
<1> DEFINE rs == ToSet(Arriving)
           here == [r \in Requests |-> IF r \in rs THEN [req[r] EXCEPT !.status = "Waiting"] ELSE req[r]]
           there == [r \in Requests |-> [here[r] EXCEPT !.s = 0, !.dq = 0, !.hit = FALSE]]
<1>0. TypeOK /\ KVQueues
  BY DEF KVInv
<1>1. pc = "arrive" /\ par' = par /\ running' = running /\ admitted' = admitted
  BY Zenon DEF Arrive
<1>2. req' = here \/ req' = there
  BY Zenon DEF Arrive
<1>3. /\ \A r \in Requests : r \in rs <=> Arrival[r] = it
      /\ \A r \in rs : r \in Requests /\ req[r].status = "Future"
  BY <1>0, <1>1, KVArrivals
<1> HIDE DEF rs
<1>4. ASSUME NEW r \in Requests
      PROVE  /\ req'[r].status = IF r \in rs THEN "Waiting" ELSE req[r].status
             /\ req[r].status = "Future" <=> Arrival[r] >= it
             /\ Arrival[r] = par.specs[r].arrival /\ Arrival[r] \in Nat /\ it \in Nat
             /\ req[r].status \in {"Future", "Waiting", "Running", "Finished", "Canceled"}
  <2>1. req[r] \in Live /\ Arrival[r] = par.specs[r].arrival /\ Arrival[r] \in Nat
        /\ req[r].status \in {"Future", "Waiting", "Running", "Finished", "Canceled"}
    BY <1>0, KVRequest
  <2>2. here[r] = IF r \in rs THEN [req[r] EXCEPT !.status = "Waiting"] ELSE req[r]
    OBVIOUS
  <2> HIDE DEF here
  <2>3. here[r].status = (IF r \in rs THEN "Waiting" ELSE req[r].status)
    BY <2>1, <2>2 DEF Live
  <2>4. there[r].status = here[r].status
    <3>1. there[r] = [here[r] EXCEPT !.s = 0, !.dq = 0, !.hit = FALSE]
      OBVIOUS
    <3> HIDE DEF there
    <3>2. "status" \in DOMAIN here[r]
      BY <2>1, <2>2 DEF Live
    <3> QED BY <3>1, <3>2
  <2> HIDE DEF there
  <2>5. req[r].status = "Future" <=> Arrival[r] >= it
    BY <1>0, <1>1 DEF KVQueues, KVRound
  <2>6. it \in Nat
    BY <1>0, KVUse
  <2> QED BY <1>2, <2>1, <2>3, <2>4, <2>5, <2>6
<1> HIDE DEF here, there
<1>5. Requests' = Requests /\ Scheduling /\ InPlan' = InPlan
  BY <1>1 DEF Requests, Scheduling, InPlan
<1>6. Gone' = Gone
  BY <1>3, <1>4, <1>5 DEF Gone, Over
<1>7. Joined' = Joined \cup rs /\ rs \subseteq Requests \ Joined
  BY <1>3, <1>4, <1>5 DEF Joined
<1>8. \A r \in rs, q \in Requests :
        par.specs[q].arrival < par.specs[r].arrival => q \in Joined \cup rs
  BY <1>3, <1>4 DEF Joined
<1>9. CASE rs = {}
  BY <1>1, <1>5, <1>6, <1>7, <1>9, ServesStutter
<1>10. CASE rs # {}
  BY <1>1, <1>5, <1>6, <1>7, <1>8, <1>10, ServesJoin
<1> QED BY <1>9, <1>10

\* An admission takes the one who waits longest.
LEMMA KVServesAdmit ==
  ASSUME KVInv, Admit, figure = "kv", figure' = figure
  PROVE  Serves!Next
<1> DEFINE r == Head(waiting)
<1>1. /\ waiting # << >> /\ par' = par /\ running' = running /\ admitted' = Append(admitted, r)
      /\ req' = [req EXCEPT ![r].hit = Hit(r), ![r].T = Start(r),
                        ![r].s = Target(r) - Start(r), ![r].dq = AdmitDq(r),
                        ![r].table = IF Hit(r) THEN prefix ELSE @]
  BY ZenonT(40) DEF Admit
<1>2. TypeOK /\ admitted \in Seq(Requests) /\ running \in Seq(Requests)
  BY KVUse DEF KVInv
<1>3. r \in ToSet(waiting) /\ \A q \in ToSet(waiting) : Arrival[r] <= Arrival[q]
  BY <1>1, KVStates, HeadFirst, HeadAndTail
<1>4. r \in Requests /\ r \in Idlers
      /\ \A q \in Idlers : par.specs[r].arrival <= par.specs[q].arrival
  BY <1>3, KVStates
<1> HIDE DEF r
<1>5. \A q \in Requests : req'[q].status = req[q].status
  <2>1. req \in [Requests -> Live]
    BY <1>2, KVUse
  <2> QED BY <1>1, <1>4, <2>1, SMTT(30) DEF Live
<1>6. Requests' = Requests /\ Scheduling
  BY <1>1 DEF Requests, Scheduling
<1>7. InPlan' = Append(InPlan, r)
  <2> DEFINE R == Requests
  <2>1. running \in Seq(R) /\ admitted \in Seq(R) /\ r \in R
    BY <1>2, <1>4
  <2> HIDE DEF R
  <2>2. running \o Append(admitted, r) = Append(running \o admitted, r)
    BY <2>1, ConcatProperties, AppendIsConcat, ConcatAssociative
  <2> QED BY <1>1, <2>2 DEF InPlan
<1>8. Len(InPlan) < Seats
  <2> DEFINE s == Append(InPlan, r)
             p == InPlan
  <2>1. p \in Seq(1 .. Count) /\ Apart(p) /\ r \notin ToSet(p) /\ Count \in Nat /\ r \in 1 .. Count
    BY <1>3, <1>4, KVStates
  <2> HIDE DEF p
  <2>2. Append(p, r) \in Seq(1 .. Count) /\ Apart(Append(p, r)) /\ Len(Append(p, r)) = Len(p) + 1
        /\ Len(p) \in Nat
    BY <2>1, ApartAppend, AppendProperties, LenProperties
  <2>3. Len(Append(p, r)) <= Count
    BY <2>1, <2>2, ApartLen
  <2> QED BY <2>1, <2>2, <2>3 DEF Seats, p
<1>9. Joined' = Joined /\ Gone' = Gone
  BY <1>5, <1>6, Statuses
<1> QED BY <1>1, <1>4, <1>6, <1>7, <1>8, <1>9, ServesServe


\* The first part of two lists in a row.
LEMMA CutConcat ==
  ASSUME NEW R, NEW s \in Seq(R), NEW t \in Seq(R)
  PROVE  SubSeq(s \o t, 1, Len(s)) = s
<1> DEFINE c == s \o t
           k == Len(s)
           h == SubSeq(c, 1, k)
<1>1. /\ c \in Seq(R) /\ Len(c) = Len(s) + Len(t) /\ Len(s) \in Nat /\ Len(t) \in Nat
      /\ \A i \in 1 .. Len(c) : c[i] = IF i <= Len(s) THEN s[i] ELSE t[i - Len(s)]
  BY ConcatProperties, LenProperties
<1>2. k \in 0 .. Len(c)
  BY <1>1
<1> HIDE DEF c, k
<1>3. h \in Seq(R) /\ Len(h) = k /\ \A i \in 1 .. k : h[i] = c[i]
  BY <1>1, <1>2, HeadAndRest
<1> HIDE DEF h
<1>4. \A i \in 1 .. k : h[i] = s[i]
  BY <1>1, <1>2, <1>3 DEF k
<1>5. h = s
  BY <1>3, <1>4, SeqEqual DEF k
<1> QED BY <1>5 DEF h, c, k

\* Decodes that do not fit are of somebody.
LEMMA KVCrowded ==
  ASSUME TypeOK, DecodeNeed > Len(pool.free) PROVE running # << >> /\ running \in Seq(Requests)
<1>1. Len(pool.free) \in Nat
  BY KVUse, PoolFields
<1>2. ASSUME running = << >> PROVE FALSE
  <2>1. DecodeNeed = Total([i \in DOMAIN running |-> DecodeDq(running[i])])
    BY Zenon DEF DecodeNeed
  <2>2. [i \in DOMAIN running |-> DecodeDq(running[i])] = << >>
    BY <1>2
  <2>3. Total(<< >>) = 0
    <3>1. << >> \in Seq(Int) /\ Len(<< >>) = 0
      OBVIOUS
    <3> QED BY <3>1, TotalEmpty, Zenon
  <2> QED BY <1>1, <2>1, <2>2, <2>3
<1> QED BY <1>2, KVUse

\* A preemption puts back the last taken.
LEMMA KVServesPreempt ==
  ASSUME KVInv, Preempt, figure = "kv", figure' = figure
  PROVE  Serves!Next
<1> DEFINE v == Last(running)
<1>0. TypeOK /\ KVQueues
  BY DEF KVInv
<1>1. /\ pc = "plan" /\ DecodeNeed > Len(pool.free)
      /\ running' = Front(running) /\ par' = par /\ admitted' = admitted
      /\ req' = [req EXCEPT ![v] = Stripped(@, "Waiting")]
  BY Zenon DEF Preempt, Free
<1>2. running # << >> /\ running \in Seq(Requests)
  BY <1>0, <1>1, KVCrowded
<1>3. /\ Front(running) \in Seq(Requests) /\ v \in Requests /\ running = Append(Front(running), v)
      /\ Len(running) > 0 /\ Len(running) \in Nat
  BY <1>2, FrontAndLast, LenProperties
<1>4. v \in ToSet(running)
  <2> DEFINE f == Front(running)
  <2>1. f \in Seq(Requests)
    BY <1>3
  <2> HIDE DEF f, v
  <2>2. ToSet(Append(f, v)) = ToSet(f) \cup {v}
    BY <1>3, <2>1, SetOfAppend
  <2> QED BY <1>3, <2>2 DEF f
<1> HIDE DEF v
<1>5. req[v].status = "Running" /\ req \in [Requests -> Live]
  BY <1>0, <1>3, <1>4, KVUse DEF KVQueues
<1>6. ASSUME NEW r \in Requests
      PROVE  req'[r].status = (IF r = v THEN "Waiting" ELSE req[r].status)
  BY <1>1, <1>3, <1>5 DEF Live, Stripped
<1>7. Requests' = Requests /\ Scheduling
  BY <1>1 DEF Requests, Scheduling
<1>8. Joined' = Joined /\ Gone' = Gone
  BY <1>5, <1>6, <1>7 DEF Joined, Gone, Over
<1>9. InPlan = running /\ InPlan' = Front(running)
  <2>1. admitted = << >>
    BY <1>0, <1>1 DEF KVQueues
  <2> QED BY <1>1, <1>2, <1>3, <2>1, ConcatEmptySeq DEF InPlan
<1>10. Front(running) = SubSeq(running, 1, Len(running) - 1)
  BY DEF Front
<1> QED BY <1>1, <1>3, <1>7, <1>8, <1>9, <1>10, ServesPutBack, SMTT(30)

\* A failed iteration puts back those it had admitted.
LEMMA KVServesRollback ==
  ASSUME KVInv, Rollback, figure = "kv", figure' = figure
  PROVE  Serves!Next \/ UNCHANGED Serves!vars
<1>0. TypeOK
  BY DEF KVInv
<1>1. par' = par /\ running' = running /\ admitted' = << >>
  BY Zenon DEF Rollback
<1>2. req' = [r \in Requests |-> IF r \in ToSet(InPlan) THEN Unplanned(req[r]) ELSE req[r]]
  BY Zenon DEF Rollback
<1>3. ASSUME NEW r \in Requests PROVE req'[r].status = req[r].status
  <2>1. req[r] \in Live
    BY <1>0, KVRequest
  <2> QED BY <1>2, <2>1, LiveUnplanned
<1>4. Requests' = Requests /\ Scheduling
  BY <1>1 DEF Requests, Scheduling
<1>5. Joined' = Joined /\ Gone' = Gone
  BY <1>3, <1>4, Statuses
<1>6. /\ running \in Seq(Requests) /\ admitted \in Seq(Requests)
      /\ Len(running) \in Nat /\ Len(admitted) \in Nat
  BY <1>0, KVUse, LenProperties
<1> DEFINE R == Requests
<1>7. running \in Seq(R) /\ admitted \in Seq(R)
  BY <1>6
<1> HIDE DEF R
<1>8. InPlan' = running /\ InPlan = running \o admitted /\ Len(InPlan) = Len(running) + Len(admitted)
      /\ SubSeq(InPlan, 1, Len(running)) = running
  BY <1>1, <1>7, ConcatEmptySeq, ConcatProperties, CutConcat DEF InPlan
<1>9. CASE admitted = << >>
  BY <1>1, <1>4, <1>5, <1>7, <1>8, <1>9, ServesStutter, ConcatEmptySeq
<1>10. CASE admitted # << >>
  <2>1. Len(admitted) > 0
    BY <1>6, <1>10, EmptySeq
  <2>2. Len(running) \in 0 .. Len(InPlan) - 1
    BY <1>6, <1>8, <2>1
  <2> QED BY <1>1, <1>4, <1>5, <1>8, <2>2, ServesPutBack, ZenonT(40)
<1> QED BY <1>9, <1>10


\* Planning and reserving are no steps of the scheduler.
LEMMA KVServesQuiet ==
  ASSUME KVInv, DecodesFit \/ EvictForDecodes \/ EvictForAdmission \/ Planned \/ Reserve,
         figure = "kv", figure' = figure
  PROVE  UNCHANGED Serves!vars
<1>0. TypeOK
  BY DEF KVInv
<1>1. par' = par /\ running' = running /\ admitted' = admitted
  BY Zenon DEF DecodesFit, EvictForDecodes, EvictForAdmission, Planned, Reserve
<1>2. ASSUME NEW r \in Requests PROVE req'[r].status = req[r].status
  <2>1. req[r] \in Live
    BY <1>0, KVRequest
  <2>2. CASE DecodesFit
    <3>1. req' = [q \in Requests |-> IF q \in ToSet(running)
                                THEN [req[q] EXCEPT !.s = 1, !.dq = DecodeDq(q)] ELSE req[q]]
      BY <2>2, Zenon DEF DecodesFit
    <3> QED BY <2>1, <3>1 DEF Live
  <2>3. CASE Reserve
    <3>1. req' = [q \in Requests |-> LET i == SelectInSeq(InPlan, LAMBDA p : p = q)
                                     IN  IF i = 0 THEN req[q] ELSE [req[q] EXCEPT !.pending = Taken(i)]]
      BY <2>3, Zenon DEF Reserve
    <3> DEFINE i == SelectInSeq(InPlan, LAMBDA p : p = r)
    <3>2. req'[r] = IF i = 0 THEN req[r] ELSE [req[r] EXCEPT !.pending = Taken(i)]
      BY <3>1
    <3> HIDE DEF i
    <3> QED BY <2>1, <3>2 DEF Live
  <2>4. CASE EvictForDecodes \/ EvictForAdmission \/ Planned
    BY <2>4, Zenon DEF EvictForDecodes, EvictForAdmission, Planned
  <2> QED BY <2>2, <2>3, <2>4
<1>3. Requests' = Requests /\ InPlan' = InPlan
  BY <1>1 DEF Requests, InPlan
<1>4. Joined' = Joined /\ Gone' = Gone
  BY <1>2, <1>3, Statuses
<1> QED BY <1>1, <1>3, <1>4, ServesStutter

\* Nor is a commit.
LEMMA KVServesCommit ==
  ASSUME KVInv, Commit, figure = "kv", figure' = figure
  PROVE  UNCHANGED Serves!vars
<1>0. TypeOK /\ KVQueues
  BY DEF KVInv
<1>1. /\ pc \in {"execute", "commit"} /\ par' = par /\ running' = InPlan /\ admitted' = << >>
      /\ req' = [r \in Requests |-> IF r \in ToSet(admitted)
                                    THEN [KVLives[r] EXCEPT !.status = "Running"]
                                    ELSE KVLives[r]]
  BY KVCommitIs
<1>2. ASSUME NEW r \in Requests
      PROVE  req'[r].status = (IF r \in ToSet(admitted) THEN "Running" ELSE req[r].status)
  <2>1. KVLives[r] \in Live /\ KVLives[r].status = req[r].status
    BY <1>1, KVLivesAre DEF Reserving
  <2> QED BY <1>1, <2>1 DEF Live
<1>3. \A r \in Requests : r \in ToSet(admitted) => req[r].status = "Waiting"
  BY <1>0 DEF KVQueues
<1>4. Requests' = Requests /\ InPlan' = InPlan
  <2>1. InPlan \o << >> = InPlan
    BY KVStates, ConcatEmptySeq
  <2>2. InPlan' = running' \o admitted'
    BY DEF InPlan
  <2> QED BY <1>1, <2>1, <2>2 DEF Requests
<1>5. Joined' = Joined /\ Gone' = Gone
  BY <1>2, <1>3, <1>4 DEF Joined, Gone, Over
<1> QED BY <1>1, <1>4, <1>5, ServesStutter

\* A canceled request leaves.
LEMMA KVServesCancel ==
  ASSUME KVInv, Cancel, figure = "kv", figure' = figure
  PROVE  Serves!Next
<1> DEFINE v == par.fault.at
           R == Requests
<1>0. TypeOK /\ KVQueues
  BY DEF KVInv
<1>1. /\ v \in ToSet(admitted) /\ par' = par /\ running' = running
      /\ admitted' = Kept(admitted, Requests \ {v})
      /\ req' = [req EXCEPT ![v] = CanceledLive(@)]
  BY Zenon DEF Cancel, Cancels, CanceledLive
<1> HIDE DEF v
<1>2. /\ running \in Seq(R) /\ admitted \in Seq(R) /\ ToSet(running) \subseteq R
      /\ v \in R /\ req \in [Requests -> Live]
  BY <1>0, <1>1, KVUse
<1>3. v \notin ToSet(running) /\ ToSet(InPlan) = ToSet(running) \cup ToSet(admitted)
  BY <1>0, <1>1, KVPlan
<1>4. req[v].status = "Waiting"
  BY <1>0, <1>1, <1>2 DEF KVQueues
<1>5. ASSUME NEW r \in Requests
      PROVE  req'[r].status = (IF r = v THEN "Canceled" ELSE req[r].status)
  <2>1. req[r] \in Live
    BY <1>2
  <2> QED BY <1>1, <1>2, <2>1, LiveCanceled
<1>6. InPlan' = Kept(InPlan, Requests \ {v})
  <2> DEFINE T == R \ {v}
  <2>1. ToSet(running) \subseteq T
    BY <1>2, <1>3
  <2> HIDE DEF R, T
  <2>2. Kept(running \o admitted, T) = Kept(running, T) \o Kept(admitted, T)
    BY <1>2, KeptConcat
  <2>3. Kept(running, T) = running
    BY <1>2, <2>1, KeptAll
  <2>4. running' \o admitted' = running \o Kept(admitted, T)
    BY <1>1 DEF R, T
  <2> QED BY <2>2, <2>3, <2>4 DEF InPlan, R, T
<1>7. Requests' = Requests /\ Scheduling
  BY <1>1 DEF Requests, Scheduling
<1>8. Joined' = Joined /\ Gone' = Gone \cup {v}
  BY <1>2, <1>4, <1>5, <1>7 DEF Joined, Gone, Over
<1>9. {v} \in SUBSET ToSet(InPlan) /\ {v} # {}
  BY <1>1, <1>3
<1> QED BY <1>1, <1>6, <1>7, <1>8, <1>9, ServesLeave

\* So do those that are finished.
LEMMA KVServesRelease ==
  ASSUME KVInv, Release, figure = "kv", figure' = figure
  PROVE  Serves!Next \/ UNCHANGED Serves!vars
<1> DEFINE R == Requests
           D == {r \in Requests : Finished(r)}
           rs == ToSet(KVDone)
<1>0. TypeOK /\ KVQueues
  BY DEF KVInv
<1>1. /\ pc = "release" /\ par' = par /\ admitted' = admitted
      /\ running' = Kept(running, {r \in Requests : ~Finished(r)})
      /\ req' = [r \in Requests |-> IF r \in rs THEN Stripped(req[r], "Finished") ELSE req[r]]
  BY Zenon DEF Release, KVDone
<1>2. running \in Seq(R) /\ ToSet(running) \subseteq R
  BY <1>0, KVUse
<1>3. rs = ToSet(running) \cap D
  <2>1. KVDone = Kept(running, D)
    BY DEF KVDone
  <2> HIDE DEF D, R
  <2> QED BY <1>2, <2>1, KeptSet
<1>4. \A r \in rs : r \in Requests /\ req[r].status = "Running"
  BY <1>0, <1>2, <1>3 DEF KVQueues
<1>5. ASSUME NEW r \in Requests
      PROVE  req'[r].status = (IF r \in rs THEN "Finished" ELSE req[r].status)
  <2>1. req[r] \in Live
    BY <1>0, KVRequest
  <2> HIDE DEF rs
  <2> QED BY <1>1, <2>1, LiveStripped
<1>6. InPlan = running /\ InPlan' = Kept(running, {r \in Requests : ~Finished(r)})
  <2>1. admitted = << >>
    BY <1>0, <1>1 DEF KVQueues
  <2> DEFINE T == {r \in Requests : ~Finished(r)}
  <2>2. Kept(running, T) \in Seq(R)
    <3> HIDE DEF R, T
    <3> QED BY <1>2, KeptPlaces
  <2> HIDE DEF R
  <2>3. Kept(running, T) \o << >> = Kept(running, T) /\ running \o << >> = running
    <3> HIDE DEF T
    <3> QED BY <1>2, <2>2, ConcatEmptySeq
  <2> QED BY <1>1, <2>1, <2>3 DEF InPlan
<1>7. Requests' = Requests /\ Scheduling
  BY <1>1 DEF Requests, Scheduling
<1>8. Joined' = Joined /\ Gone' = Gone \cup rs
  BY <1>4, <1>5, <1>7 DEF Joined, Gone, Over
<1>9. CASE rs = {}
  <2>1. InPlan' = InPlan
    <3> DEFINE T == {r \in Requests : ~Finished(r)}
    <3>1. ToSet(running) \subseteq T
      BY <1>2, <1>3, <1>9
    <3> HIDE DEF T, R
    <3>2. Kept(running, T) = running
      BY <1>2, <3>1, KeptAll
    <3> QED BY <1>6, <3>2 DEF T
  <2> QED BY <1>1, <1>7, <1>8, <1>9, <2>1, ServesStutter
<1>10. CASE rs # {}
  <2>1. Kept(running, {r \in Requests : ~Finished(r)}) = Kept(running, Requests \ rs)
    <3> DEFINE T == {r \in Requests : ~Finished(r)}
               U == Requests \ rs
    <3>1. \A e \in ToSet(running) : e \in T <=> e \in U
      BY <1>2, <1>3
    <3> HIDE DEF T, U, R
    <3>2. Kept(running, T) = Kept(running, U)
      BY <1>2, <3>1, KeptSame
    <3> QED BY <3>2 DEF T, U
  <2>2. rs \in SUBSET ToSet(InPlan)
    BY <1>3, <1>6
  <2> HIDE DEF rs, D, R
  <2> QED BY <1>1, <1>6, <1>7, <1>8, <1>10, <2>1, <2>2, ServesLeave
<1> QED BY <1>9, <1>10

\* Every step of the figure is one of the scheduler or none.
LEMMA KVServes ==
  ASSUME KVInv, Next, figure = "kv", figure' = figure
  PROVE  Serves!Next \/ UNCHANGED Serves!vars
BY KVServesArrive, KVServesAdmit, KVServesPreempt, KVServesRollback, KVServesQuiet,
   KVServesCommit, KVServesCancel, KVServesRelease, ZenonT(40) DEF Next


\* How the requests of paged batching are seen by the scheduler.
LEMMA PagedStates ==
  ASSUME PagedInv
  PROVE  /\ Idlers = ToSet(waiting) /\ Requests = 1 .. Count /\ Count \in Nat
         /\ InPlan \in Seq(Requests) /\ Apart(InPlan)
         /\ ToSet(InPlan) = ToSet(running) \cup ToSet(admitted)
         /\ waiting \in Seq(Requests) /\ Rising(waiting, Arrival)
         /\ Arrival \in [Requests -> Nat]
         /\ \A r \in Requests : Arrival[r] = par.specs[r].arrival /\ Arrival[r] \in Nat
<1>1. Requests = 1 .. Count
  BY PagedUse DEF Requests, Paged!Requests
<1>2. /\ Apart(waiting) /\ Apart(running \o admitted) /\ Rising(waiting, Arrival)
      /\ \A r \in 1 .. Count :
           /\ req[r].status = "Waiting" <=> r \in ToSet(waiting)
           /\ req[r].status = "Running" <=> r \in ToSet(running) \cup ToSet(admitted)
  BY DEF PagedInv, PagedQueues
<1> DEFINE R == 1 .. Count
<1>3. waiting \in Seq(R) /\ running \in Seq(R) /\ admitted \in Seq(R) /\ ToSet(waiting) \subseteq R
  BY PagedUse
<1> HIDE DEF R
<1>4. InPlan \in Seq(R) /\ ToSet(InPlan) = ToSet(running) \cup ToSet(admitted)
  BY <1>3, ConcatProperties, SetOfConcat DEF InPlan
<1>5. ASSUME NEW r \in R
      PROVE  /\ r \in Idlers <=> r \in ToSet(waiting)
             /\ Arrival[r] = par.specs[r].arrival /\ Arrival[r] \in Nat
  <2>1. /\ req[r].status \in {"Future", "Waiting", "Running", "Finished"}
        /\ Arrival[r] = Arrives(r) /\ Arrives(r) \in Nat
    BY <1>5, PagedUse DEF R
  <2> QED BY <1>1, <1>2, <1>4, <2>1 DEF Idlers, Joined, Gone, Over, Arrives, R
<1>6. Idlers \subseteq R
  BY <1>1 DEF Idlers, Joined, R
<1>7. Arrival \in [R -> Nat] /\ Count \in Nat
  BY PagedUse DEF R
<1>8. Apart(InPlan)
  BY <1>2 DEF InPlan
<1>9. R = Requests
  BY <1>1 DEF R
<1> QED BY <1>1, <1>2, <1>3, <1>4, <1>5, <1>6, <1>7, <1>8, <1>9

\* Arrivals join.
LEMMA PagedServesArrive ==
  ASSUME PagedInv, Paged!Arrive, figure = "paged", figure' = figure
  PROVE  Serves!Next \/ UNCHANGED Serves!vars
<1> DEFINE rs == ToSet(Paged!Arriving)
<1>1. /\ pc = "arrive"
      /\ req' = [r \in 1 .. Count |->
           IF r \in rs THEN [req[r] EXCEPT !.status = "Waiting"] ELSE req[r]]
      /\ par' = par /\ running' = running /\ admitted' = admitted
  BY PagedUse, PagedLibrary DEF Paged!Arrive
<1>2. /\ \A r \in 1 .. Count : /\ r \in rs <=> Arrival[r] = it
                               /\ r \in rs => req[r].status = "Future"
      /\ rs \subseteq 1 .. Count
  BY <1>1, PagedArrivals
<1> HIDE DEF rs
<1>3. Requests = 1 .. Count
  BY PagedStates
<1>4. ASSUME NEW r \in Requests
      PROVE  /\ req'[r].status = IF r \in rs THEN "Waiting" ELSE req[r].status
             /\ req[r].status = "Future" <=> Arrival[r] >= it
             /\ Arrival[r] = par.specs[r].arrival /\ Arrival[r] \in Nat /\ it \in Nat
             /\ req[r].status \in {"Future", "Waiting", "Running", "Finished"}
  <2>1. req[r] \in PagedLive /\ Arrival[r] = par.specs[r].arrival /\ Arrival[r] \in Nat /\ it \in Nat
        /\ req[r].status \in {"Future", "Waiting", "Running", "Finished"}
    BY <1>3, PagedUse, PagedStates
  <2>2. req'[r] = IF r \in rs THEN [req[r] EXCEPT !.status = "Waiting"] ELSE req[r]
    BY <1>1, <1>3
  <2>3. req'[r].status = IF r \in rs THEN "Waiting" ELSE req[r].status
    BY <2>1, <2>2 DEF PagedLive
  <2>4. req[r].status = "Future" <=> Arrival[r] >= it
    BY <1>1, <1>3 DEF PagedInv, PagedQueues, PagedRound
  <2> QED BY <2>1, <2>3, <2>4
<1>5. Requests' = Requests /\ Scheduling /\ InPlan' = InPlan
  BY <1>1 DEF Requests, Scheduling, InPlan
<1>6. Gone' = Gone
  BY <1>2, <1>3, <1>4, <1>5 DEF Gone, Over
<1>7. Joined' = Joined \cup rs /\ rs \subseteq Requests \ Joined
  BY <1>2, <1>3, <1>4, <1>5 DEF Joined
<1>8. \A r \in rs, q \in Requests :
        par.specs[q].arrival < par.specs[r].arrival => q \in Joined \cup rs
  BY <1>2, <1>3, <1>4 DEF Joined
<1>9. CASE rs = {}
  BY <1>1, <1>5, <1>6, <1>7, <1>9, ServesStutter
<1>10. CASE rs # {}
  BY <1>1, <1>5, <1>6, <1>7, <1>8, <1>10, ServesJoin
<1> QED BY <1>9, <1>10

\* An admission takes the one who waits longest.
LEMMA PagedServesAdmit ==
  ASSUME PagedInv, Paged!Admit, figure = "paged", figure' = figure
  PROVE  Serves!Next
<1> DEFINE r == Head(waiting)
           g == Paged!Got(r)
<1>1. /\ waiting # << >> /\ par' = par /\ running' = running /\ admitted' = Append(admitted, r)
      /\ req' = [req EXCEPT ![r].status = "Running", ![r].table = g]
      /\ Len(running \o admitted) < MAX_BATCH
  BY DEF Paged!Admit, Paged!Room
<1>2. r \in ToSet(waiting) /\ \A q \in ToSet(waiting) : Arrival[r] <= Arrival[q]
  BY <1>1, PagedStates, HeadFirst, HeadAndTail
<1>3. r \in Requests /\ r \in Idlers
      /\ \A q \in Idlers : q \in Requests /\ par.specs[r].arrival <= par.specs[q].arrival
  BY <1>2, PagedStates, SetOf, SMTT(30) DEF Idlers, Joined
<1>4. Requests = 1 .. Count
  BY PagedStates
<1>5. req[r].status = "Waiting"
  BY <1>2, <1>3, <1>4 DEF PagedInv, PagedQueues
<1> HIDE DEF r, g
<1>6. \A q \in Requests : req'[q].status = IF q = r THEN "Running" ELSE req[q].status
  <2>1. req \in [Requests -> PagedLive]
    BY <1>4, PagedUse
  <2> QED BY <1>1, <1>3, <2>1 DEF PagedLive
<1>7. Requests' = Requests /\ Scheduling
  BY <1>1 DEF Requests, Scheduling
<1>8. InPlan' = Append(InPlan, r)
  <2> DEFINE R == Requests
  <2>1. running \in Seq(R) /\ admitted \in Seq(R) /\ r \in R
    BY <1>3, <1>4, PagedUse
  <2> HIDE DEF R
  <2>2. running \o Append(admitted, r) = Append(running \o admitted, r)
    BY <2>1, ConcatProperties, AppendIsConcat, ConcatAssociative
  <2> QED BY <1>1, <2>2 DEF InPlan
<1>9. Len(InPlan) < Seats
  BY <1>1 DEF InPlan, Seats
<1>10. Joined' = Joined /\ Gone' = Gone
  BY <1>3, <1>5, <1>6, <1>7 DEF Joined, Gone, Over
<1> QED BY <1>1, <1>3, <1>7, <1>8, <1>9, <1>10, ServesServe

\* A preemption puts back the last taken.
LEMMA PagedServesPreempt ==
  ASSUME PagedInv, Paged!Preempt, figure = "paged", figure' = figure
  PROVE  Serves!Next
<1> DEFINE v == Last(running)
<1>1. /\ pc = "grow" /\ s1 \in 1 .. Len(running)
      /\ req' = [req EXCEPT ![v] = [@ EXCEPT !.status = "Waiting", !.stored = 0, !.table = << >>]]
      /\ running' = Front(running) /\ par' = par /\ admitted' = admitted
  <2>1. s1 \in Nat /\ s1 > 0 /\ Len(running) \in Nat
    BY PagedUse
  <2>2. Paged!Last(running) = Last(running) /\ Paged!Front(running) = Front(running)
    BY PagedLibrary
  <2> QED BY <2>1, <2>2 DEF Paged!Preempt, Paged!Growing
<1>2. running # << >> /\ Len(running) \in Nat /\ running \in Seq(1 .. Count)
  BY <1>1, PagedUse
<1>3. v \in 1 .. Count /\ v = running[Len(running)] /\ Len(running) > 0
  BY <1>2, FrontAndLast
<1>4. req[v].status = "Running" /\ Requests = 1 .. Count /\ req \in [1 .. Count -> PagedLive]
  BY <1>2, <1>3, PagedRunning, PagedStates, PagedUse, SMTT(30)
<1> HIDE DEF v
<1>5. ASSUME NEW r \in Requests
      PROVE  req'[r].status = (IF r = v THEN "Waiting" ELSE req[r].status)
  BY <1>1, <1>3, <1>4 DEF PagedLive
<1>6. Requests' = Requests /\ Scheduling
  BY <1>1 DEF Requests, Scheduling
<1>7. Joined' = Joined /\ Gone' = Gone
  BY <1>4, <1>5, <1>6 DEF Joined, Gone, Over
<1>8. InPlan = running /\ InPlan' = Front(running)
  <2>1. admitted = << >>
    BY <1>1 DEF PagedInv, PagedQueues
  <2>2. Front(running) \in Seq(1 .. Count)
    BY <1>2, FrontAndLast
  <2> QED BY <1>1, <1>2, <2>1, <2>2, ConcatEmptySeq DEF InPlan
<1>9. Front(running) = SubSeq(running, 1, Len(running) - 1)
  BY DEF Front
<1>10. PICK n \in 0 .. Len(InPlan) - 1 : InPlan' = SubSeq(InPlan, 1, n)
  <2> DEFINE n == Len(running) - 1
  <2>1. n \in 0 .. Len(InPlan) - 1
    BY <1>2, <1>3, <1>8
  <2>2. InPlan' = SubSeq(InPlan, 1, n)
    BY <1>8, <1>9
  <2> QED BY <2>1, <2>2
<1> QED BY <1>1, <1>6, <1>7, <1>10, ServesPutBack

\* Those that end leave.
LEMMA PagedServesExecute ==
  ASSUME PagedInv, Paged!Execute, figure = "paged", figure' = figure
  PROVE  Serves!Next \/ UNCHANGED Serves!vars
<1> DEFINE rs == ToSet(PDone)
           R  == Requests
<1>1. /\ req' = [r \in 1 .. Count |->
           IF r \notin ToSet(PBatch) THEN req[r]
           ELSE [req[r] EXCEPT
                   !.generated = @ + 1,
                   !.stored    = Paged!Stored(r),
                   !.status    = IF r \in rs THEN "Finished" ELSE @,
                   !.table     = IF r \in rs THEN << >> ELSE @]]
      /\ running' = PLeft /\ admitted' = << >> /\ par' = par
  <2>1. Paged!Requests = 1 .. Count
    BY PagedUse
  <2>2. /\ \A s : Paged!ToSet(s) = ToSet(s)
        /\ \A s, T : Paged!Kept(s, T) = Kept(s, T)
        /\ \A s : Paged!FlattenSeq(s) = FlattenSeq(s)
        /\ \A s : Paged!Reverse(s) = Reverse(s)
    BY PagedLibrary
  <2> QED BY <2>1, <2>2, Zenon DEF Paged!Execute, PBatch, PDone, PLeft, PFreed
<1>2. /\ rs \subseteq ToSet(PBatch) /\ ToSet(PBatch) \subseteq 1 .. Count
      /\ PLeft \in Seq(1 .. Count) /\ ToSet(PBatch) = ToSet(running) \cup ToSet(admitted)
  BY PagedDone
<1>3. Requests = 1 .. Count /\ InPlan = PBatch /\ PBatch \in Seq(R)
  BY PagedStates DEF PBatch, InPlan
<1> HIDE DEF rs
<1>4. ASSUME NEW r \in Requests
      PROVE  /\ req'[r].status = (IF r \in rs THEN "Finished" ELSE req[r].status)
             /\ r \in rs => req[r].status = "Running"
  <2>1. req[r] \in PagedLive
    BY <1>3, PagedUse
  <2>2. r \in rs => req[r].status = "Running"
    BY <1>2, <1>3 DEF PagedInv, PagedQueues
  <2>3. req'[r] = IF r \notin ToSet(PBatch) THEN req[r]
                  ELSE [req[r] EXCEPT !.generated = @ + 1, !.stored = Paged!Stored(r),
                          !.status = IF r \in rs THEN "Finished" ELSE @,
                          !.table = IF r \in rs THEN << >> ELSE @]
    BY <1>1, <1>3, Zenon
  <2>4. req'[r].status = (IF r \in rs THEN "Finished" ELSE req[r].status)
    BY <1>2, <2>1, <2>3 DEF PagedLive
  <2> QED BY <2>2, <2>4
<1>5. Requests' = Requests /\ Scheduling
  BY <1>1 DEF Requests, Scheduling
<1>6. Joined' = Joined /\ Gone' = Gone \cup rs
  BY <1>2, <1>3, <1>4, <1>5 DEF Joined, Gone, Over
<1>7. InPlan' = PLeft
  BY <1>1, <1>2, ConcatEmptySeq DEF InPlan
<1>8. PLeft = Kept(InPlan, Requests \ rs)
  BY <1>3 DEF PLeft, rs
<1>9. CASE rs = {}
  <2>1. Kept(PBatch, R \ rs) = PBatch
    <3> DEFINE T == R \ rs
    <3>1. ToSet(PBatch) \subseteq T
      BY <1>2, <1>3, <1>9
    <3> HIDE DEF T, R
    <3>2. Kept(PBatch, T) = PBatch
      BY <1>3, <3>1, KeptAll
    <3> QED BY <3>2 DEF T
  <2> QED BY <1>1, <1>3, <1>5, <1>6, <1>7, <1>8, <1>9, <2>1, ServesStutter, ZenonT(40)
<1>10. CASE rs # {}
  BY <1>1, <1>2, <1>3, <1>5, <1>6, <1>7, <1>8, <1>10, ServesLeave, ZenonT(40)
<1> QED BY <1>9, <1>10

\* Growing is no step of the scheduler.
LEMMA PagedServesQuiet ==
  ASSUME PagedInv, Paged!GrowNot \/ Paged!Grow \/ Paged!Grown \/ Paged!Admitted,
         figure = "paged", figure' = figure
  PROVE  UNCHANGED Serves!vars
<1>1. par' = par /\ running' = running /\ admitted' = admitted
  BY Zenon DEF Paged!GrowNot, Paged!Grow, Paged!Grown, Paged!Admitted
<1>2. Requests = 1 .. Count /\ req \in [Requests -> PagedLive]
  BY PagedStates, PagedUse
<1>3. ASSUME NEW r \in Requests PROVE req'[r].status = req[r].status
  <2>1. CASE Paged!Grow
    <3>1. req' = [req EXCEPT ![running[s1]].table = Append(@, Head(pool.free))]
      BY <2>1, Zenon DEF Paged!Grow
    <3> QED BY <1>2, <3>1 DEF PagedLive
  <2>2. CASE Paged!GrowNot \/ Paged!Grown \/ Paged!Admitted
    BY <2>2, Zenon DEF Paged!GrowNot, Paged!Grown, Paged!Admitted
  <2> QED BY <2>1, <2>2
<1>4. Requests' = Requests /\ InPlan' = InPlan
  BY <1>1 DEF Requests, InPlan
<1>5. Joined' = Joined /\ Gone' = Gone
  BY <1>3, <1>4, Statuses
<1> QED BY <1>1, <1>4, <1>5, ServesStutter

\* Every step of the figure is one of the scheduler or none.
LEMMA PagedServes ==
  ASSUME PagedInv, Paged!Next, figure = "paged", figure' = figure
  PROVE  Serves!Next \/ UNCHANGED Serves!vars
BY PagedServesArrive, PagedServesAdmit, PagedServesPreempt, PagedServesExecute, PagedServesQuiet,
   Zenon DEF Paged!Next
=============================================================================
