----------------------- MODULE CapacityFigures_proofs ------------------------
(***************************************************************************)
(* Proofs about PagedBatching, ContinuousBatching, MoeDispatch and         *)
(* ReviewBacklog, for any workload they can be given. Of each, what its    *)
(* queues and places are through every step (PagedInv, SlotsInv,           *)
(* ExpertsInv, BacklogInv). After an invariant come what it says of one    *)
(* request or block (..Use, ..Request, ..Block), that it holds first       *)
(* (..Start), that each action keeps it, and what it implies (..Facts).    *)
(***************************************************************************)
EXTENDS CapacityFigures, Lists_proofs

\* The requests of a trace, and what each comes with.
Count     == Len(par.specs)
Arrives(r) == par.specs[r].arrival
Prompt(r) == par.specs[r].prompt
Out(r)    == par.specs[r].out
Arrival   == [r \in 1 .. Count |-> Arrives(r)]

----------------------------------------------------------------------------
(* The two schedulers of PagedBatching.                                    *)

\* The set of a list of one.
LEMMA SetOfOne == ASSUME NEW e PROVE ToSet(<< e >>) = {e}
BY DEF ToSet

\* The operators of the library are the same under the instance.
LEMMA PagedLibrary ==
  /\ \A s : Paged!ToSet(s) = ToSet(s)
  /\ \A s, T : Paged!Kept(s, T) = Kept(s, T)
  /\ \A s : Paged!FlattenSeq(s) = FlattenSeq(s)
  /\ \A s : Paged!Reverse(s) = Reverse(s)
  /\ \A s : Paged!Front(s) = Front(s) /\ Paged!Last(s) = Last(s)
  /\ \A s : Paged!IsInjective(s) <=> Apart(s)
  /\ \A s, i, e : Paged!InsertAt(s, i, e) = InsertAt(s, i, e)
  /\ \A S : Paged!Min(S) = Min(S)
<1>1. /\ \A s : Paged!ToSet(s) = ToSet(s)
      /\ \A s : Paged!Reverse(s) = Reverse(s)
      /\ \A s : Paged!Front(s) = Front(s) /\ Paged!Last(s) = Last(s)
      /\ \A s : Paged!IsInjective(s) <=> Apart(s)
      /\ \A s, i, e : Paged!InsertAt(s, i, e) = InsertAt(s, i, e)
  BY Zenon DEF Paged!ToSet, ToSet, Paged!Reverse, Reverse, Paged!Front, Front, Paged!Last, Last,
        Paged!IsInjective, Apart, Paged!InsertAt, InsertAt
<1>2. \A s, T : Paged!Kept(s, T) = Kept(s, T)
  BY Zenon DEF Paged!Kept, Kept, Paged!FlattenSeq, FlattenSeq
<1>3. \A s : Paged!FlattenSeq(s) = FlattenSeq(s)
  BY Zenon DEF Paged!FlattenSeq, FlattenSeq
<1>4. \A S : Paged!Min(S) = Min(S)
  BY Zenon DEF Paged!Min, Min
<1> QED BY <1>1, <1>2, <1>3, <1>4

\* What a workload of the figure is.
LEMMA PagedParam ==
  ASSUME par \in PagedParams
  PROVE  /\ Count \in Nat /\ Paged!Requests = 1 .. Count
         /\ par.mode \in {"paged", "contiguous"} /\ par.B \in Nat /\ par.B > 0 /\ par.N \in Nat
         /\ Paged!Blocks = 0 .. par.N - 1
         /\ \A r \in 1 .. Count : /\ Arrives(r) \in Nat /\ Prompt(r) \in Nat
                                  /\ Out(r) \in 1 .. MAX_NEW /\ Arrival[r] = Arrives(r)
         /\ Arrival \in [1 .. Count -> Nat]
         /\ MAX_NEW \in Nat /\ MAX_BATCH \in Nat
<1> DEFINE S == [arrival: Nat, prompt: Nat, out: 1 .. MAX_NEW]
<1>1. par \in Paged!Param
  BY MemoryAssumption
<1>2. /\ par \in [specs: Seq(S), mode: {"paged", "contiguous"}, B: Nat \ {0}, N: Nat]
  BY <1>1 DEF Paged!Param
<1>3. /\ par.specs \in Seq(S) /\ par.mode \in {"paged", "contiguous"}
      /\ par.B \in Nat \ {0} /\ par.N \in Nat
  <2> DEFINE Q == Seq(S)
             D == Nat \ {0}
  <2>1. par \in [specs: Q, mode: {"paged", "contiguous"}, B: D, N: Nat]
    BY <1>2
  <2> HIDE DEF Q, D
  <2>2. par.specs \in Q /\ par.mode \in {"paged", "contiguous"} /\ par.B \in D /\ par.N \in Nat
    BY <2>1
  <2> QED BY <2>2 DEF Q, D
<1>4. DOMAIN par.specs = 1 .. Count /\ Count \in Nat
  BY <1>3, LenProperties DEF Count
<1>5. ASSUME NEW r \in 1 .. Count PROVE Arrives(r) \in Nat /\ Prompt(r) \in Nat /\ Out(r) \in 1 .. MAX_NEW
  <2>1. par.specs[r] \in S
    <3> HIDE DEF S
    <3> QED BY <1>3, ElementOfSeq DEF Count
  <2> QED BY <2>1 DEF Arrives, Prompt, Out
<1> QED BY <1>3, <1>4, <1>5, MemoryAssumption DEF Paged!Requests, Paged!Blocks, Arrival

PagedLive == [status: {"Future", "Waiting", "Running", "Finished"},
              generated: Nat, stored: Nat, table: Seq(Paged!Blocks)]

PagedTyped ==
  /\ par \in PagedParams /\ it \in Nat /\ s1 \in Nat /\ s1 > 0
  /\ pc \in {"arrive", "grow", "admit", "execute", "end"}
  /\ pool.owner \in [Paged!Blocks -> 0 .. Count] /\ pool.free \in Seq(Paged!Blocks)
  /\ req \in [1 .. Count -> PagedLive]
  /\ waiting \in Seq(1 .. Count) /\ running \in Seq(1 .. Count) /\ admitted \in Seq(1 .. Count)

\* Who arrives before this iteration has been met.
PagedRound == IF pc \in {"arrive", "end"} THEN it ELSE it + 1

\* Where a request is, by its status; the queue is in the order of arrival.
PagedQueues ==
  /\ Apart(waiting) /\ Apart(running \o admitted) /\ Rising(waiting, Arrival)
  /\ \A r \in 1 .. Count :
       /\ req[r].status = "Waiting" <=> r \in ToSet(waiting)
       /\ req[r].status = "Running" <=> r \in ToSet(running) \cup ToSet(admitted)
       /\ req[r].status = "Future"  <=> Arrival[r] >= PagedRound
  /\ pc \in {"arrive", "grow", "end"} => admitted = << >>
  /\ pc = "grow" => Paged!Paged

\* Tables are of the requests in the batch, and none is done yet.
PagedTables ==
  \A r \in 1 .. Count :
    /\ Apart(req[r].table)
    /\ req[r].status # "Running" => req[r].table = << >>
    /\ req[r].status # "Finished" => req[r].generated < Out(r)

\* Whether the i-th of the batch has its block for the next token.
Due(i) == IF pc \in {"admit", "execute"} \/ (pc = "grow" /\ i < s1) THEN 1 ELSE 0

Run(t) == \A i \in DOMAIN t : t[i] = t[1] + i - 1

\* How many blocks the requests in the batch have.
PagedHeld ==
  /\ \A i \in 1 .. Len(running) :
       /\ req[running[i]].stored = Prompt(running[i]) + req[running[i]].generated - 1
       /\ Paged!Paged => Len(req[running[i]].table) = Ceil(req[running[i]].stored + Due(i), par.B)
  /\ Paged!Paged => \A r \in ToSet(admitted) :
       Len(req[r].table) = Ceil(Prompt(r) + req[r].generated, par.B)
  /\ ~Paged!Paged => \A r \in ToSet(running) \cup ToSet(admitted) :
       Len(req[r].table) = Ceil(Prompt(r) + MAX_NEW, par.B) /\ Run(req[r].table)

PagedPool ==
  /\ \A b \in Paged!Blocks, r \in 1 .. Count : pool.owner[b] = r <=> b \in ToSet(req[r].table)
  /\ Paged!Paged => /\ ToSet(pool.free) = {b \in Paged!Blocks : pool.owner[b] = 0}
                    /\ Apart(pool.free)

PagedInv == PagedTyped /\ PagedQueues /\ PagedTables /\ PagedHeld /\ PagedPool

\* What PagedInv says of the pool is what the run checks.
LEMMA PagedFacts == ASSUME PagedInv PROVE Paged!PoolShared /\ Paged!StoredFits
<1>1. PagedTyped /\ PagedHeld /\ PagedPool /\ PagedTables
  BY DEF PagedInv
<1>2. /\ Paged!Requests = 1 .. Count /\ par.B \in Nat /\ par.B > 0
      /\ \A r \in 1 .. Count : Prompt(r) \in Nat /\ Out(r) \in 1 .. MAX_NEW
      /\ MAX_NEW \in Nat
  BY <1>1, PagedParam DEF PagedTyped
<1>3. Paged!PoolShared
  BY <1>1, <1>2, PagedLibrary DEF Paged!PoolShared, PagedPool
<1>4. ASSUME pc = "arrive", NEW r \in ToSet(running)
      PROVE  /\ req[r].stored = par.specs[r].prompt + req[r].generated - 1
             /\ IF Paged!Paged THEN Len(req[r].table) = Paged!BlocksFor(req[r].stored)
                ELSE /\ req[r].stored < Len(req[r].table) * par.B
                     /\ \A i \in DOMAIN req[r].table : req[r].table[i] = req[r].table[1] + i - 1
  <2>1. PICK i \in 1 .. Len(running) : r = running[i]
    <3>1. running \in Seq(1 .. Count)
      BY <1>1 DEF PagedTyped
    <3>2. ToSet(running) = {running[i] : i \in 1 .. Len(running)}
      BY <3>1, SetOf
    <3> QED BY <1>4, <3>2
  <2>2. r \in 1 .. Count /\ Due(i) = 0
    BY <1>1, <1>4, <2>1, ElementOfSeq DEF Due, PagedTyped
  <2>3. req[r] \in PagedLive
    BY <1>1, <2>2 DEF PagedTyped
  <2>4. req[r].stored \in Nat /\ req[r].generated \in Nat
    BY <2>3 DEF PagedLive
  <2>5. req[r].stored = Prompt(r) + req[r].generated - 1
    BY <1>1, <2>1 DEF PagedHeld
  <2>6. CASE Paged!Paged
    <3>1. Len(req[r].table) = Ceil(req[r].stored + 0, par.B)
      BY <1>1, <2>1, <2>2, <2>6 DEF PagedHeld
    <3>2. req[r].stored + 0 = req[r].stored
      BY <2>4
    <3> QED BY <2>5, <2>6, <3>1, <3>2 DEF Prompt, Paged!BlocksFor, Ceil
  <2>7. CASE ~Paged!Paged
    <3>1. Len(req[r].table) = Ceil(Prompt(r) + MAX_NEW, par.B) /\ Run(req[r].table)
      BY <1>1, <2>7 DEF PagedHeld
    <3>2. req[r].generated < Out(r)
      <4>1. req[r].generated < Out(r) \/ req[r].status = "Finished"
        BY <1>1, <2>2 DEF PagedTables
      <4>2. req[r].status = "Running"
        BY <2>2 DEF PagedInv, PagedQueues
      <4> QED BY <4>1, <4>2
    <3> DEFINE t == Prompt(r) + MAX_NEW
               x == Ceil(t, par.B) * par.B
    <3>3. t \in Nat /\ req[r].stored < t
      <4>1. Prompt(r) \in Nat /\ Out(r) \in 1 .. MAX_NEW /\ MAX_NEW \in Nat
        BY <1>2, <2>2
      <4> DEFINE p == Prompt(r)
                 o == Out(r)
                 g == req[r].generated
                 s == req[r].stored
      <4>2. p \in Nat /\ o \in 1 .. MAX_NEW /\ MAX_NEW \in Nat /\ g \in Nat /\ s \in Nat /\ s = p + g - 1 /\ g < o
        BY <2>4, <2>5, <3>2, <4>1
      <4> HIDE DEF p, o, g, s
      <4>3. p + MAX_NEW \in Nat /\ s < p + MAX_NEW
        BY <4>2
      <4> QED BY <4>3 DEF p, s
    <3>4. t <= x /\ x \in Nat
      <4> HIDE DEF t
      <4>1. t <= Ceil(t, par.B) * par.B /\ Ceil(t, par.B) \in Nat
        BY <1>2, <3>3, CeilIs, CeilStep
      <4> QED BY <1>2, <4>1
    <3>5. req[r].stored < x
      <4> HIDE DEF t, x
      <4> QED BY <2>4, <3>3, <3>4
    <3> QED BY <2>5, <2>7, <3>1, <3>5 DEF Prompt, Run
  <2> QED BY <2>6, <2>7
<1>5. Paged!StoredFits
  <2>1. Paged!ToSet(running) = ToSet(running)
    BY PagedLibrary
  <2> QED BY <1>4, <2>1, Zenon DEF Paged!StoredFits
<1> QED BY <1>3, <1>5

\* PagedInv holds first.
LEMMA PagedStart == ASSUME Paged!Init PROVE PagedInv
<1> USE DEF Paged!Init
<1>1. /\ par \in PagedParams /\ it = 0 /\ pc = "arrive" /\ s1 = 1
      /\ waiting = << >> /\ running = << >> /\ admitted = << >>
      /\ pool.owner = [b \in Paged!Blocks |-> 0] /\ pool.free = [i \in 1 .. par.N |-> i - 1]
  OBVIOUS
<1>2. /\ Count \in Nat /\ Paged!Requests = 1 .. Count /\ par.N \in Nat /\ Paged!Blocks = 0 .. par.N - 1
      /\ Arrival \in [1 .. Count -> Nat]
      /\ \A r \in 1 .. Count : Out(r) > 0
  BY <1>1, PagedParam, SMTT(30)
<1>3. \A r \in 1 .. Count : /\ req[r].status = "Future" /\ req[r].generated = 0
                            /\ req[r].stored = 0 /\ req[r].table = << >>
  BY <1>2
<1>4. << >> \in Seq(1 .. Count) /\ << >> \in Seq(Paged!Blocks) /\ ToSet(<< >>) = {} /\ << >> \o << >> = << >>
      /\ Len(<< >>) = 0
  BY EmptySeq, SetOfEmpty
<1>5. PagedTyped
  <2>1. pool.free \in Seq(Paged!Blocks)
    <3>1. \A i \in 1 .. par.N : i - 1 \in 0 .. par.N - 1
      BY <1>2
    <3> DEFINE N == par.N
    <3>2. N \in Nat /\ [i \in 1 .. N |-> i - 1] \in [1 .. N -> 0 .. N - 1]
      BY <1>2, <3>1
    <3> HIDE DEF N
    <3>3. [i \in 1 .. N |-> i - 1] \in Seq(0 .. N - 1)
      BY <3>2
    <3> QED BY <1>1, <1>2, <3>3 DEF N
  <2>2. pool.owner \in [Paged!Blocks -> 0 .. Count]
    BY <1>1, <1>2
  <2>3. req \in [1 .. Count -> PagedLive]
    <3> DEFINE Q == Seq(Paged!Blocks)
    <3>1. << >> \in Q
      BY <1>4
    <3> HIDE DEF Q
    <3>2. [status |-> "Future", generated |-> 0, stored |-> 0, table |-> << >>]
            \in [status: {"Future", "Waiting", "Running", "Finished"}, generated: Nat, stored: Nat, table: Q]
      BY <3>1
    <3> QED BY <1>2, <3>2 DEF PagedLive, Q
  <2> QED BY <1>1, <1>4, <2>1, <2>2, <2>3 DEF PagedTyped
<1>6. PagedQueues
  <2>1. Apart(<< >>) /\ Rising(<< >>, Arrival)
    BY DEF Apart, Rising
  <2>2. \A r \in 1 .. Count : Arrival[r] >= PagedRound
    BY <1>1, <1>2 DEF PagedRound
  <2> QED BY <1>1, <1>3, <1>4, <2>1, <2>2 DEF PagedQueues
<1>7. PagedTables
  <2>1. Apart(<< >>)
    BY DEF Apart
  <2> QED BY <1>2, <1>3, <2>1 DEF PagedTables
<1>8. PagedHeld
  BY <1>1, <1>4 DEF PagedHeld
<1>9. PagedPool
  <2>1. \A b \in Paged!Blocks : pool.owner[b] = 0
    BY <1>1
  <2>2. \A r \in 1 .. Count : r # 0 /\ ToSet(req[r].table) = {}
    BY <1>3, <1>4
  <2>3. ToSet(pool.free) = Paged!Blocks
    <3>1. ToSet(pool.free) = {pool.free[i] : i \in 1 .. par.N}
      BY <1>1 DEF ToSet
    <3>2. \A b \in Paged!Blocks : b + 1 \in 1 .. par.N /\ pool.free[b + 1] = b
      BY <1>1, <1>2
    <3>3. \A i \in 1 .. par.N : pool.free[i] \in Paged!Blocks
      BY <1>1, <1>2
    <3>4. ASSUME NEW b \in Paged!Blocks PROVE b \in ToSet(pool.free)
      BY <3>1, <3>2
    <3> QED BY <3>1, <3>3, <3>4
  <2>4. Apart(pool.free)
    BY <1>1, <1>2 DEF Apart
  <2> QED BY <2>1, <2>2, <2>3, <2>4 DEF PagedPool
<1> QED BY <1>5, <1>6, <1>7, <1>8, <1>9 DEF PagedInv

\* What a step that keeps the parameters keeps.
LEMMA PagedFixed ==
  ASSUME par' = par
  PROVE  /\ Count' = Count /\ Arrival' = Arrival /\ Paged!Blocks' = Paged!Blocks
         /\ PagedLive' = PagedLive /\ Paged!Paged' = Paged!Paged
         /\ \A r : Prompt(r)' = Prompt(r) /\ Out(r)' = Out(r) /\ Arrives(r)' = Arrives(r)
BY Zenon DEF Count, Arrival, Arrives, Paged!Blocks, PagedLive, Paged!Paged, Prompt, Out

\* What a request's record holds.
LEMMA PagedLiveFields ==
  ASSUME NEW l \in PagedLive
  PROVE  /\ l.status \in {"Future", "Waiting", "Running", "Finished"} /\ l.generated \in Nat
         /\ l.stored \in Nat /\ l.table \in Seq(Paged!Blocks)
<1> DEFINE Q == Seq(Paged!Blocks)
<1>1. l \in [status: {"Future", "Waiting", "Running", "Finished"}, generated: Nat, stored: Nat, table: Q]
  BY DEF PagedLive
<1> HIDE DEF Q
<1>2. /\ l.status \in {"Future", "Waiting", "Running", "Finished"} /\ l.generated \in Nat
      /\ l.stored \in Nat /\ l.table \in Q
  BY <1>1
<1> QED BY <1>2 DEF Q

\* A request with some of its fields replaced.
LEMMA PagedLiveWith ==
  ASSUME NEW l \in PagedLive, NEW a \in {"Future", "Waiting", "Running", "Finished"},
         NEW g \in Nat, NEW c \in Nat, NEW t \in Seq(Paged!Blocks)
  PROVE  /\ [l EXCEPT !.status = a] \in PagedLive
         /\ [l EXCEPT !.table = t] \in PagedLive
         /\ [l EXCEPT !.status = a, !.table = t] \in PagedLive
         /\ [l EXCEPT !.status = a, !.stored = c, !.table = t] \in PagedLive
         /\ [l EXCEPT !.generated = g, !.stored = c, !.status = a, !.table = t] \in PagedLive
<1> DEFINE Q == Seq(Paged!Blocks)
           L == [status: {"Future", "Waiting", "Running", "Finished"}, generated: Nat, stored: Nat, table: Q]
<1>1. l \in L /\ t \in Q /\ PagedLive = L
  BY DEF PagedLive
<1> HIDE DEF Q
<1>2. /\ [l EXCEPT !.status = a] \in L
      /\ [l EXCEPT !.table = t] \in L
      /\ [l EXCEPT !.status = a, !.table = t] \in L
      /\ [l EXCEPT !.status = a, !.stored = c, !.table = t] \in L
      /\ [l EXCEPT !.generated = g, !.stored = c, !.status = a, !.table = t] \in L
  BY <1>1
<1> QED BY <1>1, <1>2

\* What the invariant says of every request, list and table.
LEMMA PagedUse ==
  ASSUME PagedInv
  PROVE  /\ Count \in Nat /\ Paged!Requests = 1 .. Count
         /\ par.mode \in {"paged", "contiguous"} /\ par.B \in Nat /\ par.B > 0 /\ par.N \in Nat
         /\ Paged!Blocks = 0 .. par.N - 1
         /\ Arrival \in [1 .. Count -> Nat] /\ MAX_NEW \in Nat
         /\ \A r \in 1 .. Count :
              /\ Arrives(r) \in Nat /\ Prompt(r) \in Nat /\ Out(r) \in 1 .. MAX_NEW /\ Arrival[r] = Arrives(r)
              /\ req[r] \in PagedLive
              /\ req[r].status \in {"Future", "Waiting", "Running", "Finished"}
              /\ req[r].generated \in Nat /\ req[r].stored \in Nat /\ req[r].table \in Seq(Paged!Blocks)
         /\ DOMAIN req = 1 .. Count /\ req \in [1 .. Count -> PagedLive]
         /\ par \in PagedParams /\ it \in Nat /\ s1 \in Nat /\ s1 > 0
         /\ pc \in {"arrive", "grow", "admit", "execute", "end"}
         /\ pool.owner \in [Paged!Blocks -> 0 .. Count] /\ pool.free \in Seq(Paged!Blocks)
         /\ waiting \in Seq(1 .. Count) /\ running \in Seq(1 .. Count) /\ admitted \in Seq(1 .. Count)
         /\ ToSet(waiting) \subseteq 1 .. Count /\ ToSet(running) \subseteq 1 .. Count
         /\ ToSet(admitted) \subseteq 1 .. Count
<1>1. PagedTyped
  BY DEF PagedInv
<1>2. /\ par \in PagedParams /\ req \in [1 .. Count -> PagedLive]
      /\ waiting \in Seq(1 .. Count) /\ running \in Seq(1 .. Count) /\ admitted \in Seq(1 .. Count)
      /\ it \in Nat /\ s1 \in Nat /\ s1 > 0
      /\ pc \in {"arrive", "grow", "admit", "execute", "end"}
      /\ pool.owner \in [Paged!Blocks -> 0 .. Count] /\ pool.free \in Seq(Paged!Blocks)
  BY <1>1 DEF PagedTyped
<1>3. \A r \in 1 .. Count : req[r] \in PagedLive
  BY <1>2
<1> QED BY <1>2, <1>3, PagedParam, PagedLiveFields, SetOf

\* The requests that arrive in an iteration.
LEMMA PagedArrivals ==
  ASSUME PagedInv, pc = "arrive"
  PROVE  /\ Paged!Arriving \in Seq(1 .. Count) /\ Apart(Paged!Arriving) /\ Rising(Paged!Arriving, Arrival)
         /\ \A r \in 1 .. Count : /\ r \in ToSet(Paged!Arriving) <=> Arrival[r] = it
                                  /\ r \in ToSet(Paged!Arriving) => req[r].status = "Future"
         /\ ToSet(Paged!Arriving) \subseteq 1 .. Count
<1> DEFINE all == [r \in 1 .. Count |-> r]
           D == {r \in 1 .. Count : req[r].status = "Future" /\ par.specs[r].arrival <= it}
<1>1. Count \in Nat /\ Paged!Requests = 1 .. Count /\ it \in Nat
  BY PagedUse DEF PagedInv, PagedTyped
<1>2. all \in Seq(1 .. Count) /\ Apart(all) /\ Len(all) = Count
  BY <1>1 DEF Apart
<1>3. ToSet(all) = 1 .. Count
  <2>1. ToSet(all) = {all[i] : i \in 1 .. Count}
    <3> HIDE DEF all
    <3>1. ToSet(all) = {all[i] : i \in 1 .. Len(all)}
      BY <1>2, SetOf
    <3> QED BY <1>2, <3>1
  <2> QED BY <2>1
<1>4. Paged!Arriving = Kept(all, D)
  BY <1>1, PagedLibrary DEF Paged!Arriving
<1> HIDE DEF all
<1>5. Kept(all, D) \in Seq(1 .. Count) /\ Apart(Kept(all, D)) /\ ToSet(Kept(all, D)) = D
  <2>1. Kept(all, D) \in Seq(1 .. Count)
    BY <1>2, KeptPlaces, Zenon
  <2>2. Apart(Kept(all, D))
    BY <1>2, KeptApart, Zenon
  <2>3. ToSet(Kept(all, D)) = (1 .. Count) \cap D
    <3>1. ToSet(Kept(all, D)) = ToSet(all) \cap D
      BY <1>2, KeptSet, Zenon
    <3> QED BY <1>3, <3>1
  <2> QED BY <2>1, <2>2, <2>3
<1>6. ASSUME NEW r \in 1 .. Count PROVE r \in D <=> Arrival[r] = it
  <2>1. Arrives(r) \in Nat /\ Arrival[r] = Arrives(r)
    BY PagedUse
  <2>2. req[r].status = "Future" <=> Arrival[r] >= it
    BY <1>1 DEF PagedInv, PagedQueues, PagedRound
  <2> QED BY <1>1, <2>1, <2>2 DEF Arrives
<1>7. Rising(Kept(all, D), Arrival)
  <2>1. ASSUME NEW i \in 1 .. Len(Kept(all, D)) PROVE Arrival[Kept(all, D)[i]] = it
    <3>1. Kept(all, D)[i] \in D
      <4> DEFINE k == Kept(all, D)
      <4>1. ToSet(k) = {k[j] : j \in 1 .. Len(k)}
        <5> HIDE DEF k, D
        <5>1. k \in Seq(1 .. Count)
          BY <1>5 DEF k
        <5> QED BY <5>1, SetOf
      <4> QED BY <1>5, <4>1
    <3> QED BY <1>6, <3>1
  <2> HIDE DEF D
  <2> QED BY <1>1, <2>1 DEF Rising
<1>8. D \subseteq 1 .. Count /\ \A r \in D : req[r].status = "Future"
  OBVIOUS
<1> QED BY <1>4, <1>5, <1>6, <1>7, <1>8

\* Arrivals join the queue in order.
LEMMA PagedArrive == ASSUME PagedInv, Paged!Arrive PROVE PagedInv'
<1> DEFINE new == Paged!Arriving
<1>1. /\ pc = "arrive" /\ pc' \in {"grow", "admit"} /\ waiting' = waiting \o new /\ s1' = 1
      /\ pc' = (IF Paged!Paged THEN "grow" ELSE "admit")
      /\ req' = [r \in 1 .. Count |->
           IF r \in ToSet(new) THEN [req[r] EXCEPT !.status = "Waiting"] ELSE req[r]]
      /\ par' = par /\ it' = it /\ pool' = pool /\ running' = running /\ admitted' = admitted
  BY PagedUse, PagedLibrary DEF Paged!Arrive
<1>2. /\ new \in Seq(1 .. Count) /\ Apart(new) /\ Rising(new, Arrival)
      /\ \A r \in 1 .. Count : /\ r \in ToSet(new) <=> Arrival[r] = it
                               /\ r \in ToSet(new) => req[r].status = "Future"
      /\ ToSet(new) \subseteq 1 .. Count
  BY <1>1, PagedArrivals
<1> HIDE DEF new
<1>3. ASSUME NEW r \in 1 .. Count
      PROVE  /\ req'[r].status = IF r \in ToSet(new) THEN "Waiting" ELSE req[r].status
             /\ req'[r].generated = req[r].generated /\ req'[r].stored = req[r].stored
             /\ req'[r].table = req[r].table /\ req'[r] \in PagedLive
  <2>1. req[r] \in PagedLive
    BY PagedUse, Zenon
  <2>2. req'[r] = IF r \in ToSet(new) THEN [req[r] EXCEPT !.status = "Waiting"] ELSE req[r]
    BY <1>1, Zenon
  <2>3. [req[r] EXCEPT !.status = "Waiting"] \in PagedLive
    <3>1. /\ req[r].table \in Seq(Paged!Blocks) /\ req[r].generated \in Nat /\ req[r].stored \in Nat
          /\ "Waiting" \in {"Future", "Waiting", "Running", "Finished"}
      BY <2>1, PagedLiveFields
    <3> QED BY <2>1, <3>1, PagedLiveWith, Zenon
  <2> QED BY <2>1, <2>2, <2>3 DEF PagedLive
<1>4. PagedTyped'
  <2>1. waiting' \in Seq(1 .. Count)
    BY <1>1, <1>2, PagedUse
  <2>2. req' \in [1 .. Count -> PagedLive]
    BY <1>1, <1>3
  <2> QED BY <1>1, <2>1, <2>2, PagedFixed DEF PagedInv, PagedTyped
<1>5. PagedQueues'
  <2>1. ToSet(waiting') = ToSet(waiting) \cup ToSet(new)
    BY <1>1, <1>2, PagedUse, SetOfConcat
  <2>2. \A r \in ToSet(waiting) : req[r].status = "Waiting" /\ Arrival[r] < it
    <3>1. \A r \in ToSet(waiting) : /\ req[r].status = "Waiting" /\ ~(Arrival[r] >= it)
                                    /\ r \in 1 .. Count
      BY <1>1, PagedUse DEF PagedInv, PagedQueues, PagedRound
    <3>2. it \in Nat /\ Arrival \in [1 .. Count -> Nat]
      BY PagedUse, Zenon
    <3> QED BY <3>1, <3>2
  <2>3. Apart(waiting')
    <3>1. Apart(waiting) /\ ToSet(waiting) \cap ToSet(new) = {}
      BY <1>2, <2>2, PagedUse DEF PagedInv, PagedQueues
    <3> QED BY <1>1, <1>2, <3>1, PagedUse, ApartConcat
  <2>4. Rising(waiting', Arrival)
    <3>1. Rising(waiting, Arrival)
      BY DEF PagedInv, PagedQueues
    <3>2. ASSUME NEW x \in ToSet(waiting), NEW y \in ToSet(new) PROVE Arrival[x] <= Arrival[y]
      <4>1. Arrival[x] < it /\ Arrival[y] = it /\ x \in 1 .. Count
        BY <1>2, <2>2, PagedUse
      <4>2. it \in Nat /\ Arrival[x] \in Nat
        BY <4>1, PagedUse DEF PagedInv, PagedTyped
      <4> QED BY <4>1, <4>2
    <3> QED BY <1>1, <1>2, <3>1, <3>2, PagedUse, RisingConcat
  <2>5. ASSUME NEW r \in 1 .. Count
        PROVE  /\ req'[r].status = "Waiting" <=> r \in ToSet(waiting')
               /\ req'[r].status = "Running" <=> r \in ToSet(running) \cup ToSet(admitted)
               /\ req'[r].status = "Future"  <=> Arrival[r] >= it + 1
    <3>1. /\ req[r].status = "Waiting" <=> r \in ToSet(waiting)
          /\ req[r].status = "Running" <=> r \in ToSet(running) \cup ToSet(admitted)
          /\ req[r].status = "Future"  <=> Arrival[r] >= it
      BY <1>1 DEF PagedInv, PagedQueues, PagedRound
    <3>2. Arrival[r] \in Nat /\ it \in Nat
      BY PagedUse DEF PagedInv, PagedTyped
    <3>3. r \in ToSet(new) <=> Arrival[r] = it
      BY <1>2
    <3> QED BY <1>3, <2>1, <3>1, <3>2, <3>3
  <2>6. PagedRound' = it + 1 /\ admitted' = << >> /\ (pc' = "grow" => Paged!Paged)
    BY <1>1 DEF PagedInv, PagedQueues, PagedRound
  <2>7. Apart(running \o admitted)
    BY DEF PagedInv, PagedQueues
  <2> QED BY <1>1, <2>3, <2>4, <2>5, <2>6, <2>7, PagedFixed DEF PagedQueues
<1>6. PagedTables'
  <2>1. \A r \in 1 .. Count : r \in ToSet(new) => req[r].table = << >>
    BY <1>2 DEF PagedInv, PagedTables
  <2>2. \A r \in 1 .. Count : /\ Apart(req'[r].table)
                              /\ req'[r].status # "Running" => req'[r].table = << >>
                              /\ req'[r].status # "Finished" => req'[r].generated < Out(r)
    BY <1>2, <1>3, <2>1 DEF PagedInv, PagedTables
  <2>3. Count' = Count /\ \A r \in 1 .. Count : Out(r)' = Out(r)
    BY <1>1, PagedFixed, Zenon
  <2> QED BY <2>2, <2>3 DEF PagedTables
<1>7. PagedHeld'
  <2>1. admitted = << >> /\ ToSet(admitted) = {}
    BY <1>1, SetOfEmpty DEF PagedInv, PagedQueues
  <2>2. \A i \in 1 .. Len(running) : running[i] \in 1 .. Count /\ running[i] \in ToSet(running)
    BY PagedUse, Listed
  <2>3. ASSUME NEW i \in 1 .. Len(running), Paged!Paged PROVE Due(i)' = Due(i)
    BY <1>1, <2>3 DEF Due
  <2>4. ASSUME NEW i \in 1 .. Len(running)
        PROVE  /\ req'[running[i]].stored = Prompt(running[i]) + req'[running[i]].generated - 1
               /\ Paged!Paged => Len(req'[running[i]].table) = Ceil(req'[running[i]].stored + Due(i)', par.B)
    BY <1>3, <2>2, <2>3, SMTT(30) DEF PagedInv, PagedHeld
  <2>5. ~Paged!Paged => \A r \in ToSet(running) :
           Len(req'[r].table) = Ceil(Prompt(r) + MAX_NEW, par.B) /\ Run(req'[r].table)
    BY <1>3, PagedUse DEF PagedInv, PagedHeld
  <2>6. \A r : Prompt(r)' = Prompt(r)
    BY <1>1, PagedFixed, Zenon
  <2>7. Paged!Paged' = Paged!Paged /\ ToSet(running') = ToSet(running) /\ ToSet(admitted') = {}
    BY <1>1, <2>1, PagedFixed, Zenon
  <2> QED BY <1>1, <2>4, <2>5, <2>6, <2>7 DEF PagedHeld
<1>8. PagedPool'
  BY <1>1, <1>3, PagedFixed DEF PagedInv, PagedPool
<1> QED BY <1>4, <1>5, <1>6, <1>7, <1>8 DEF PagedInv

\* A running request is one of those the invariant speaks of.
LEMMA PagedRunning ==
  ASSUME PagedInv, NEW i \in 1 .. Len(running)
  PROVE  /\ running[i] \in 1 .. Count /\ running[i] \in ToSet(running)
         /\ req[running[i]].status = "Running" /\ req[running[i]].generated \in Nat
         /\ req[running[i]].stored \in Nat /\ req[running[i]].table \in Seq(Paged!Blocks)
         /\ Len(req[running[i]].table) \in Nat
         /\ Paged!Paged => Len(req[running[i]].table) = Ceil(req[running[i]].stored + Due(i), par.B)
         /\ \A j \in 1 .. Len(running) : running[j] = running[i] => j = i
<1>1. running[i] \in 1 .. Count /\ running[i] \in ToSet(running)
  BY PagedUse, Listed
<1>2. /\ req[running[i]].generated \in Nat /\ req[running[i]].stored \in Nat
      /\ req[running[i]].table \in Seq(Paged!Blocks)
  BY <1>1, PagedUse
<1>3. req[running[i]].status = "Running"
  BY <1>1 DEF PagedInv, PagedQueues
<1>4. Apart(running)
  BY PagedUse, ApartConcat DEF PagedInv, PagedQueues
<1>5. \A j \in 1 .. Len(running) : running[j] = running[i] => j = i
  BY <1>4, PagedUse, SMTT(30) DEF Apart
<1> QED BY <1>1, <1>2, <1>3, <1>5, LenProperties DEF PagedInv, PagedHeld

\* The figure's count of blocks is the one the lemmas speak of.
LEMMA PagedFull ==
  ASSUME PagedInv, NEW i \in 1 .. Len(running), pc = "grow", Due(i) = 0, Paged!Paged
  PROVE  LET r == running[i]
         IN  Ceil(req[r].stored + 1, par.B) =
               Len(req[r].table) + (IF Paged!Full(r) THEN 1 ELSE 0)
<1> DEFINE c == req[running[i]].stored
           n == Len(req[running[i]].table)
<1>1. c \in Nat /\ n \in Nat /\ n = Ceil(c + 0, par.B)
  BY PagedRunning
<1>2. n = Ceil(c, par.B)
  BY <1>1
<1>3. par.B \in Nat /\ par.B > 0
  BY PagedUse
<1>4. Paged!Full(running[i]) <=> Ceil(c + 1, par.B) > n
  BY DEF Paged!Full, Paged!BlocksFor, Ceil
<1> HIDE DEF c, n
<1>5. n <= Ceil(c + 1, par.B) /\ Ceil(c + 1, par.B) <= n + 1 /\ Ceil(c + 1, par.B) \in Nat
  <2>1. Ceil(c, par.B) <= Ceil(c + 1, par.B) /\ Ceil(c + 1, par.B) <= Ceil(c, par.B) + 1
        /\ Ceil(c + 1, par.B) \in Nat
    BY <1>1, <1>3, CeilStep
  <2> QED BY <1>2, <2>1
<1>6. Ceil(c + 1, par.B) = n + IF Paged!Full(running[i]) THEN 1 ELSE 0
  BY <1>1, <1>4, <1>5, SMTT(30)
<1> QED BY <1>6 DEF c, n

\* A request with room for its token needs no block.
LEMMA PagedGrowNot == ASSUME PagedInv, Paged!GrowNot PROVE PagedInv'
<1>1. /\ pc = "grow" /\ s1 \in 1 .. Len(running) /\ ~Paged!Full(running[s1]) /\ s1' = s1 + 1
      /\ par' = par /\ it' = it /\ pc' = pc /\ pool' = pool /\ req' = req
      /\ waiting' = waiting /\ running' = running /\ admitted' = admitted
  BY PagedUse DEF Paged!GrowNot, Paged!Growing
<1>2. PagedTyped'
  BY <1>1, PagedFixed DEF PagedInv, PagedTyped
<1>3. PagedQueues' /\ PagedTables' /\ PagedPool'
  BY <1>1, PagedFixed DEF PagedInv, PagedQueues, PagedTables, PagedPool, PagedRound
<1>4. Paged!Paged
  BY <1>1 DEF PagedInv, PagedQueues
<1>5. ASSUME NEW i \in 1 .. Len(running)
      PROVE  Len(req[running[i]].table) = Ceil(req[running[i]].stored + Due(i)', par.B)
  <2>1. CASE i = s1
    <3>1. Due(i) = 0 /\ Due(i)' = 1
      BY <1>1, <2>1 DEF Due
    <3>2. /\ Len(req[running[i]].table) \in Nat
          /\ Ceil(req[running[i]].stored + 1, par.B) = Len(req[running[i]].table) + 0
      BY <1>1, <1>4, <2>1, <3>1, PagedFull, PagedRunning
    <3> QED BY <3>1, <3>2
  <2>2. CASE i # s1
    <3>1. Due(i)' = Due(i)
      BY <1>1, <2>2, PagedUse, SMTT(30) DEF Due
    <3> QED BY <1>4, <3>1, PagedRunning
  <2> QED BY <2>1, <2>2
<1>6. PagedHeld'
  BY <1>1, <1>4, <1>5, PagedFixed DEF PagedInv, PagedHeld
<1> QED BY <1>2, <1>3, <1>6 DEF PagedInv

\* Growing ends.
LEMMA PagedGrown == ASSUME PagedInv, Paged!Grown PROVE PagedInv'
<1>1. /\ pc = "grow" /\ s1 > Len(running) /\ pc' = "admit"
      /\ par' = par /\ it' = it /\ s1' = s1 /\ pool' = pool /\ req' = req
      /\ waiting' = waiting /\ running' = running /\ admitted' = admitted
  BY DEF Paged!Grown
<1>2. PagedTyped'
  BY <1>1, PagedFixed DEF PagedInv, PagedTyped
<1>3. PagedQueues' /\ PagedTables' /\ PagedPool'
  BY <1>1, PagedFixed DEF PagedInv, PagedQueues, PagedTables, PagedPool, PagedRound
<1>4. \A i \in 1 .. Len(running) : Due(i)' = Due(i)
  BY <1>1, PagedUse DEF Due
<1>5. PagedHeld'
  BY <1>1, <1>4, PagedFixed DEF PagedInv, PagedHeld
<1> QED BY <1>2, <1>3, <1>5 DEF PagedInv

\* A request that grows takes the first block that is free.
LEMMA PagedGrow == ASSUME PagedInv, Paged!Grow PROVE PagedInv'
<1> DEFINE r == running[s1]
           b == Head(pool.free)
<1>1. /\ pc = "grow" /\ s1 \in 1 .. Len(running) /\ Paged!Full(r) /\ pool.free # << >> /\ s1' = s1 + 1
      /\ pool' = [owner |-> Paged!Owned(pool.owner, << b >>, r), free |-> Tail(pool.free)]
      /\ req' = [req EXCEPT ![r].table = Append(@, b)]
      /\ par' = par /\ it' = it /\ pc' = pc /\ waiting' = waiting /\ running' = running /\ admitted' = admitted
  BY PagedUse DEF Paged!Grow, Paged!Growing
<1>2. Paged!Paged
  BY <1>1 DEF PagedInv, PagedQueues
<1>3. /\ r \in 1 .. Count /\ r \in ToSet(running) /\ req[r].status = "Running" /\ req[r].table \in Seq(Paged!Blocks)
      /\ \A i \in 1 .. Len(running) : running[i] = r => i = s1
  BY <1>1, PagedRunning
<1>4. /\ b \in Paged!Blocks /\ Tail(pool.free) \in Seq(Paged!Blocks) /\ b \in ToSet(pool.free)
      /\ ToSet(pool.free) = {b} \cup ToSet(Tail(pool.free))
      /\ Apart(pool.free) => Apart(Tail(pool.free)) /\ b \notin ToSet(Tail(pool.free))
  BY <1>1, PagedUse, HeadAndTail
<1>5. pool.owner[b] = 0 /\ Apart(pool.free) /\ ToSet(pool.free) = {a \in Paged!Blocks : pool.owner[a] = 0}
  BY <1>2, <1>4 DEF PagedInv, PagedPool
<1>6. ToSet(<< b >>) = {b}
  BY SetOfOne
<1>7. pool'.free = Tail(pool.free)
      /\ pool'.owner = [a \in Paged!Blocks |-> IF a = b THEN r ELSE pool.owner[a]]
  <2>1. Paged!Owned(pool.owner, << b >>, r) = [a \in Paged!Blocks |-> IF a \in {b} THEN r ELSE pool.owner[a]]
    BY <1>6, PagedLibrary, Zenon DEF Paged!Owned
  <2> HIDE DEF b, r
  <2> QED BY <1>1, <2>1
<1> HIDE DEF r, b
<1>8. ASSUME NEW q \in 1 .. Count
      PROVE  /\ req'[q].status = req[q].status /\ req'[q].generated = req[q].generated
             /\ req'[q].stored = req[q].stored
             /\ req'[q].table = (IF q = r THEN Append(req[q].table, b) ELSE req[q].table)
             /\ req'[q] \in PagedLive
  <2>1. req[q] \in PagedLive /\ req \in [1 .. Count -> PagedLive]
    BY PagedUse
  <2>2. CASE q = r
    <3>1. req'[q] = [req[q] EXCEPT !.table = Append(req[q].table, b)]
      BY <1>1, <1>3, <2>1, <2>2
    <3>2. Append(req[q].table, b) \in Seq(Paged!Blocks)
      <4>1. b \in Paged!Blocks /\ req[q].table \in Seq(Paged!Blocks)
        BY <1>3, <1>4, <2>2, Zenon
      <4> QED BY <4>1, AppendProperties, Zenon
    <3>3. [req[q] EXCEPT !.table = Append(req[q].table, b)] \in PagedLive
      <4>1. /\ req[q].generated \in Nat /\ req[q].stored \in Nat
            /\ req[q].status \in {"Future", "Waiting", "Running", "Finished"}
        BY <2>1, PagedLiveFields
      <4> QED BY <2>1, <3>2, <4>1, PagedLiveWith, Zenon
    <3> QED BY <2>1, <2>2, <3>1, <3>3 DEF PagedLive
  <2>3. CASE q # r
    BY <1>1, <2>1, <2>3
  <2> QED BY <2>2, <2>3
<1>9. ToSet(Append(req[r].table, b)) = ToSet(req[r].table) \cup {b} /\ b \notin ToSet(req[r].table)
      /\ Len(Append(req[r].table, b)) = Len(req[r].table) + 1
  <2>1. pool.owner[b] = r <=> b \in ToSet(req[r].table)
    BY <1>3, <1>4 DEF PagedInv, PagedPool
  <2> QED BY <1>3, <1>4, <1>5, <2>1, SetOfAppend
<1>10. PagedTyped'
  <2>1. req' \in [1 .. Count -> PagedLive]
    <3>1. DOMAIN req' = 1 .. Count /\ req' = [q \in DOMAIN req' |-> req'[q]]
      BY <1>1, PagedUse
    <3> QED BY <1>8, <3>1
  <2>2. pool'.owner \in [Paged!Blocks -> 0 .. Count]
    <3>1. /\ pool.owner \in [Paged!Blocks -> 0 .. Count] /\ Count \in Nat /\ r \in 1 .. Count
      BY <1>3, PagedUse, Zenon
    <3>2. r \in 0 .. Count
      BY <3>1
    <3>3. pool'.owner = [a \in Paged!Blocks |-> IF a = b THEN r ELSE pool.owner[a]]
      BY <1>7, Zenon
    <3> QED BY <3>1, <3>2, <3>3
  <2>3. pool'.free \in Seq(Paged!Blocks)
    BY <1>4, <1>7
  <2>4. s1' \in Nat /\ s1' > 0
    <3>1. s1 \in Nat /\ s1 > 0 /\ s1' = s1 + 1
      BY <1>1, PagedUse
    <3> QED BY <3>1
  <2> QED BY <1>1, <2>1, <2>2, <2>3, <2>4, PagedUse, PagedFixed DEF PagedTyped
<1>11. PagedQueues'
  BY <1>1, <1>8, PagedFixed DEF PagedInv, PagedQueues, PagedRound
<1>12. PagedTables'
  <2>1. Apart(Append(req[r].table, b))
    BY <1>3, <1>4, <1>9, ApartAppend DEF PagedInv, PagedTables
  <2> QED BY <1>1, <1>3, <1>8, <2>1, PagedFixed DEF PagedInv, PagedTables
<1>13. PagedHeld'
  <2>1. ASSUME NEW i \in 1 .. Len(running)
        PROVE  /\ req'[running[i]].stored = Prompt(running[i]) + req'[running[i]].generated - 1
               /\ Len(req'[running[i]].table) = Ceil(req'[running[i]].stored + Due(i)', par.B)
    <3>1. running[i] \in 1 .. Count
      BY PagedRunning
    <3>2. req'[running[i]].stored = Prompt(running[i]) + req'[running[i]].generated - 1
      BY <1>8, <3>1 DEF PagedInv, PagedHeld
    <3>3. CASE i = s1
      <4>1. Due(i) = 0 /\ Due(i)' = 1
        BY <1>1, <3>3 DEF Due
      <4>2. Ceil(req[r].stored + 1, par.B) = Len(req[r].table) + 1
        BY <1>1, <1>2, <3>3, <4>1, PagedFull DEF r
      <4> QED BY <1>3, <1>8, <1>9, <3>2, <3>3, <4>1, <4>2 DEF r
    <3>4. CASE i # s1
      <4>1. Due(i)' = Due(i)
        <5>1. s1 \in Nat /\ Len(running) \in Nat /\ s1' = s1 + 1 /\ pc' = pc
          BY <1>1, PagedUse
        <5> QED BY <3>4, <5>1 DEF Due
      <4>2. running[i] # r
        BY <1>3, <3>4
      <4> QED BY <1>2, <1>8, <3>1, <3>2, <4>1, <4>2, PagedRunning
    <3> QED BY <3>3, <3>4
  <2>2. admitted' = << >> /\ ToSet(admitted') = {}
    BY <1>1, SetOfEmpty DEF PagedInv, PagedQueues
  <2> QED BY <1>1, <1>2, <2>1, <2>2, PagedFixed DEF PagedHeld
<1>14. PagedPool'
  <2>1. ASSUME NEW a \in Paged!Blocks, NEW q \in 1 .. Count
        PROVE pool'.owner[a] = q <=> a \in ToSet(req'[q].table)
    <3>1. pool.owner[a] = q <=> a \in ToSet(req[q].table)
      BY DEF PagedInv, PagedPool
    <3>2. pool'.owner[a] = IF a = b THEN r ELSE pool.owner[a]
      BY <1>7
    <3>3. q # 0 /\ r # 0
      BY <1>3, PagedUse, SMTT(30)
    <3> QED BY <1>5, <1>8, <1>9, <3>1, <3>2, <3>3
  <2>2. ToSet(pool'.free) = {a \in Paged!Blocks : pool'.owner[a] = 0}
    <3>1. r # 0
      BY <1>3
    <3>2. ToSet(Tail(pool.free)) = {a \in Paged!Blocks : pool.owner[a] = 0} \ {b}
      BY <1>4, <1>5
    <3> QED BY <1>7, <3>1, <3>2
  <2>3. Apart(pool'.free)
    BY <1>4, <1>5, <1>7
  <2> QED BY <1>1, <2>1, <2>2, <2>3, PagedFixed DEF PagedPool
<1> QED BY <1>10, <1>11, <1>12, <1>13, <1>14 DEF PagedInv

\* Blocks go back to the pool when the tables that hold them are emptied.
LEMMA PagedRelease ==
  ASSUME PagedInv, NEW bs \in Seq(Paged!Blocks), Apart(bs), NEW V \in SUBSET (1 .. Count),
         \A a \in Paged!Blocks : a \in ToSet(bs) <=> \E v \in V : a \in ToSet(req[v].table),
         par' = par, pool' = Paged!Released(bs),
         \A q \in 1 .. Count : req'[q].table = IF q \in V THEN << >> ELSE req[q].table
  PROVE  /\ PagedPool'
         /\ pool'.owner \in [Paged!Blocks -> 0 .. Count] /\ pool'.free \in Seq(Paged!Blocks)
<1> DEFINE X == ToSet(bs)
<1>1. /\ pool'.owner = [a \in Paged!Blocks |-> IF a \in X THEN 0 ELSE pool.owner[a]]
      /\ pool'.free = IF Paged!Paged THEN pool.free \o bs ELSE pool.free
  <2>1. Paged!Owned(pool.owner, bs, 0) = [a \in Paged!Blocks |-> IF a \in X THEN 0 ELSE pool.owner[a]]
    BY PagedLibrary, Zenon DEF Paged!Owned
  <2>2. pool' = [owner |-> Paged!Owned(pool.owner, bs, 0),
                 free  |-> IF Paged!Paged THEN pool.free \o bs ELSE pool.free]
    BY Zenon DEF Paged!Released
  <2> HIDE DEF X
  <2> QED BY <2>1, <2>2
<1>2. X \subseteq Paged!Blocks
  BY SetOf
<1> HIDE DEF X
<1>3. /\ pool.owner \in [Paged!Blocks -> 0 .. Count] /\ pool.free \in Seq(Paged!Blocks) /\ Count \in Nat
  BY PagedUse
<1>4. /\ pool'.owner \in [Paged!Blocks -> 0 .. Count] /\ pool'.free \in Seq(Paged!Blocks)
  BY <1>1, <1>3
<1>5. ASSUME NEW a \in Paged!Blocks, NEW q \in 1 .. Count
      PROVE  pool'.owner[a] = q <=> a \in ToSet(req'[q].table)
  <2>1. pool'.owner[a] = IF a \in X THEN 0 ELSE pool.owner[a]
    BY <1>1
  <2>2. q # 0
    OBVIOUS
  <2>3. a \in X <=> \E v \in V : a \in ToSet(req[v].table)
    BY DEF X
  <2>4. \A v \in 1 .. Count : pool.owner[a] = v <=> a \in ToSet(req[v].table)
    BY DEF PagedInv, PagedPool
  <2>5. req'[q].table = IF q \in V THEN << >> ELSE req[q].table
    OBVIOUS
  <2>6. CASE q \in V
    <3>1. ToSet(req'[q].table) = {}
      BY <2>5, <2>6, SetOfEmpty
    <3>2. pool.owner[a] = q => a \in X
      BY <2>3, <2>4, <2>6
    <3> QED BY <2>1, <2>2, <3>1, <3>2
  <2>7. CASE q \notin V
    <3>1. pool.owner[a] = q => a \notin X
      BY <2>3, <2>4, <2>7
    <3> QED BY <2>1, <2>2, <2>4, <2>5, <2>7, <3>1
  <2> QED BY <2>6, <2>7
<1>6. ASSUME Paged!Paged
      PROVE  /\ ToSet(pool'.free) = {a \in Paged!Blocks : pool'.owner[a] = 0}
             /\ Apart(pool'.free)
  <2>1. ToSet(pool.free) = {a \in Paged!Blocks : pool.owner[a] = 0} /\ Apart(pool.free)
    BY <1>6 DEF PagedInv, PagedPool
  <2>2. pool'.free = pool.free \o bs /\ ToSet(pool.free \o bs) = ToSet(pool.free) \cup X
    BY <1>1, <1>3, <1>6, SetOfConcat DEF X
  <2>3. ToSet(pool.free) \cap X = {}
    <3>1. ASSUME NEW a \in X PROVE pool.owner[a] # 0
      <4>1. PICK v \in V : a \in ToSet(req[v].table)
        BY <1>2 DEF X
      <4>2. pool.owner[a] = v /\ v # 0
        BY <1>2, <4>1 DEF PagedInv, PagedPool
      <4> QED BY <4>2
    <3> QED BY <2>1, <3>1
  <2>4. Apart(pool.free \o bs)
    BY <1>3, <2>1, <2>3, ApartConcat DEF X
  <2>5. \A a \in Paged!Blocks : pool'.owner[a] = IF a \in X THEN 0 ELSE pool.owner[a]
    BY <1>1
  <2> QED BY <1>2, <2>1, <2>2, <2>4, <2>5
<1> QED BY <1>4, <1>5, <1>6, PagedFixed, SMTT(30) DEF PagedPool

\* A preempted request goes back to where its arrival puts it.
LEMMA PagedRequeued ==
  ASSUME PagedInv, NEW v \in 1 .. Count
  PROVE  Paged!Requeued(v) = Requeue(waiting, Arrival, v)
<1> DEFINE I == {i \in 1 .. Len(waiting) : par.specs[waiting[i]].arrival > par.specs[v].arrival}
<1>1. \A i \in 1 .. Len(waiting) : waiting[i] \in 1 .. Count
  BY PagedUse, ElementOfSeq
<1>2. \A r \in 1 .. Count : Arrival[r] = par.specs[r].arrival
  BY PagedUse DEF Arrives
<1>3. I = LaterThan(waiting, Arrival, v)
  BY <1>1, <1>2 DEF LaterThan
<1>4. Paged!Requeued(v) =
        LET later == IF I # {} THEN Min(I) ELSE 0
        IN  IF later = 0 THEN Append(waiting, v) ELSE InsertAt(waiting, later, v)
  BY PagedLibrary, Zenon DEF Paged!Requeued, Paged!SelectInSeq
<1>5. I # {} => Min(I) # 0
  <2>1. I \subseteq 1 .. Len(waiting) /\ I \in SUBSET Nat
    BY PagedUse, SMTT(30)
  <2> HIDE DEF I
  <2>2. I # {} => Min(I) \in I
    BY <2>1, MinOf
  <2> QED BY <2>1, <2>2
<1> HIDE DEF I
<1> QED BY <1>3, <1>4, <1>5 DEF Requeue

\* A preempted request gives back all its blocks and waits again.
LEMMA PagedPreempt == ASSUME PagedInv, Paged!Preempt PROVE PagedInv'
<1> DEFINE v == Last(running)
           bs == req[v].table
<1>1. /\ pc = "grow" /\ s1 \in 1 .. Len(running)
      /\ pool' = Paged!Released(bs)
      /\ req' = [req EXCEPT ![v] = [@ EXCEPT !.status = "Waiting", !.stored = 0, !.table = << >>]]
      /\ running' = Front(running) /\ waiting' = Paged!Requeued(v)
      /\ par' = par /\ it' = it /\ pc' = pc /\ admitted' = admitted /\ s1' = s1
  <2>1. s1 \in Nat /\ s1 > 0 /\ Len(running) \in Nat
    BY PagedUse
  <2>2. Paged!Last(running) = Last(running) /\ Paged!Front(running) = Front(running)
    BY PagedLibrary
  <2> QED BY <2>1, <2>2 DEF Paged!Preempt, Paged!Growing
<1>2. running # << >> /\ Len(running) \in Nat
  BY <1>1, PagedUse
<1>3. /\ Front(running) \in Seq(1 .. Count) /\ v \in 1 .. Count /\ running = Append(Front(running), v)
      /\ Len(Front(running)) = Len(running) - 1 /\ v = running[Len(running)]
      /\ \A i \in 1 .. Len(running) - 1 : Front(running)[i] = running[i]
  BY <1>2, PagedUse, FrontAndLast
<1>4. /\ v \in ToSet(running) /\ req[v].status = "Running" /\ bs \in Seq(Paged!Blocks) /\ Apart(bs)
      /\ \A j \in 1 .. Len(running) : running[j] = v => j = Len(running)
  BY <1>2, <1>3, PagedRunning DEF PagedInv, PagedTables
<1> HIDE DEF v, bs
<1>5. ASSUME NEW q \in 1 .. Count
      PROVE  /\ req'[q].status = (IF q = v THEN "Waiting" ELSE req[q].status)
             /\ req'[q].generated = req[q].generated
             /\ req'[q].stored = (IF q = v THEN 0 ELSE req[q].stored)
             /\ req'[q].table = (IF q \in {v} THEN << >> ELSE req[q].table)
             /\ req'[q] \in PagedLive
  <2>1. req[q] \in PagedLive /\ req \in [1 .. Count -> PagedLive]
    BY PagedUse
  <2>2. CASE q = v
    <3>1. req'[q] = [req[q] EXCEPT !.status = "Waiting", !.stored = 0, !.table = << >>]
      BY <1>1, <1>3, <2>1, <2>2
    <3>2. [req[q] EXCEPT !.status = "Waiting", !.stored = 0, !.table = << >>] \in PagedLive
      <4>1. "Waiting" \in {"Future", "Waiting", "Running", "Finished"} /\ 0 \in Nat
            /\ << >> \in Seq(Paged!Blocks) /\ req[q].generated \in Nat
        BY <2>1, PagedLiveFields
      <4> QED BY <2>1, <4>1, PagedLiveWith, Zenon
    <3> QED BY <2>1, <2>2, <3>1, <3>2 DEF PagedLive
  <2>3. CASE q # v
    BY <1>1, <2>1, <2>3
  <2> QED BY <2>2, <2>3
<1>6. /\ ToSet(running) = ToSet(running') \cup {v} /\ v \notin ToSet(running')
      /\ Apart(running') /\ ToSet(running') \subseteq 1 .. Count
  <2>1. Apart(running)
    BY PagedUse, ApartConcat DEF PagedInv, PagedQueues
  <2>2. ToSet(Append(Front(running), v)) = ToSet(Front(running)) \cup {v}
        /\ (Apart(Append(Front(running), v)) <=> Apart(Front(running)) /\ v \notin ToSet(Front(running)))
    <3> DEFINE f == Front(running)
               R == 1 .. Count
    <3>1. f \in Seq(R) /\ v \in R
      BY <1>3
    <3> HIDE DEF f, R
    <3>2. ToSet(Append(f, v)) = ToSet(f) \cup {v}
      BY <3>1, SetOfAppend
    <3>3. Apart(Append(f, v)) <=> Apart(f) /\ v \notin ToSet(f)
      BY <3>1, ApartAppend
    <3> QED BY <3>2, <3>3 DEF f
  <2>3. ToSet(Front(running)) \subseteq 1 .. Count
    BY <1>3, SetOf
  <2> QED BY <1>1, <1>3, <2>1, <2>2, <2>3
<1>7. admitted = << >> /\ ToSet(admitted) = {} /\ Paged!Paged
  BY <1>1, SetOfEmpty DEF PagedInv, PagedQueues
<1>8. /\ waiting' \in Seq(1 .. Count) /\ ToSet(waiting') = ToSet(waiting) \cup {v}
      /\ Rising(waiting', Arrival) /\ Apart(waiting')
  <2>1. Rising(waiting, Arrival) /\ Apart(waiting) /\ v \notin ToSet(waiting)
    BY <1>3, <1>4 DEF PagedInv, PagedQueues
  <2>2. waiting' = Requeue(waiting, Arrival, v)
    BY <1>1, <1>3, PagedRequeued
  <2> DEFINE R == 1 .. Count
  <2>3. waiting \in Seq(R) /\ Arrival \in [R -> Nat] /\ v \in R
    BY <1>3, PagedUse
  <2> HIDE DEF R
  <2>4. /\ Requeue(waiting, Arrival, v) \in Seq(R)
        /\ ToSet(Requeue(waiting, Arrival, v)) = ToSet(waiting) \cup {v}
        /\ Rising(Requeue(waiting, Arrival, v), Arrival)
        /\ Apart(waiting) /\ v \notin ToSet(waiting) => Apart(Requeue(waiting, Arrival, v))
    BY <2>1, <2>3, Requeueing
  <2> QED BY <2>1, <2>2, <2>4 DEF R
<1>9. PagedPool' /\ pool'.owner \in [Paged!Blocks -> 0 .. Count] /\ pool'.free \in Seq(Paged!Blocks)
  <2>1. {v} \in SUBSET (1 .. Count)
    BY <1>3
  <2>2. \A a \in Paged!Blocks : a \in ToSet(bs) <=> \E w \in {v} : a \in ToSet(req[w].table)
    BY DEF bs
  <2>3. \A q \in 1 .. Count : req'[q].table = IF q \in {v} THEN << >> ELSE req[q].table
    BY <1>5
  <2> DEFINE V == {v}
  <2> HIDE DEF V
  <2> QED BY <1>1, <1>4, <2>1, <2>2, <2>3, PagedRelease DEF V
<1>10. PagedTyped'
  <2>1. req' \in [1 .. Count -> PagedLive]
    <3>1. DOMAIN req' = 1 .. Count /\ req' = [q \in DOMAIN req' |-> req'[q]]
      BY <1>1, PagedUse
    <3> QED BY <1>5, <3>1
  <2>2. running' \in Seq(1 .. Count)
    BY <1>1, <1>3
  <2> QED BY <1>1, <1>8, <1>9, <2>1, <2>2, PagedUse, PagedFixed DEF PagedTyped
<1>11. PagedQueues'
  <2>1. ASSUME NEW r \in 1 .. Count
        PROVE  /\ req'[r].status = "Waiting" <=> r \in ToSet(waiting')
               /\ req'[r].status = "Running" <=> r \in ToSet(running') \cup ToSet(admitted')
               /\ req'[r].status = "Future"  <=> Arrival[r] >= PagedRound
    <3>1. /\ req[r].status = "Waiting" <=> r \in ToSet(waiting)
          /\ req[r].status = "Running" <=> r \in ToSet(running) \cup ToSet(admitted)
          /\ req[r].status = "Future"  <=> Arrival[r] >= PagedRound
      BY DEF PagedInv, PagedQueues
    <3> QED BY <1>1, <1>4, <1>5, <1>6, <1>7, <1>8, <3>1
  <2>2. Apart(running' \o admitted')
    <3>1. running' \in Seq(1 .. Count) /\ running' \o << >> = running'
      BY <1>1, <1>3
    <3> QED BY <1>1, <1>6, <1>7, <3>1
  <2>3. PagedRound' = PagedRound
    BY <1>1 DEF PagedRound
  <2>4. Count' = Count /\ Arrival' = Arrival /\ Paged!Paged' = Paged!Paged
    BY <1>1, PagedFixed, Zenon
  <2> QED BY <1>1, <1>7, <1>8, <2>1, <2>2, <2>3, <2>4 DEF PagedQueues
<1>12. PagedTables'
  <2>1. Apart(<< >>)
    BY DEF Apart
  <2>2. ASSUME NEW r \in 1 .. Count
        PROVE  /\ Apart(req'[r].table)
               /\ req'[r].status # "Running" => req'[r].table = << >>
               /\ req'[r].status # "Finished" => req'[r].generated < Out(r)
    BY <1>4, <1>5, <2>1 DEF PagedInv, PagedTables
  <2> QED BY <1>1, <2>2, PagedFixed DEF PagedTables
<1>13. PagedHeld'
  <2>1. ASSUME NEW i \in 1 .. Len(running')
        PROVE  /\ req'[running'[i]].stored = Prompt(running'[i]) + req'[running'[i]].generated - 1
               /\ Len(req'[running'[i]].table) = Ceil(req'[running'[i]].stored + Due(i)', par.B)
    <3>1. i \in 1 .. Len(running) - 1 /\ i \in 1 .. Len(running) /\ running'[i] = running[i]
      BY <1>1, <1>2, <1>3
    <3>2. running[i] \in 1 .. Count /\ running[i] # v
      <4>1. running[i] \in 1 .. Count /\ \A j \in 1 .. Len(running) : running[j] = running[i] => j = i
        BY <3>1, PagedRunning, Zenon
      <4> QED BY <1>2, <1>4, <3>1, <4>1
    <3>3. Due(i)' = Due(i)
      BY <1>1 DEF Due
    <3>4. req[running[i]].stored = Prompt(running[i]) + req[running[i]].generated - 1
      BY <3>1 DEF PagedInv, PagedHeld
    <3>5. Len(req[running[i]].table) = Ceil(req[running[i]].stored + Due(i), par.B)
      BY <1>7, <3>1, PagedRunning
    <3> QED BY <1>5, <3>1, <3>2, <3>3, <3>4, <3>5
  <2>2. \A r : Prompt(r)' = Prompt(r)
    BY <1>1, PagedFixed, Zenon
  <2>3. ToSet(admitted') = {} /\ par' = par /\ Paged!Paged' = Paged!Paged
    BY <1>1, <1>7, PagedFixed, Zenon
  <2> QED BY <1>7, <2>1, <2>2, <2>3 DEF PagedHeld
<1> QED BY <1>9, <1>10, <1>11, <1>12, <1>13 DEF PagedInv

\* Admission ends.
LEMMA PagedAdmitted == ASSUME PagedInv, Paged!Admitted PROVE PagedInv'
<1>1. /\ pc = "admit" /\ pc' = "execute"
      /\ par' = par /\ it' = it /\ s1' = s1 /\ pool' = pool /\ req' = req
      /\ waiting' = waiting /\ running' = running /\ admitted' = admitted
  BY DEF Paged!Admitted
<1>2. PagedTyped'
  BY <1>1, PagedFixed DEF PagedInv, PagedTyped
<1>3. PagedQueues' /\ PagedTables' /\ PagedPool'
  BY <1>1, PagedFixed DEF PagedInv, PagedQueues, PagedTables, PagedPool, PagedRound
<1>4. \A i \in 1 .. Len(running) : Due(i)' = Due(i)
  BY <1>1 DEF Due
<1>5. PagedHeld'
  BY <1>1, <1>4, PagedFixed DEF PagedInv, PagedHeld
<1> QED BY <1>2, <1>3, <1>5 DEF PagedInv

\* What an admitted request needs.
Asked(r) == Ceil(Prompt(r) + (IF Paged!Paged THEN req[r].generated ELSE MAX_NEW), par.B)

\* The blocks an admitted request gets are free, and as many as it needs.
LEMMA PagedGot ==
  ASSUME PagedInv, NEW r \in 1 .. Count, Paged!Fits(r)
  PROVE  LET g == Paged!Got(r) n == Paged!Need(r) rest == SubSeq(pool.free, n + 1, Len(pool.free)) IN
         /\ n \in Nat /\ n = Asked(r)
         /\ g \in Seq(Paged!Blocks) /\ Len(g) = n /\ Apart(g)
         /\ \A b \in ToSet(g) : b \in Paged!Blocks /\ pool.owner[b] = 0
         /\ ~Paged!Paged => Run(g)
         /\ Paged!Paged => /\ rest \in Seq(Paged!Blocks) /\ Apart(rest)
                           /\ ToSet(rest) = ToSet(pool.free) \ ToSet(g)
<1> DEFINE g == Paged!Got(r)
           n == Paged!Need(r)
           free == pool.free
           rest == SubSeq(free, n + 1, Len(free))
<1>1. n \in Nat /\ n = Asked(r)
  <2> DEFINE t == Prompt(r) + (IF Paged!Paged THEN req[r].generated ELSE MAX_NEW)
  <2>1. Prompt(r) \in Nat /\ req[r].generated \in Nat /\ MAX_NEW \in Nat /\ par.B \in Nat /\ par.B > 0
    BY PagedUse
  <2>2. t \in Nat
    BY <2>1
  <2>3. n = Ceil(t, par.B)
    BY DEF Paged!Need, Paged!BlocksFor, Ceil, Prompt
  <2> HIDE DEF t, n
  <2>4. Ceil(t, par.B) \in Nat
    BY <2>1, <2>2, CeilIs
  <2> QED BY <2>3, <2>4 DEF Asked, t
<1> HIDE DEF n
<1>2. ASSUME Paged!Paged
      PROVE  /\ g \in Seq(Paged!Blocks) /\ Len(g) = n /\ Apart(g)
             /\ rest \in Seq(Paged!Blocks) /\ Apart(rest)
             /\ ToSet(rest) = ToSet(free) \ ToSet(g)
             /\ ToSet(g) \subseteq ToSet(free)
  <2>1. g = SubSeq(free, 1, n)
    BY <1>2 DEF Paged!Got, n
  <2>2. n <= Len(free)
    BY <1>2 DEF Paged!Fits, n
  <2>3. free \in Seq(Paged!Blocks) /\ Apart(free) /\ Len(free) \in Nat
    BY <1>2, PagedUse, SMTT(30) DEF PagedInv, PagedPool
  <2> HIDE DEF g, free
  <2>4. n \in 0 .. Len(free)
    BY <1>1, <2>2, <2>3
  <2>5. /\ g \in Seq(Paged!Blocks) /\ rest \in Seq(Paged!Blocks) /\ Len(g) = n /\ free = g \o rest
    BY <2>1, <2>3, <2>4, HeadAndRest, ZenonT(40)
  <2> HIDE DEF rest
  <2>6. /\ ToSet(free) = ToSet(g) \cup ToSet(rest) /\ Apart(g) /\ Apart(rest)
        /\ ToSet(g) \cap ToSet(rest) = {}
    BY <2>3, <2>5, SetOfConcat, ApartConcat
  <2> QED BY <2>5, <2>6
<1>3. ASSUME ~Paged!Paged
      PROVE  /\ g \in Seq(Paged!Blocks) /\ Len(g) = n /\ Apart(g) /\ Run(g)
             /\ \A b \in ToSet(g) : pool.owner[b] = 0
  <2> DEFINE R == Paged!Runs(n)
             first == CHOOSE b \in R : \A c \in R : b <= c
  <2>1. g = [i \in 1 .. n |-> first + i - 1] /\ R # {}
    BY <1>3 DEF Paged!Got, Paged!Fits, n
  <2>2. par.N \in Nat /\ R = {b \in 0 .. par.N - n : \A i \in b .. b + n - 1 : pool.owner[i] = 0}
        /\ Paged!Blocks = 0 .. par.N - 1
    BY PagedUse DEF Paged!Runs
  <2>3. R \in SUBSET Nat
    BY <1>1, <2>2
  <2>4. first \in R
    <3> HIDE DEF R
    <3>1. \E m \in R : \A c \in R : m <= c
      BY <2>1, <2>3, LeastOf
    <3> QED BY <3>1
  <2> HIDE DEF first
  <2>5. first \in 0 .. par.N - n /\ \A i \in first .. first + n - 1 : pool.owner[i] = 0
    BY <2>2, <2>4
  <2> HIDE DEF R, g
  <2>6. \A i \in 1 .. n : /\ first + i - 1 \in 0 .. par.N - 1
                          /\ first + i - 1 \in first .. first + n - 1
    BY <1>1, <2>2, <2>5, SMTT(30)
  <2>7. g \in Seq(Paged!Blocks) /\ Len(g) = n
    <3>1. \A i \in 1 .. n : first + i - 1 \in Paged!Blocks
      BY <2>2, <2>6
    <3>2. g \in [1 .. n -> Paged!Blocks]
      BY <2>1, <3>1
    <3> QED BY <1>1, <3>2
  <2>8. Apart(g) /\ Run(g)
    BY <1>1, <2>1, <2>5 DEF Apart, Run
  <2>9. \A b \in ToSet(g) : pool.owner[b] = 0
    <3>1. \A b \in ToSet(g) : \E i \in 1 .. Len(g) : g[i] = b
      BY <2>7, Listed
    <3>2. ASSUME NEW b \in ToSet(g) PROVE pool.owner[b] = 0
      <4>1. PICK i \in 1 .. n : b = first + i - 1
        BY <2>1, <2>7, <3>1
      <4>2. b \in first .. first + n - 1
        BY <2>6, <4>1
      <4> QED BY <2>5, <4>2
    <3> QED BY <3>2
  <2> QED BY <2>7, <2>8, <2>9
<1> HIDE DEF g, free, rest
<1>4. g \in Seq(Paged!Blocks) /\ Len(g) = n /\ Apart(g)
  BY <1>2, <1>3
<1>5. ASSUME NEW b \in ToSet(g) PROVE b \in Paged!Blocks /\ pool.owner[b] = 0
  <2>1. b \in Paged!Blocks
    BY <1>4, SetOf
  <2>2. Paged!Paged => ToSet(free) = {a \in Paged!Blocks : pool.owner[a] = 0}
    BY DEF PagedInv, PagedPool, free
  <2> QED BY <1>2, <1>3, <2>1, <2>2
<1> QED BY <1>1, <1>2, <1>3, <1>4, <1>5 DEF g, n, free, rest

\* An admitted request takes its blocks, or its run of them, from those that
\* are free.
LEMMA PagedAdmit == ASSUME PagedInv, Paged!Admit PROVE PagedInv'
<1> DEFINE r == Head(waiting)
           g == Paged!Got(r)
           n == Paged!Need(r)
           rest == SubSeq(pool.free, n + 1, Len(pool.free))
<1>1. /\ pc = "admit" /\ waiting # << >> /\ Paged!Fits(r)
      /\ pool' = [owner |-> Paged!Owned(pool.owner, g, r),
                  free  |-> IF Paged!Paged THEN rest ELSE pool.free]
      /\ req' = [req EXCEPT ![r].status = "Running", ![r].table = g]
      /\ waiting' = Tail(waiting) /\ admitted' = Append(admitted, r)
      /\ par' = par /\ it' = it /\ pc' = pc /\ running' = running /\ s1' = s1
  BY DEF Paged!Admit, Paged!Room
<1>2. /\ r \in 1 .. Count /\ Tail(waiting) \in Seq(1 .. Count) /\ waiting = << r >> \o Tail(waiting)
      /\ ToSet(waiting) = {r} \cup ToSet(Tail(waiting))
      /\ Apart(waiting) <=> Apart(Tail(waiting)) /\ r \notin ToSet(Tail(waiting))
  <2> DEFINE R == 1 .. Count
  <2>1. waiting \in Seq(R)
    BY PagedUse
  <2> HIDE DEF R
  <2>2. /\ Head(waiting) \in R /\ Tail(waiting) \in Seq(R) /\ waiting = << Head(waiting) >> \o Tail(waiting)
        /\ ToSet(waiting) = {Head(waiting)} \cup ToSet(Tail(waiting))
        /\ (Apart(waiting) <=> Apart(Tail(waiting)) /\ Head(waiting) \notin ToSet(Tail(waiting)))
    BY <1>1, <2>1, HeadAndTail
  <2> QED BY <2>2 DEF R
<1> HIDE DEF r
<1>3. /\ n \in Nat /\ n = Asked(r)
      /\ g \in Seq(Paged!Blocks) /\ Len(g) = n /\ Apart(g)
      /\ \A b \in ToSet(g) : b \in Paged!Blocks /\ pool.owner[b] = 0
      /\ ~Paged!Paged => Run(g)
      /\ Paged!Paged => /\ rest \in Seq(Paged!Blocks) /\ Apart(rest)
                        /\ ToSet(rest) = ToSet(pool.free) \ ToSet(g)
  BY <1>1, <1>2, PagedGot
<1> DEFINE X == ToSet(g)
<1>4. /\ pool'.owner = [a \in Paged!Blocks |-> IF a \in X THEN r ELSE pool.owner[a]]
      /\ pool'.free = IF Paged!Paged THEN rest ELSE pool.free
  <2>1. Paged!Owned(pool.owner, g, r) = [a \in Paged!Blocks |-> IF a \in X THEN r ELSE pool.owner[a]]
    BY PagedLibrary, Zenon DEF Paged!Owned
  <2> HIDE DEF X, g, rest
  <2> QED BY <1>1, <2>1
<1> HIDE DEF g, n, rest
<1>5. /\ Apart(waiting) /\ Rising(waiting, Arrival) /\ Apart(running \o admitted)
      /\ req[r].status = "Waiting" /\ req[r].table = << >> /\ r \notin ToSet(running) \cup ToSet(admitted)
      /\ req[r].generated < Out(r)
  <2>1. r \in ToSet(waiting)
    BY <1>2
  <2>2. req[r].status = "Waiting"
    BY <1>2, <2>1 DEF PagedInv, PagedQueues
  <2> QED BY <1>2, <2>2 DEF PagedInv, PagedQueues, PagedTables
<1>6. ASSUME NEW q \in 1 .. Count
      PROVE  /\ req'[q].status = (IF q = r THEN "Running" ELSE req[q].status)
             /\ req'[q].generated = req[q].generated /\ req'[q].stored = req[q].stored
             /\ req'[q].table = (IF q = r THEN g ELSE req[q].table)
             /\ req'[q] \in PagedLive
  <2>1. req[q] \in PagedLive /\ req \in [1 .. Count -> PagedLive]
    BY PagedUse
  <2>2. CASE q = r
    <3>1. req'[q] = [req[q] EXCEPT !.status = "Running", !.table = g]
      BY <1>1, <1>2, <2>1, <2>2
    <3>2. [req[q] EXCEPT !.status = "Running", !.table = g] \in PagedLive
      <4>1. "Running" \in {"Future", "Waiting", "Running", "Finished"} /\ 0 \in Nat
        OBVIOUS
      <4> QED BY <1>3, <2>1, <4>1, PagedLiveWith, Zenon
    <3> QED BY <2>1, <2>2, <3>1, <3>2 DEF PagedLive
  <2>3. CASE q # r
    BY <1>1, <2>1, <2>3
  <2> QED BY <2>2, <2>3
<1>7. /\ admitted' \in Seq(1 .. Count) /\ ToSet(admitted') = ToSet(admitted) \cup {r}
      /\ running \o admitted' = Append(running \o admitted, r)
      /\ Apart(running \o admitted') /\ ToSet(admitted) \subseteq 1 .. Count
  <2> DEFINE R == 1 .. Count
             b == running \o admitted
  <2>1. running \in Seq(R) /\ admitted \in Seq(R) /\ r \in R
    BY <1>2, PagedUse
  <2> HIDE DEF R
  <2>2. b \in Seq(R) /\ ToSet(b) = ToSet(running) \cup ToSet(admitted)
    BY <2>1, SetOfConcat
  <2>3. running \o Append(admitted, r) = Append(b, r)
    BY <2>1
  <2>4. Append(admitted, r) \in Seq(R) /\ ToSet(Append(admitted, r)) = ToSet(admitted) \cup {r}
    BY <2>1, SetOfAppend
  <2>5. Apart(b) /\ r \notin ToSet(b)
    BY <1>5, <2>2
  <2> HIDE DEF b
  <2>6. Apart(Append(b, r))
    BY <2>1, <2>2, <2>5, ApartAppend
  <2>7. ToSet(admitted) \subseteq R
    BY <2>1, SetOf
  <2> QED BY <1>1, <2>3, <2>4, <2>6, <2>7 DEF R, b
<1>8. PagedTyped'
  <2>1. req' \in [1 .. Count -> PagedLive]
    <3>1. DOMAIN req' = 1 .. Count /\ req' = [q \in DOMAIN req' |-> req'[q]]
      BY <1>1, PagedUse
    <3> QED BY <1>6, <3>1
  <2>2. pool'.owner \in [Paged!Blocks -> 0 .. Count] /\ pool'.free \in Seq(Paged!Blocks)
    <3>1. pool.owner \in [Paged!Blocks -> 0 .. Count] /\ pool.free \in Seq(Paged!Blocks) /\ r \in 0 .. Count
      <4>1. /\ pool.owner \in [Paged!Blocks -> 0 .. Count] /\ pool.free \in Seq(Paged!Blocks)
            /\ Count \in Nat /\ r \in 1 .. Count
        BY <1>2, PagedUse, Zenon
      <4>2. r \in 0 .. Count
        <5> HIDE DEF r
        <5> QED BY <4>1
      <4> QED BY <4>1, <4>2, Zenon
    <3> HIDE DEF X
    <3>2. pool'.owner \in [Paged!Blocks -> 0 .. Count]
      BY <1>4, <3>1
    <3> QED BY <1>3, <1>4, <3>1, <3>2
  <2> QED BY <1>1, <1>2, <1>7, <2>1, <2>2, PagedUse, PagedFixed DEF PagedTyped
<1>9. PagedQueues'
  <2>1. ASSUME NEW q \in 1 .. Count
        PROVE  /\ req'[q].status = "Waiting" <=> q \in ToSet(waiting')
               /\ req'[q].status = "Running" <=> q \in ToSet(running') \cup ToSet(admitted')
               /\ req'[q].status = "Future"  <=> Arrival[q] >= PagedRound
    <3>1. /\ req[q].status = "Waiting" <=> q \in ToSet(waiting)
          /\ req[q].status = "Running" <=> q \in ToSet(running) \cup ToSet(admitted)
          /\ req[q].status = "Future"  <=> Arrival[q] >= PagedRound
      BY DEF PagedInv, PagedQueues
    <3>2. q \in ToSet(waiting') <=> q \in ToSet(waiting) /\ q # r
      BY <1>1, <1>2, <1>5
    <3>3. q \in ToSet(running') \cup ToSet(admitted') <=> q \in ToSet(running) \cup ToSet(admitted) \/ q = r
      BY <1>1, <1>7
    <3>4. req'[q].status = IF q = r THEN "Running" ELSE req[q].status
      BY <1>6
    <3> QED BY <1>5, <3>1, <3>2, <3>3, <3>4
  <2>2. Rising(waiting', Arrival)
    <3> DEFINE R == 1 .. Count
               t == Tail(waiting)
    <3>1. << r >> \in Seq(R) /\ t \in Seq(R) /\ Arrival \in [R -> Nat] /\ waiting = << r >> \o t
      BY <1>2, PagedUse, SMTT(30)
    <3> HIDE DEF R, t
    <3>2. Rising(t, Arrival)
      BY <1>5, <3>1, RisingConcat
    <3> QED BY <1>1, <3>2 DEF t
  <2>3. Apart(waiting')
    BY <1>1, <1>2, <1>5
  <2>4. PagedRound' = PagedRound /\ pc' = "admit"
    BY <1>1 DEF PagedRound
  <2>5. Count' = Count /\ Arrival' = Arrival /\ Paged!Paged' = Paged!Paged
    BY <1>1, PagedFixed, Zenon
  <2> QED BY <1>1, <1>7, <2>1, <2>2, <2>3, <2>4, <2>5 DEF PagedQueues
<1>10. PagedTables'
  <2>1. ASSUME NEW q \in 1 .. Count
        PROVE  /\ Apart(req'[q].table)
               /\ req'[q].status # "Running" => req'[q].table = << >>
               /\ req'[q].status # "Finished" => req'[q].generated < Out(q)
    BY <1>3, <1>5, <1>6 DEF PagedInv, PagedTables
  <2> QED BY <1>1, <2>1, PagedFixed DEF PagedTables
<1>11. PagedHeld'
  <2>1. ASSUME NEW i \in 1 .. Len(running)
        PROVE  /\ req'[running[i]].stored = Prompt(running[i]) + req'[running[i]].generated - 1
               /\ Paged!Paged => Len(req'[running[i]].table) = Ceil(req'[running[i]].stored + Due(i)', par.B)
    <3>1. running[i] \in 1 .. Count /\ running[i] # r
      BY <1>5, PagedRunning
    <3>2. Due(i)' = Due(i)
      BY <1>1 DEF Due
    <3>3. req[running[i]].stored = Prompt(running[i]) + req[running[i]].generated - 1
      BY DEF PagedInv, PagedHeld
    <3> QED BY <1>6, <3>1, <3>2, <3>3, PagedRunning
  <2>2. Len(req'[r].table) = Asked(r) /\ (~Paged!Paged => Run(req'[r].table))
        /\ req'[r].generated = req[r].generated
    BY <1>2, <1>3, <1>6
  <2>3. ASSUME Paged!Paged, NEW q \in ToSet(admitted')
        PROVE  Len(req'[q].table) = Ceil(Prompt(q) + req'[q].generated, par.B)
    <3>1. CASE q = r
      BY <2>2, <2>3, <3>1 DEF Asked
    <3>2. CASE q # r
      BY <1>6, <1>7, <2>3, <3>2 DEF PagedInv, PagedHeld
    <3> QED BY <3>1, <3>2
  <2>4. ASSUME ~Paged!Paged, NEW q \in ToSet(running) \cup ToSet(admitted')
        PROVE  Len(req'[q].table) = Ceil(Prompt(q) + MAX_NEW, par.B) /\ Run(req'[q].table)
    <3>1. CASE q = r
      BY <2>2, <2>4, <3>1 DEF Asked
    <3>2. CASE q # r
      <4>1. q \in ToSet(running) \cup ToSet(admitted) /\ q \in 1 .. Count
        BY <1>7, <2>4, <3>2, PagedUse
      <4> QED BY <1>6, <2>4, <3>2, <4>1 DEF PagedInv, PagedHeld
    <3> QED BY <3>1, <3>2
  <2>5. \A q : Prompt(q)' = Prompt(q)
    BY <1>1, PagedFixed, Zenon
  <2>6. par' = par /\ running' = running /\ Paged!Paged' = Paged!Paged
    BY <1>1, PagedFixed, Zenon
  <2> QED BY <2>1, <2>3, <2>4, <2>5, <2>6 DEF PagedHeld
<1>12. PagedPool'
  <2>1. ASSUME NEW a \in Paged!Blocks, NEW q \in 1 .. Count
        PROVE  pool'.owner[a] = q <=> a \in ToSet(req'[q].table)
    <3>1. pool.owner[a] = q <=> a \in ToSet(req[q].table)
      BY DEF PagedInv, PagedPool
    <3>2. pool'.owner[a] = IF a \in X THEN r ELSE pool.owner[a]
      BY <1>4
    <3>3. q # 0 /\ ToSet(req[r].table) = {} /\ ToSet(g) = X
      BY <1>5, SetOfEmpty
    <3>4. pool.owner[a] = r => FALSE
      BY <1>2, <3>3 DEF PagedInv, PagedPool
    <3>5. a \in X => pool.owner[a] = 0
      BY <1>3
    <3>6. req'[q].table = IF q = r THEN g ELSE req[q].table
      BY <1>6
    <3> HIDE DEF X
    <3> QED BY <3>1, <3>2, <3>3, <3>4, <3>5, <3>6
  <2>2. ASSUME Paged!Paged
        PROVE  ToSet(pool'.free) = {a \in Paged!Blocks : pool'.owner[a] = 0} /\ Apart(pool'.free)
    <3>1. ToSet(pool.free) = {a \in Paged!Blocks : pool.owner[a] = 0}
      BY <2>2 DEF PagedInv, PagedPool
    <3>2. r # 0 /\ pool'.free = rest /\ ToSet(rest) = ToSet(pool.free) \ X /\ Apart(rest)
      BY <1>2, <1>3, <1>4, <2>2
    <3>3. \A a \in Paged!Blocks : pool'.owner[a] = IF a \in X THEN r ELSE pool.owner[a]
      BY <1>4
    <3> HIDE DEF X
    <3> QED BY <3>1, <3>2, <3>3
  <2>3. Count' = Count /\ Paged!Blocks' = Paged!Blocks /\ Paged!Paged' = Paged!Paged
    BY <1>1, PagedFixed, Zenon
  <2> QED BY <2>1, <2>2, <2>3 DEF PagedPool
<1> QED BY <1>8, <1>9, <1>10, <1>11, <1>12 DEF PagedInv

\* The batch of an iteration, who is done in it, who is left, and what is freed.
PBatch == running \o admitted
PDone  == Kept(PBatch, {r \in 1 .. Count : req[r].generated + 1 >= par.specs[r].out})
PLeft  == Kept(PBatch, (1 .. Count) \ ToSet(PDone))
PFreed == FlattenSeq([i \in DOMAIN PDone |-> req[Reverse(PDone)[i]].table])

\* Who ends in this iteration, and who goes on.
LEMMA PagedDone ==
  ASSUME PagedInv
  PROVE  /\ PBatch \in Seq(1 .. Count) /\ Apart(PBatch)
         /\ ToSet(PBatch) = ToSet(running) \cup ToSet(admitted)
         /\ PDone \in Seq(1 .. Count) /\ Apart(PDone)
         /\ \A r \in 1 .. Count : r \in ToSet(PDone) <=> r \in ToSet(PBatch) /\ req[r].generated + 1 >= Out(r)
         /\ ToSet(PDone) \subseteq ToSet(PBatch) /\ ToSet(PBatch) \subseteq 1 .. Count
         /\ PLeft \in Seq(1 .. Count) /\ Apart(PLeft) /\ ToSet(PLeft) = ToSet(PBatch) \ ToSet(PDone)
<1> DEFINE R == 1 .. Count
           D == {r \in R : req[r].generated + 1 >= par.specs[r].out}
<1>1. running \in Seq(R) /\ admitted \in Seq(R)
  BY PagedUse
<1>2. PDone = Kept(PBatch, D) /\ PLeft = Kept(PBatch, R \ ToSet(PDone))
  BY DEF PDone, PLeft
<1>3. \A r \in R : r \in D <=> req[r].generated + 1 >= Out(r)
  BY DEF Out
<1> HIDE DEF R, D
<1>4. PBatch \in Seq(R) /\ ToSet(PBatch) = ToSet(running) \cup ToSet(admitted) /\ Apart(PBatch)
  BY <1>1, SetOfConcat DEF PBatch, PagedInv, PagedQueues
<1>5. PDone \in Seq(R) /\ Apart(PDone) /\ ToSet(PDone) = ToSet(PBatch) \cap D
  BY <1>2, <1>4, KeptPlaces, KeptSet, KeptApart
<1>6. ToSet(PBatch) \subseteq R
  BY <1>4, SetOf
<1>7. PLeft \in Seq(R) /\ Apart(PLeft) /\ ToSet(PLeft) = ToSet(PBatch) \cap (R \ ToSet(PDone))
  <2> DEFINE T == R \ ToSet(PDone)
  <2> HIDE DEF T
  <2>1. PLeft = Kept(PBatch, T)
    BY <1>2 DEF T
  <2>2. PLeft \in Seq(R) /\ Apart(PLeft) /\ ToSet(PLeft) = ToSet(PBatch) \cap T
    BY <1>4, <2>1, KeptPlaces, KeptSet, KeptApart
  <2> QED BY <2>2 DEF T
<1>8. \A r \in R : r \in ToSet(PDone) <=> r \in ToSet(PBatch) /\ req[r].generated + 1 >= Out(r)
  BY <1>3, <1>5
<1> QED BY <1>4, <1>5, <1>6, <1>7, <1>8 DEF R

\* The blocks given back are those of the requests that end, each once.
LEMMA PagedFreed ==
  ASSUME PagedInv
  PROVE  /\ PFreed \in Seq(Paged!Blocks) /\ Apart(PFreed)
         /\ \A a \in Paged!Blocks : a \in ToSet(PFreed) <=> \E v \in ToSet(PDone) : a \in ToSet(req[v].table)
<1> DEFINE R == 1 .. Count
           rev == Reverse(PDone)
           n == Len(PDone)
           ss == [i \in 1 .. n |-> req[rev[i]].table]
<1>1. PDone \in Seq(R) /\ Apart(PDone)
  BY PagedDone
<1>2. \A r \in R : req[r].table \in Seq(Paged!Blocks) /\ Apart(req[r].table)
  BY PagedUse DEF PagedInv, PagedTables
<1>3. \A p, q \in R : p # q => ToSet(req[p].table) \cap ToSet(req[q].table) = {}
  <2>1. ASSUME NEW p \in R, NEW q \in R, NEW a \in ToSet(req[p].table), a \in ToSet(req[q].table) PROVE p = q
    <3>1. a \in Paged!Blocks
      BY <1>2, SetOf
    <3>2. pool.owner[a] = p /\ pool.owner[a] = q
      BY <2>1, <3>1 DEF PagedInv, PagedPool
    <3> QED BY <3>2
  <2> QED BY <2>1
<1> HIDE DEF R
<1>4. /\ rev \in Seq(R) /\ Len(rev) = n /\ ToSet(rev) = ToSet(PDone) /\ Apart(rev) /\ n \in Nat
  BY <1>1, ReverseOf
<1>5. DOMAIN PDone = 1 .. n
  BY <1>1
<1>6. PFreed = FlattenSeq(ss)
  BY <1>5 DEF PFreed
<1> HIDE DEF rev, n
<1>7. ss \in Seq(Seq(Paged!Blocks)) /\ Len(ss) = n /\ \A i \in 1 .. n : ss[i] = req[rev[i]].table
  <2>1. \A i \in 1 .. n : rev[i] \in R
    BY <1>4, ElementOfSeq
  <2> DEFINE Q == Seq(Paged!Blocks)
  <2>2. \A i \in 1 .. n : req[rev[i]].table \in Q
    BY <1>2, <2>1
  <2> HIDE DEF Q
  <2>3. ss \in Seq(Q) /\ Len(ss) = n
    BY <1>4, <2>2
  <2> QED BY <2>3 DEF Q
<1>8. /\ \A i \in 1 .. n : rev[i] \in R /\ rev[i] \in ToSet(rev)
      /\ \A v \in ToSet(rev) : \E i \in 1 .. n : rev[i] = v
      /\ \A i, j \in 1 .. n : i # j => rev[i] # rev[j]
  <2>1. DOMAIN rev = 1 .. n
    BY <1>4
  <2> QED BY <1>4, <2>1, Listed DEF Apart
<1> HIDE DEF ss
<1>9. FlattenSeq(ss) \in Seq(Paged!Blocks)
  BY <1>7, FlattenType
<1>10. Apart(FlattenSeq(ss))
  <2>1. \A i \in 1 .. Len(ss) : Apart(ss[i])
    BY <1>2, <1>7, <1>8
  <2>2. \A i, j \in 1 .. Len(ss) : i # j => ToSet(ss[i]) \cap ToSet(ss[j]) = {}
    <3>1. ASSUME NEW i \in 1 .. n, NEW j \in 1 .. n, i # j
          PROVE  ToSet(ss[i]) \cap ToSet(ss[j]) = {}
      <4>1. rev[i] \in R /\ rev[j] \in R /\ rev[i] # rev[j]
        BY <1>8, <3>1
      <4> QED BY <1>3, <1>7, <4>1
    <3> QED BY <1>7, <3>1
  <2> QED BY <1>7, <2>1, <2>2, FlattenApart, Zenon
<1>11. ASSUME NEW a \in Paged!Blocks
       PROVE a \in ToSet(PFreed) <=> \E v \in ToSet(PDone) : a \in ToSet(req[v].table)
  <2>1. a \in ToSet(FlattenSeq(ss)) <=> \E i \in 1 .. Len(ss) : a \in ToSet(ss[i])
    BY <1>7, FlattenMembers
  <2> QED BY <1>4, <1>6, <1>7, <1>8, <2>1, SMTT(30)
<1> QED BY <1>6, <1>9, <1>10, <1>11

\* An iteration stores a token for each request of the batch and lets those
\* that end go.
LEMMA PagedExecute == ASSUME PagedInv, Paged!Execute PROVE PagedInv'
<1>1. /\ pc = "execute" /\ pc' \in {"arrive", "end"} /\ it' = it + 1
      /\ req' = [r \in 1 .. Count |->
           IF r \notin ToSet(PBatch) THEN req[r]
           ELSE [req[r] EXCEPT
                   !.generated = @ + 1,
                   !.stored    = Paged!Stored(r),
                   !.status    = IF r \in ToSet(PDone) THEN "Finished" ELSE @,
                   !.table     = IF r \in ToSet(PDone) THEN << >> ELSE @]]
      /\ pool' = Paged!Released(PFreed)
      /\ running' = PLeft /\ admitted' = << >>
      /\ par' = par /\ waiting' = waiting /\ s1' = s1
  <2>1. Paged!Requests = 1 .. Count
    BY PagedUse
  <2>2. /\ \A s : Paged!ToSet(s) = ToSet(s)
        /\ \A s, T : Paged!Kept(s, T) = Kept(s, T)
        /\ \A s : Paged!FlattenSeq(s) = FlattenSeq(s)
        /\ \A s : Paged!Reverse(s) = Reverse(s)
    BY PagedLibrary
  <2> QED BY <2>1, <2>2, Zenon DEF Paged!Execute, PBatch, PDone, PLeft, PFreed
<1>2. /\ PBatch \in Seq(1 .. Count) /\ Apart(PBatch)
      /\ ToSet(PBatch) = ToSet(running) \cup ToSet(admitted)
      /\ \A r \in 1 .. Count : r \in ToSet(PDone) <=> r \in ToSet(PBatch) /\ req[r].generated + 1 >= Out(r)
      /\ ToSet(PDone) \subseteq ToSet(PBatch) /\ ToSet(PBatch) \subseteq 1 .. Count
      /\ PLeft \in Seq(1 .. Count) /\ Apart(PLeft) /\ ToSet(PLeft) = ToSet(PBatch) \ ToSet(PDone)
  BY PagedDone
<1>3. ASSUME NEW q \in 1 .. Count
      PROVE  /\ req'[q].status = (IF q \in ToSet(PDone) THEN "Finished" ELSE req[q].status)
             /\ req'[q].generated = (IF q \in ToSet(PBatch) THEN req[q].generated + 1 ELSE req[q].generated)
             /\ req'[q].stored = (IF q \in ToSet(PBatch) THEN Paged!Stored(q) ELSE req[q].stored)
             /\ req'[q].table = (IF q \in ToSet(PDone) THEN << >> ELSE req[q].table)
             /\ req'[q] \in PagedLive
  <2> DEFINE s == IF q \in ToSet(PDone) THEN "Finished" ELSE req[q].status
             g == req[q].generated + 1
             c == Paged!Stored(q)
             t == IF q \in ToSet(PDone) THEN << >> ELSE req[q].table
  <2>1. /\ req[q] \in PagedLive /\ req[q].generated \in Nat /\ req[q].stored \in Nat
        /\ req[q].status \in {"Future", "Waiting", "Running", "Finished"}
        /\ req[q].table \in Seq(Paged!Blocks) /\ Prompt(q) \in Nat
    BY PagedUse
  <2>2. s \in {"Future", "Waiting", "Running", "Finished"} /\ g \in Nat /\ c \in Nat /\ t \in Seq(Paged!Blocks)
    <3>1. s \in {"Future", "Waiting", "Running", "Finished"}
      BY <2>1
    <3>2. t \in Seq(Paged!Blocks)
      BY <2>1
    <3>3. g \in Nat
      BY <2>1
    <3>4. c = IF q \in ToSet(admitted) THEN Prompt(q) + req[q].generated ELSE req[q].stored + 1
      BY PagedLibrary, Zenon DEF Paged!Stored, Prompt
    <3>5. c \in Nat
      <4> HIDE DEF s, g, c, t
      <4> QED BY <2>1, <3>4, SMTT(30)
    <3> QED BY <3>1, <3>2, <3>3, <3>5
  <2>3. req'[q] = IF q \notin ToSet(PBatch) THEN req[q]
                  ELSE [req[q] EXCEPT !.generated = g, !.stored = c, !.status = s, !.table = t]
    <3>1. req'[q] = IF q \notin ToSet(PBatch) THEN req[q]
                    ELSE [req[q] EXCEPT !.generated = @ + 1, !.stored = Paged!Stored(q),
                            !.status = IF q \in ToSet(PDone) THEN "Finished" ELSE @,
                            !.table = IF q \in ToSet(PDone) THEN << >> ELSE @]
      <4>1. req' = [r \in 1 .. Count |->
              IF r \notin ToSet(PBatch) THEN req[r]
              ELSE [req[r] EXCEPT !.generated = @ + 1, !.stored = Paged!Stored(r),
                      !.status = IF r \in ToSet(PDone) THEN "Finished" ELSE @,
                      !.table = IF r \in ToSet(PDone) THEN << >> ELSE @]]
        BY <1>1, Zenon
      <4> QED BY <4>1, Zenon
    <3> QED BY <2>1, <3>1 DEF PagedLive
  <2> HIDE DEF s, g, c, t
  <2>4. [req[q] EXCEPT !.generated = g, !.stored = c, !.status = s, !.table = t] \in PagedLive
    BY <2>1, <2>2, PagedLiveWith, Zenon
  <2>5. req'[q] \in PagedLive
    BY <2>1, <2>3, <2>4
  <2>6. CASE q \in ToSet(PBatch)
    <3>1. req'[q].status = s /\ req'[q].generated = g /\ req'[q].stored = c /\ req'[q].table = t
      BY <2>1, <2>3, <2>6 DEF PagedLive
    <3> QED BY <2>5, <2>6, <3>1 DEF s, g, c, t
  <2>7. CASE q \notin ToSet(PBatch)
    BY <1>2, <2>3, <2>5, <2>7
  <2> QED BY <2>6, <2>7
<1>4. PagedPool' /\ pool'.owner \in [Paged!Blocks -> 0 .. Count] /\ pool'.free \in Seq(Paged!Blocks)
  <2> DEFINE V == ToSet(PDone)
  <2>1. V \in SUBSET (1 .. Count)
    BY <1>2
  <2>2. \A q \in 1 .. Count : req'[q].table = IF q \in V THEN << >> ELSE req[q].table
    BY <1>3
  <2>3. /\ PFreed \in Seq(Paged!Blocks) /\ Apart(PFreed)
        /\ \A a \in Paged!Blocks : a \in ToSet(PFreed) <=> \E v \in V : a \in ToSet(req[v].table)
    BY PagedFreed
  <2> HIDE DEF V
  <2>4. par' = par /\ pool' = Paged!Released(PFreed)
    BY <1>1, ZenonT(40)
  <2> QED BY <2>1, <2>2, <2>3, <2>4, PagedRelease, ZenonT(40)
<1>5. PagedTyped'
  <2>1. req' \in [1 .. Count -> PagedLive]
    <3>1. DOMAIN req' = 1 .. Count /\ req' = [q \in DOMAIN req' |-> req'[q]]
      BY <1>1
    <3> QED BY <1>3, <3>1
  <2>2. it' \in Nat /\ running' \in Seq(1 .. Count) /\ admitted' \in Seq(1 .. Count)
    <3>1. it \in Nat /\ << >> \in Seq(1 .. Count)
      BY PagedUse
    <3>2. it' \in Nat
      <4>1. it' = it + 1
        BY <1>1, Zenon
      <4> QED BY <3>1, <4>1
    <3>3. running' = PLeft /\ admitted' = << >> /\ PLeft \in Seq(1 .. Count)
      BY <1>1, <1>2
    <3> QED BY <3>1, <3>2, <3>3, Zenon
  <2>3. Count' = Count /\ Paged!Blocks' = Paged!Blocks /\ PagedLive' = PagedLive
    BY <1>1, PagedFixed, Zenon
  <2>4. /\ par \in PagedParams /\ s1 \in Nat /\ s1 > 0 /\ waiting \in Seq(1 .. Count)
    BY PagedUse
  <2> QED BY <1>1, <1>4, <2>1, <2>2, <2>3, <2>4 DEF PagedTyped
<1>6. ASSUME NEW q \in ToSet(PBatch) PROVE req[q].status = "Running" /\ q \in 1 .. Count
  BY <1>2 DEF PagedInv, PagedQueues
<1>7. ToSet(admitted') = {}
  BY <1>1, SetOfEmpty
<1>8. PagedQueues'
  <2>1. PagedRound = it + 1 /\ PagedRound' = it + 1
    BY <1>1 DEF PagedRound
  <2>2. ASSUME NEW q \in 1 .. Count
        PROVE  /\ req'[q].status = "Waiting" <=> q \in ToSet(waiting)
               /\ req'[q].status = "Running" <=> q \in ToSet(running') \cup ToSet(admitted')
               /\ req'[q].status = "Future"  <=> Arrival[q] >= it + 1
    <3>1. /\ req[q].status = "Waiting" <=> q \in ToSet(waiting)
          /\ req[q].status = "Running" <=> q \in ToSet(PBatch)
          /\ req[q].status = "Future"  <=> Arrival[q] >= it + 1
      BY <1>2, <2>1 DEF PagedInv, PagedQueues
    <3>2. req'[q].status = (IF q \in ToSet(PDone) THEN "Finished" ELSE req[q].status)
      BY <1>3
    <3>3. q \in ToSet(running') \cup ToSet(admitted') <=> q \in ToSet(PBatch) /\ q \notin ToSet(PDone)
      BY <1>1, <1>2, <1>7
    <3>4. q \in ToSet(PDone) => q \in ToSet(PBatch)
      BY <1>2
    <3> QED BY <3>1, <3>2, <3>3, <3>4
  <2>3. Apart(running' \o admitted')
    <3>1. PLeft \o << >> = PLeft
      BY <1>2
    <3> QED BY <1>1, <1>2, <3>1
  <2>4. Count' = Count /\ Arrival' = Arrival /\ Paged!Paged' = Paged!Paged
    BY <1>1, PagedFixed, Zenon
  <2>5. Apart(waiting) /\ Rising(waiting, Arrival)
    BY DEF PagedInv, PagedQueues
  <2> QED BY <1>1, <2>1, <2>2, <2>3, <2>4, <2>5 DEF PagedQueues
<1>9. PagedTables'
  <2>1. Apart(<< >>)
    BY DEF Apart
  <2>2. ASSUME NEW q \in 1 .. Count
        PROVE  /\ Apart(req'[q].table)
               /\ req'[q].status # "Running" => req'[q].table = << >>
               /\ req'[q].status # "Finished" => req'[q].generated < Out(q)
    <3>1. /\ Apart(req[q].table)
          /\ req[q].status # "Running" => req[q].table = << >>
          /\ req[q].status # "Finished" => req[q].generated < Out(q)
      BY DEF PagedInv, PagedTables
    <3>2. req[q].generated \in Nat /\ Out(q) \in Nat
      BY PagedUse
    <3>3. q \in ToSet(PDone) <=> q \in ToSet(PBatch) /\ req[q].generated + 1 >= Out(q)
      BY <1>2
    <3> QED BY <1>3, <2>1, <3>1, <3>2, <3>3
  <2>3. Count' = Count /\ \A r \in 1 .. Count : Out(r)' = Out(r)
    BY <1>1, PagedFixed, ZenonT(40)
  <2> QED BY <2>2, <2>3 DEF PagedTables
<1>10. PagedHeld'
  <2>1. ASSUME NEW i \in 1 .. Len(running')
        PROVE  /\ running'[i] \in 1 .. Count /\ running'[i] \in ToSet(PBatch)
               /\ running'[i] \notin ToSet(PDone)
    BY <1>1, <1>2, Listed
  <2>2. ASSUME NEW q \in 1 .. Count, q \in ToSet(PBatch), q \notin ToSet(PDone)
        PROVE  /\ req'[q].stored = Prompt(q) + req'[q].generated - 1
               /\ Paged!Paged => Len(req'[q].table) = Ceil(req'[q].stored + 0, par.B)
    <3>1. req'[q].stored = Paged!Stored(q) /\ req'[q].generated = req[q].generated + 1 /\ req'[q].table = req[q].table
      BY <1>3, <2>2
    <3>2. req[q].generated \in Nat /\ Prompt(q) \in Nat /\ req[q].stored \in Nat
      BY PagedUse
    <3>3. CASE q \in ToSet(admitted)
      <4>1. Paged!Stored(q) = Prompt(q) + req[q].generated
        BY <3>3, PagedLibrary DEF Paged!Stored, Prompt
      <4>2. Paged!Paged => Len(req[q].table) = Ceil(Prompt(q) + req[q].generated, par.B)
        BY <3>3 DEF PagedInv, PagedHeld
      <4>3. Paged!Stored(q) + 0 = Prompt(q) + req[q].generated
            /\ Paged!Stored(q) = Prompt(q) + (req[q].generated + 1) - 1
        BY <3>2, <4>1
      <4> QED BY <3>1, <4>2, <4>3
    <3>4. CASE q \notin ToSet(admitted)
      <4>1. Paged!Stored(q) = req[q].stored + 1
        BY <3>4, PagedLibrary DEF Paged!Stored
      <4>2. PICK j \in 1 .. Len(running) : running[j] = q
        BY <1>2, <2>2, <3>4, PagedUse, Listed
      <4>3. Due(j) = 1
        BY <1>1 DEF Due
      <4>4. req[q].stored = Prompt(q) + req[q].generated - 1
            /\ (Paged!Paged => Len(req[q].table) = Ceil(req[q].stored + 1, par.B))
        BY <4>2, <4>3 DEF PagedInv, PagedHeld
      <4>5. Paged!Stored(q) + 0 = req[q].stored + 1
            /\ Paged!Stored(q) = Prompt(q) + (req[q].generated + 1) - 1
        BY <3>2, <4>1, <4>4, SMTT(30)
      <4> QED BY <3>1, <4>4, <4>5
    <3> QED BY <3>3, <3>4
  <2>3. ASSUME ~Paged!Paged, NEW q \in ToSet(running')
        PROVE  Len(req'[q].table) = Ceil(Prompt(q) + MAX_NEW, par.B) /\ Run(req'[q].table)
    <3>1. q \in ToSet(PBatch) /\ q \notin ToSet(PDone) /\ q \in 1 .. Count
      BY <1>1, <1>2, <2>3
    <3>2. req'[q].table = req[q].table
      BY <1>3, <3>1
    <3> QED BY <1>2, <2>3, <3>1, <3>2 DEF PagedInv, PagedHeld
  <2>4. \A i : Due(i)' = 0
    BY <1>1 DEF Due
  <2>5. (\A r : Prompt(r)' = Prompt(r)) /\ Paged!Paged' = Paged!Paged
    BY <1>1, PagedFixed, Zenon
  <2> QED BY <1>1, <1>7, <2>1, <2>2, <2>3, <2>4, <2>5, ZenonT(40) DEF PagedHeld
<1> QED BY <1>4, <1>5, <1>8, <1>9, <1>10 DEF PagedInv

\* PagedInv is about the variables it names.
LEMMA PagedStay ==
  ASSUME PagedInv, UNCHANGED <<par, it, pc, pool, req, waiting, running, admitted, s1>>
  PROVE  PagedInv'
<1>1. PagedTyped'
  BY PagedFixed DEF PagedInv, PagedTyped
<1>2. PagedQueues' /\ PagedTables' /\ PagedPool'
  BY PagedFixed DEF PagedInv, PagedQueues, PagedTables, PagedPool, PagedRound
<1>3. PagedHeld'
  <2>1. \A i : Due(i)' = Due(i)
    BY DEF Due
  <2> QED BY <2>1, PagedFixed DEF PagedInv, PagedHeld
<1> QED BY <1>1, <1>2, <1>3 DEF PagedInv

\* Every action keeps PagedInv.
LEMMA PagedStep == ASSUME PagedInv, Paged!Next PROVE PagedInv'
BY PagedArrive, PagedGrowNot, PagedGrow, PagedPreempt, PagedGrown, PagedAdmit, PagedAdmitted,
   PagedExecute, Zenon DEF Paged!Next

----------------------------------------------------------------------------
(* Static and iteration-level batching.                                    *)

\* The operators of the library are the same under the instance.
LEMMA SlotsLibrary ==
  /\ \A s : Slots!ToSet(s) = ToSet(s)
  /\ \A s, T : Slots!Kept(s, T) = Kept(s, T)
  /\ \A S : Slots!Max(S) = Max(S)
  /\ \A S : Slots!Cardinality(S) = Cardinality(S)
<1>1. \A s : Slots!ToSet(s) = ToSet(s)
  BY DEF Slots!ToSet, ToSet
<1>2. \A s, T : Slots!Kept(s, T) = Kept(s, T)
  BY Zenon DEF Slots!Kept, Kept, Slots!FlattenSeq, FlattenSeq
<1>3. \A S : Slots!Max(S) = Max(S)
  BY Zenon DEF Slots!Max, Max
<1>4. \A S : Slots!Cardinality(S) = Cardinality(S)
  BY Zenon DEF Slots!Cardinality, Cardinality
<1> QED BY <1>1, <1>2, <1>3, <1>4

\* What a workload of the figure is.
LEMMA SlotsParam ==
  ASSUME par \in SlotParams
  PROVE  /\ Count \in Nat /\ Slots!Requests = 1 .. Count
         /\ par.slots \in Nat /\ par.slots > 0 /\ Slots!Slots = 1 .. par.slots
         /\ \A r \in 1 .. Count : Arrives(r) \in Nat /\ Out(r) \in Nat /\ Out(r) > 0
         /\ \A r, q \in 1 .. Count : r < q => Arrives(r) <= Arrives(q)
<1> DEFINE R == [arrival: Nat, out: Nat \ {0}]
           Q == Seq(R)
           K == Nat \ {0}
<1>1. par \in Slots!Param
  BY BatchingAssumption
<1>2. par \in [specs: Q, slots: K] /\ Slots!InOrder(par.specs)
  BY <1>1, Zenon DEF Slots!Param
<1>3. par.specs \in Q /\ par.slots \in K
  <2> HIDE DEF Q, K
  <2> QED BY <1>2
<1>4. Count \in Nat /\ DOMAIN par.specs = 1 .. Count
  BY <1>3 DEF Count
<1>5. ASSUME NEW r \in 1 .. Count PROVE Arrives(r) \in Nat /\ Out(r) \in Nat /\ Out(r) > 0
  <2>1. par.specs[r] \in R
    <3> HIDE DEF R
    <3> QED BY <1>3, ElementOfSeq DEF Count
  <2> QED BY <2>1 DEF Arrives, Out
<1>6. \A r, q \in 1 .. Count : r < q => Arrives(r) <= Arrives(q)
  BY <1>2, <1>4, Zenon DEF Slots!InOrder, Arrives
<1>7. Slots!Requests = 1 .. Count /\ Slots!Slots = 1 .. par.slots
  BY <1>4 DEF Slots!Requests, Slots!Slots
<1> QED BY <1>3, <1>4, <1>5, <1>6, <1>7

\* The last step request r emits in, once policy p admitted it.
LastStep(p, r) == s1[p][r] + Out(r) - 1

\* The first came requests have arrived, of which policy p has admitted the
\* first h[p]; those that wait are the ones between, in order.
SlotsTyped(came, h) ==
  /\ par \in SlotParams /\ it \in Nat
  /\ came \in 0 .. Count /\ \A r \in 1 .. Count : Arrives(r) < it <=> r <= came
  /\ s1 \in [Slots!Policies -> [1 .. Count -> Int]]
  /\ \A p \in Slots!Policies :
       /\ h[p] \in 0 .. came /\ s2[p] = Span(h[p], came)
       /\ \A r \in 1 .. Count :
            IF r <= h[p] THEN s1[p][r] \in Nat /\ s1[p][r] < it ELSE s1[p][r] = -1
       /\ \A r, q \in 1 .. h[p] : r < q => s1[p][r] <= s1[p][q]

\* Those of the cohort at hand come after the first base requests, which are
\* over; iteration-level batching has taken no request later than static has.
CohortAt(base, h) ==
  /\ base \in 0 .. h["static"] /\ h["static"] - base <= par.slots
  /\ s4 \in Int /\ \A r \in 1 .. h["static"] : LastStep("static", r) <= s4
  /\ \A r \in 1 .. base : LastStep("static", r) < it - 1
  /\ h["static"] <= h["iteration"]
  /\ \A r \in 1 .. h["static"] : s1["iteration"][r] <= s1["static"][r]

\* A slot holds a request until its last step, and every request that is not
\* over has one slot; a slot is empty only when nobody waits.
SlotsTaken(came, h) ==
  /\ s3 \in [1 .. par.slots -> 0 .. h["iteration"]]
  /\ \A i, j \in 1 .. par.slots : s3[i] = s3[j] /\ s3[i] # 0 => i = j
  /\ \A r \in 1 .. h["iteration"] :
       LastStep("iteration", r) >= it - 1 => \E j \in 1 .. par.slots : s3[j] = r
  /\ \A j \in 1 .. par.slots :
       IF s3[j] = 0 THEN h["iteration"] = came ELSE LastStep("iteration", s3[j]) >= it - 1

SlotsInv ==
  \E came, base, h : SlotsTyped(came, h) /\ CohortAt(base, h) /\ SlotsTaken(came, h)

Lesser(m, n) == IF m < n THEN m ELSE n

\* What a step does, in these terms: c have arrived, k make the static cohort,
\* and m take the slots of V.
Vacated == {j \in 1 .. par.slots : s3[j] = 0 \/ LastStep("iteration", s3[j]) < it}
Nth(j) == Cardinality({i \in Vacated : i <= j})
Takes(p, k, m) == IF p = "static" THEN k ELSE m

SlotsMoved(came, h, c, k, m) ==
  /\ c \in came .. Count /\ \A r \in 1 .. Count : Arrives(r) <= it <=> r <= c
  /\ k = (IF it > s4 THEN Lesser(par.slots, c - h["static"]) ELSE 0)
  /\ m = Lesser(Cardinality(Vacated), c - h["iteration"])
  /\ s1' = [p \in Slots!Policies |-> [r \in 1 .. Count |->
              IF h[p] < r /\ r <= h[p] + Takes(p, k, m) THEN it ELSE s1[p][r]]]
  /\ s2' = [p \in Slots!Policies |-> Span(h[p] + Takes(p, k, m), c)]
  /\ s3' = [j \in 1 .. par.slots |->
              IF j \in Vacated THEN IF Nth(j) <= c - h["iteration"] THEN h["iteration"] + Nth(j) ELSE 0
              ELSE s3[j]]
  /\ IF k = 0 THEN s4' = s4
     ELSE s4' \in Int /\ \A r \in h["static"] + 1 .. h["static"] + k : it + Out(r) - 1 <= s4'
  /\ it' = it + 1 /\ par' = par

\* A step takes the longest waiting into the vacant slots, under either policy.
LEMMA SlotsMove ==
  ASSUME NEW came, NEW base, NEW h, SlotsTyped(came, h), CohortAt(base, h), SlotsTaken(came, h),
         Slots!Next
  PROVE  \E c, k, m : SlotsMoved(came, h, c, k, m)
<1> DEFINE K == par.slots
           st == h["static"]
           iter == h["iteration"]
<1>1. /\ Count \in Nat /\ Slots!Requests = 1 .. Count
      /\ K \in Nat /\ K > 0 /\ Slots!Slots = 1 .. K
      /\ \A r \in 1 .. Count : Arrives(r) \in Nat /\ Out(r) \in Nat /\ Out(r) > 0
      /\ \A r, q \in 1 .. Count : r < q => Arrives(r) <= Arrives(q)
  BY SlotsParam DEF SlotsTyped
<1>2. /\ "static" \in Slots!Policies /\ "iteration" \in Slots!Policies
      /\ \A p \in Slots!Policies : p = "static" \/ p = "iteration"
  BY DEF Slots!Policies
<1>3. /\ it \in Nat /\ came \in 0 .. Count /\ \A r \in 1 .. Count : Arrives(r) < it <=> r <= came
      /\ st \in 0 .. came /\ iter \in 0 .. came /\ \A p \in Slots!Policies : h[p] \in 0 .. came
      /\ s4 \in Int
  BY <1>2 DEF SlotsTyped, CohortAt
<1> DEFINE D == {r \in 1 .. Count : Arrives(r) <= it}
<1>4. \E c \in 0 .. Count : \A r \in 1 .. Count : r \in D <=> r <= c
  <2>1. \A i, j \in 1 .. Count : j \in D /\ i <= j => i \in D
    <3> SUFFICES ASSUME NEW i \in 1 .. Count, NEW j \in D, i <= j PROVE Arrives(i) <= it
      OBVIOUS
    <3>1. j \in 1 .. Count /\ (i = j \/ i < j)
      BY <1>1
    <3>2. Arrives(i) <= Arrives(j) /\ Arrives(j) <= it
      BY <1>1, <3>1
    <3> QED BY <1>1, <1>3, <3>1, <3>2
  <2>2. D \in SUBSET (1 .. Count)
    OBVIOUS
  <2> HIDE DEF D
  <2>3. Count \in Nat
    BY <1>1
  <2> QED BY <2>1, <2>2, <2>3, ThoseUpTo
<1>5. PICK c \in 0 .. Count : \A r \in 1 .. Count : Arrives(r) <= it <=> r <= c
  BY <1>4, Zenon
<1> HIDE DEF D
<1>6. came <= c
  <2>1. CASE came = 0
    BY <1>1, <1>3, <1>5, <2>1
  <2>2. CASE came # 0
    <3>1. came \in 1 .. Count
      BY <1>1, <1>3, <2>2
    <3>2. Arrives(came) < it
      BY <1>3, <3>1
    <3> QED BY <1>1, <1>3, <1>5, <3>1, <3>2
  <2> QED BY <2>1, <2>2
<1>7. Slots!Arriving = Span(came, c)
  <2>1. \A r \in 1 .. Count : Arrives(r) = it <=> came < r /\ r <= c
    <3> SUFFICES ASSUME NEW r \in 1 .. Count PROVE Arrives(r) = it <=> came < r /\ r <= c
      OBVIOUS
    <3>1. /\ Arrives(r) < it <=> r <= came
          /\ Arrives(r) <= it <=> r <= c
          /\ Arrives(r) \in Nat
      BY <1>1, <1>3, <1>5
    <3> QED BY <1>3, <1>6, <3>1
  <2>2. {r \in 1 .. Count : Arrives(r) = it} = {r \in 1 .. Count : came < r /\ r <= c}
    BY <2>1
  <2>3. Slots!Arriving = Kept([r \in 1 .. Count |-> r], {r \in 1 .. Count : Arrives(r) = it})
    BY <1>1, SlotsLibrary, Zenon DEF Slots!Arriving, Arrives
  <2>4. came \in Nat /\ c \in Nat /\ c <= Count
    BY <1>1, <1>3, <1>5
  <2> QED BY <1>1, <1>6, <2>2, <2>3, <2>4, KeptSpan, SMTT(30)
<1>8. ASSUME NEW p \in Slots!Policies
      PROVE  Slots!Queued(p) = Span(h[p], c) /\ h[p] \in Nat /\ h[p] <= c
  <2>1. s2[p] = Span(h[p], came)
    BY DEF SlotsTyped
  <2>2. h[p] \in Nat /\ came \in Nat /\ c \in Nat /\ h[p] <= came /\ h[p] <= c
    BY <1>1, <1>3, <1>5, <1>6
  <2>3. Span(h[p], came) \o Span(came, c) = Span(h[p], c)
    BY <1>6, <2>2, SpanConcat, Zenon
  <2> QED BY <1>7, <2>1, <2>2, <2>3, Zenon DEF Slots!Queued
<1>9. ASSUME NEW p \in Slots!Policies
      PROVE  Len(Slots!Queued(p)) = c - h[p]
  <2>1. c \in Nat
    BY <1>1, <1>5
  <2> QED BY <1>8, <2>1, SpanSeq, Zenon
<1> DEFINE k == IF it > s4 THEN Lesser(K, c - st) ELSE 0
           m == Lesser(Cardinality(Vacated), c - iter)
<1>10. k \in 0 .. c - st /\ k <= K
  <2>1. K \in Nat /\ c - st \in Nat /\ s4 \in Int /\ it \in Nat
    BY <1>1, <1>3, <1>5, <1>6
  <2> HIDE DEF K, st
  <2> QED BY <2>1 DEF Lesser
<1>11. Slots!Vacant = Vacated
  <2>1. ASSUME NEW j \in 1 .. K, s3[j] # 0
        PROVE  Slots!Finish("iteration", s3[j]) = LastStep("iteration", s3[j])
    <3>1. s3[j] \in 1 .. iter /\ s3[j] \in 1 .. Count
      <4>1. s3[j] \in 0 .. iter
        BY <2>1 DEF SlotsTaken
      <4> QED BY <1>1, <1>3, <2>1, <4>1, SMTT(30)
    <3>2. s1["iteration"][s3[j]] # -1
      <4>1. s1["iteration"][s3[j]] \in Nat
        BY <1>2, <3>1 DEF SlotsTyped
      <4> QED BY <4>1
    <3> QED BY <3>2 DEF Slots!Finish, Slots!FinishAt, LastStep, Out
  <2> QED BY <1>1, <2>1 DEF Slots!Vacant, Vacated
<1>12. Cardinality(Vacated) \in Nat /\ \A j \in Vacated : Nth(j) \in 1 .. Cardinality(Vacated)
  <2>1. Vacated \in SUBSET (1 .. K)
    BY DEF Vacated
  <2> QED BY <1>1, <2>1, Ranked DEF Nth
<1>13. m \in 0 .. c - iter /\ m <= Cardinality(Vacated)
  BY <1>3, <1>5, <1>6, <1>12 DEF Lesser
<1>14. Slots!Cohort = Span(st, st + k) /\ Len(Slots!Cohort) = k
  <2>1. Slots!Queued("static") = Span(st, c) /\ Len(Slots!Queued("static")) = c - st /\ st \in Nat /\ c \in Nat /\ st <= c
    BY <1>2, <1>5, <1>8, <1>9
  <2>2. Span(st, st + k) = IF it > s4 THEN SubSeq(Span(st, c), 1, Lesser(K, c - st)) ELSE << >>
    <3>1. SubSeq(Span(st, c), 1, k) = Span(st, st + k)
      BY <1>10, <2>1, SpanSub
    <3>2. Span(st, st) = << >>
      <4>1. st \in Nat /\ st <= st
        BY <2>1
      <4> QED BY <4>1, SpanSeq, Zenon
    <3>3. it > s4 => k = Lesser(K, c - st)
      OBVIOUS
    <3>4. ~(it > s4) => st + k = st
      BY <2>1
    <3> HIDE DEF k, st, K
    <3> QED BY <3>1, <3>2, <3>3, <3>4
  <2>3. Slots!Cohort = Span(st, st + k)
    BY <2>1, <2>2 DEF Slots!Cohort, Slots!Smaller, Lesser
  <2>4. Len(Span(st, st + k)) = k
    <3>1. st + k \in Nat /\ st <= st + k /\ (st + k) - st = k
      BY <1>10, <2>1
    <3> HIDE DEF k, st
    <3> QED BY <2>1, <3>1, SpanSeq
  <2> QED BY <2>3, <2>4
<1>15. Slots!Joining = Span(iter, iter + m) /\ Len(Slots!Joining) = m
  <2>1. Slots!Queued("iteration") = Span(iter, c) /\ Len(Slots!Queued("iteration")) = c - iter /\ iter \in Nat /\ c \in Nat /\ iter <= c
    BY <1>2, <1>5, <1>8, <1>9
  <2>2. SubSeq(Span(iter, c), 1, m) = Span(iter, iter + m)
    BY <1>13, <2>1, SpanSub
  <2>3. Slots!Joining = Span(iter, iter + m)
    <3>1. \A x, y : Slots!Smaller(x, y) = Lesser(x, y)
      BY Zenon DEF Slots!Smaller, Lesser
    <3>2. Slots!Joining = SubSeq(Slots!Queued("iteration"), 1, Lesser(Cardinality(Vacated), Len(Slots!Queued("iteration"))))
      BY <1>11, <3>1, SlotsLibrary, Zenon DEF Slots!Joining
    <3> HIDE DEF iter
    <3> QED BY <2>1, <2>2, <3>2, Zenon
  <2>4. Len(Span(iter, iter + m)) = m
    <3>1. iter + m \in Nat /\ iter <= iter + m /\ (iter + m) - iter = m
      BY <1>13, <2>1
    <3> HIDE DEF m, iter
    <3> QED BY <2>1, <3>1, SpanSeq
  <2> QED BY <2>3, <2>4
<1> HIDE DEF k, m
<1>16. ASSUME NEW p \in Slots!Policies
       PROVE  /\ Slots!Admitted[p] = Span(h[p], h[p] + Takes(p, k, m)) /\ Len(Slots!Admitted[p]) = Takes(p, k, m)
              /\ Takes(p, k, m) \in 0 .. c - h[p]
              /\ ToSet(Slots!Admitted[p]) = h[p] + 1 .. h[p] + Takes(p, k, m)
  <2>1. Takes(p, k, m) \in 0 .. c - h[p]
    BY <1>2, <1>10, <1>13 DEF Takes
  <2>2. Slots!Admitted[p] = Span(h[p], h[p] + Takes(p, k, m)) /\ Len(Slots!Admitted[p]) = Takes(p, k, m)
    BY <1>2, <1>14, <1>15 DEF Slots!Admitted, Takes
  <2>3. h[p] + Takes(p, k, m) \in Nat /\ h[p] <= h[p] + Takes(p, k, m) /\ h[p] \in Nat
    BY <1>5, <1>8, <2>1
  <2> QED BY <2>1, <2>2, <2>3, SpanSeq
<1>17. /\ s1' = [p \in Slots!Policies |-> [r \in Slots!Requests |->
                   IF r \in Slots!ToSet(Slots!Admitted[p]) THEN it ELSE s1[p][r]]]
       /\ s2' = [p \in Slots!Policies |->
                   SubSeq(Slots!Queued(p), Len(Slots!Admitted[p]) + 1, Len(Slots!Queued(p)))]
       /\ s3' = [j \in Slots!Slots |-> Slots!Taker(j)]
       /\ s4' = IF Slots!Cohort = << >> THEN s4
                ELSE Slots!Max({Slots!FinishAt(r, it) : r \in Slots!ToSet(Slots!Cohort)})
       /\ it' = it + 1 /\ par' = par
  BY DEF Slots!Next, Slots!Step
<1>18. s1' = [p \in Slots!Policies |-> [r \in 1 .. Count |->
                IF h[p] < r /\ r <= h[p] + Takes(p, k, m) THEN it ELSE s1[p][r]]]
  <2>1. ASSUME NEW p \in Slots!Policies, NEW r \in 1 .. Count
        PROVE  r \in Slots!ToSet(Slots!Admitted[p]) <=> h[p] < r /\ r <= h[p] + Takes(p, k, m)
    <3>1. h[p] \in Nat /\ Takes(p, k, m) \in Nat
      BY <1>8, <1>5, <1>16
    <3>2. r \in h[p] + 1 .. h[p] + Takes(p, k, m) <=> h[p] < r /\ r <= h[p] + Takes(p, k, m)
      BY <1>1, <3>1
    <3> QED BY <1>16, <3>2, SlotsLibrary
  <2> QED BY <1>1, <1>17, <2>1, Zenon
<1>19. s2' = [p \in Slots!Policies |-> Span(h[p] + Takes(p, k, m), c)]
  <2>1. ASSUME NEW p \in Slots!Policies
        PROVE  SubSeq(Slots!Queued(p), Len(Slots!Admitted[p]) + 1, Len(Slots!Queued(p)))
                 = Span(h[p] + Takes(p, k, m), c)
    <3>1. /\ Slots!Queued(p) = Span(h[p], c) /\ Len(Slots!Queued(p)) = c - h[p] /\ h[p] \in Nat /\ h[p] <= c /\ c \in Nat
          /\ Len(Slots!Admitted[p]) = Takes(p, k, m) /\ Takes(p, k, m) \in 0 .. c - h[p]
      BY <1>5, <1>8, <1>9, <1>16
    <3> QED BY <3>1, SpanSub, ZenonT(40)
  <2> QED BY <1>17, <2>1, Zenon
<1>20. s3' = [j \in 1 .. K |->
              IF j \in Vacated THEN IF Nth(j) <= c - iter THEN iter + Nth(j) ELSE 0
              ELSE s3[j]]
  <2>1. ASSUME NEW j \in 1 .. K
        PROVE  Slots!Taker(j) = IF j \in Vacated THEN IF Nth(j) <= c - iter THEN iter + Nth(j) ELSE 0
                                ELSE s3[j]
    <3>1. /\ Slots!Queued("iteration") = Span(iter, c) /\ Len(Slots!Queued("iteration")) = c - iter
          /\ iter \in Nat /\ c \in Nat /\ iter <= c
      BY <1>2, <1>5, <1>8, <1>9
    <3>2. Slots!Rank(j) = Nth(j)
      BY <1>11, SlotsLibrary, Zenon DEF Slots!Rank, Nth
    <3>3. ASSUME j \in Vacated, Nth(j) <= c - iter PROVE Slots!Queued("iteration")[Nth(j)] = iter + Nth(j)
      <4>1. Nth(j) \in 1 .. c - iter
        BY <1>12, <3>1, <3>3
      <4>2. Span(iter, c)[Nth(j)] = iter + Nth(j)
        BY <3>1, <4>1, SpanSeq, Zenon
      <4> QED BY <3>1, <4>2, Zenon
    <3> HIDE DEF iter
    <3> QED BY <1>11, <3>1, <3>2, <3>3 DEF Slots!Taker
  <2> QED BY <1>1, <1>17, <2>1, Zenon
<1>21. IF k = 0 THEN s4' = s4
       ELSE s4' \in Int /\ \A r \in st + 1 .. st + k : it + Out(r) - 1 <= s4'
  <2>0. st \in Nat /\ k \in Nat /\ st + k \in Nat /\ st <= st + k /\ st + k <= Count
    BY <1>1, <1>3, <1>5, <1>10
  <2>1. Slots!Cohort = << >> <=> k = 0
    <3>1. Span(st, st + k) = << >> <=> st = st + k
      BY <2>0, SpanSeq
    <3> QED BY <1>14, <2>0, <3>1
  <2>2. CASE k = 0
    BY <1>17, <2>1, <2>2
  <2>3. CASE k # 0
    <3> DEFINE S == {it + Out(r) - 1 : r \in st + 1 .. st + k}
    <3>1. ToSet(Slots!Cohort) = st + 1 .. st + k
      BY <1>14, <2>0, SpanSeq
    <3>2. s4' = Max(S)
      <4>1. \A r : Slots!FinishAt(r, it) = it + Out(r) - 1
        BY DEF Slots!FinishAt, Out
      <4> HIDE DEF st
      <4> QED BY <1>17, <2>1, <2>3, <3>1, <4>1, SlotsLibrary
    <3>3. PICK M \in Nat : \A r \in 1 .. Count : Out(r) <= M
      <4> DEFINE f == [r \in 1 .. Count |-> Out(r)]
      <4>1. f \in [1 .. Count -> Nat]
        BY <1>1
      <4>2. \E M \in Nat : \A i \in 1 .. Count : f[i] <= M
        <5> HIDE DEF f
        <5> QED BY <1>1, <4>1, BoundOf
      <4> QED BY <4>2
    <3>4. \A r \in st + 1 .. st + k : r \in 1 .. Count
      BY <1>1, <2>0
    <3>5. S \in SUBSET (0 .. it + M) /\ it + M \in Nat
      <4> SUFFICES ASSUME NEW r \in st + 1 .. st + k PROVE it + Out(r) - 1 \in 0 .. it + M
        BY <1>3
      <4>1. Out(r) \in Nat /\ Out(r) > 0 /\ Out(r) <= M
        BY <1>1, <3>3, <3>4
      <4> QED BY <1>3, <4>1
    <3>6. S # {}
      <4>1. st + 1 \in st + 1 .. st + k
        BY <2>0, <2>3
      <4> QED BY <4>1
    <3>7. Max(S) \in S /\ \A n \in S : n <= Max(S)
      <4> HIDE DEF S
      <4> QED BY <3>5, <3>6, MaxOf
    <3>8. \A r \in st + 1 .. st + k : it + Out(r) - 1 \in S
      OBVIOUS
    <3>9. Max(S) \in Int
      BY <3>5, <3>7
    <3> HIDE DEF S, st
    <3> QED BY <2>3, <3>2, <3>7, <3>8, <3>9, Zenon
  <2> QED BY <2>2, <2>3
<1>22. SlotsMoved(came, h, c, k, m)
  <2>1. c \in came .. Count
    BY <1>1, <1>3, <1>5, <1>6
  <2>2. /\ k = (IF it > s4 THEN Lesser(par.slots, c - h["static"]) ELSE 0)
        /\ m = Lesser(Cardinality(Vacated), c - h["iteration"])
    BY DEF k, m
  <2> HIDE DEF k, m
  <2> QED BY <1>5, <1>17, <1>18, <1>19, <1>20, <1>21, <2>1, <2>2, Zenon DEF SlotsMoved
<1> QED BY <1>22, Zenon

\* SlotsInv holds first.
LEMMA SlotsStart ==
  ASSUME Slots!Init PROVE SlotsInv
<1>1. /\ par \in SlotParams /\ it = 0 /\ s4 = -1
      /\ s1 = [p \in Slots!Policies |-> [r \in Slots!Requests |-> -1]]
      /\ s2 = [p \in Slots!Policies |-> << >>]
      /\ s3 = [j \in Slots!Slots |-> 0]
  BY DEF Slots!Init
<1>2. /\ Count \in Nat /\ Slots!Requests = 1 .. Count
      /\ par.slots \in Nat /\ Slots!Slots = 1 .. par.slots
      /\ \A r \in 1 .. Count : Arrives(r) \in Nat
  BY <1>1, SlotsParam
<1>3. "static" \in Slots!Policies /\ "iteration" \in Slots!Policies
  BY DEF Slots!Policies
<1> DEFINE h == [p \in Slots!Policies |-> 0]
<1>4. \A p \in Slots!Policies : h[p] = 0
  OBVIOUS
<1>5. Span(0, 0) = << >>
  BY SpanSeq
<1> HIDE DEF h
<1>6. SlotsTyped(0, h)
  <2>1. \A r \in 1 .. Count : ~(Arrives(r) < it) /\ ~(r <= 0)
    BY <1>1, <1>2
  <2>2. \A p \in Slots!Policies : \A r \in 1 .. Count : ~(r <= h[p]) /\ s1[p][r] = -1
    BY <1>1, <1>2, <1>4
  <2>3. \A p \in Slots!Policies : \A r, q \in 1 .. h[p] : r < q => s1[p][r] <= s1[p][q]
    BY <1>4
  <2>4. s1 \in [Slots!Policies -> [1 .. Count -> Int]]
    BY <1>1, <1>2
  <2>5. \A p \in Slots!Policies : h[p] \in 0 .. 0 /\ s2[p] = Span(h[p], 0)
    BY <1>1, <1>4, <1>5
  <2>6. 0 \in 0 .. Count /\ it \in Nat
    BY <1>1, <1>2
  <2> QED BY <1>1, <2>1, <2>2, <2>3, <2>4, <2>5, <2>6, Zenon DEF SlotsTyped
<1>7. CohortAt(0, h)
  BY <1>1, <1>2, <1>3, <1>4 DEF CohortAt
<1>8. SlotsTaken(0, h)
  BY <1>1, <1>2, <1>3, <1>4 DEF SlotsTaken
<1> QED BY <1>6, <1>7, <1>8, Zenon DEF SlotsInv

\* The requests iteration-level batching holds in its slots when static batching
\* begins a cohort are among those static batching has yet to take.
LEMMA RoomForCohort ==
  ASSUME NEW came, NEW base, NEW h, SlotsTyped(came, h), CohortAt(base, h), SlotsTaken(came, h),
         it > s4
  PROVE  par.slots - Cardinality(Vacated) <= h["iteration"] - h["static"]
<1> DEFINE K == par.slots
           st == h["static"]
           iter == h["iteration"]
           H == (1 .. K) \ Vacated
           W == st + 1 .. iter
           f == [j \in H |-> s3[j]]
<1>1. /\ Count \in Nat /\ K \in Nat /\ it \in Nat /\ s4 \in Int /\ came \in 0 .. Count
      /\ \A r \in 1 .. Count : Out(r) \in Nat
  BY SlotsParam DEF SlotsTyped, CohortAt
<1>2. "static" \in Slots!Policies /\ "iteration" \in Slots!Policies
  BY DEF Slots!Policies
<1>3. st \in 0 .. came /\ iter \in 0 .. came /\ st <= iter
  BY <1>2 DEF SlotsTyped, CohortAt
<1>4. ASSUME NEW j \in H PROVE s3[j] \in W
  <2>1. j \in 1 .. K /\ s3[j] # 0 /\ ~(LastStep("iteration", s3[j]) < it)
    BY DEF Vacated
  <2>2. s3[j] \in 1 .. iter
    <3>1. s3[j] \in 0 .. iter
      BY <2>1 DEF SlotsTaken
    <3> QED BY <1>1, <1>3, <2>1, <3>1
  <2>3. ASSUME s3[j] <= st PROVE FALSE
    <3> DEFINE r == s3[j]
    <3>1. r \in 1 .. st /\ r \in 1 .. Count
      BY <1>1, <1>3, <2>2, <2>3
    <3> HIDE DEF r
    <3>2. LastStep("static", r) <= s4 /\ s1["iteration"][r] <= s1["static"][r]
      BY <3>1 DEF CohortAt
    <3>3. s1["iteration"][r] \in Int /\ s1["static"][r] \in Int /\ Out(r) \in Int
      BY <1>1, <1>2, <3>1, SMTT(30) DEF SlotsTyped
    <3>4. LastStep("iteration", r) < it
      BY <1>1, <3>2, <3>3 DEF LastStep
    <3> QED BY <2>1, <3>4 DEF r
  <2> QED BY <1>1, <1>3, <2>2, <2>3
<1>5. f \in Injection(H, W)
  <2>1. f \in [H -> W]
    BY <1>4
  <2>2. ASSUME NEW i \in H, NEW j \in H, f[i] = f[j] PROVE i = j
    <3>1. i \in 1 .. K /\ j \in 1 .. K /\ s3[i] = s3[j] /\ s3[i] # 0
      BY <2>2 DEF Vacated
    <3> QED BY <3>1 DEF SlotsTaken
  <2> HIDE DEF f, H, W
  <2> QED BY <2>1, <2>2, Zenon DEF Injection, IsInjective
<1>6. IsFiniteSet(W) /\ Cardinality(W) = iter - st
  <2>1. st + 1 \in Int /\ iter \in Int /\ st \in Int /\ st <= iter
    BY <1>1, <1>3
  <2> HIDE DEF st, iter
  <2> QED BY <2>1, SpanCount
<1>7. Cardinality(H) <= iter - st
  <2> HIDE DEF H, W, f
  <2> QED BY <1>5, <1>6, FS_Injection
<1>8. Cardinality(H) = K - Cardinality(Vacated)
  <2>1. IsFiniteSet(1 .. K) /\ Cardinality(1 .. K) = K
    BY <1>1, CountTo, Zenon
  <2>2. Vacated \subseteq 1 .. K
    BY DEF Vacated
  <2>3. Vacated = (1 .. K) \cap Vacated
    BY <2>2
  <2>4. Cardinality(H) = Cardinality(1 .. K) - Cardinality((1 .. K) \cap Vacated)
    BY <2>1, FS_Difference
  <2> QED BY <2>1, <2>3, <2>4
<1> QED BY <1>7, <1>8

\* What a request that is admitted at a step, or was before, has for a start.
LEMMA StartsMoved ==
  ASSUME NEW came, NEW base, NEW h, NEW c, NEW k, NEW m,
         SlotsTyped(came, h), CohortAt(base, h), SlotsMoved(came, h, c, k, m)
  PROVE  /\ c \in Nat /\ came \in Nat /\ came <= c /\ c <= Count /\ Count \in Nat
         /\ h["static"] \in Nat /\ h["static"] <= came /\ h["iteration"] \in Nat /\ h["iteration"] <= came
         /\ k \in Nat /\ k <= par.slots /\ h["static"] + k <= c /\ (k > 0 => it > s4)
         /\ Cardinality(Vacated) \in Nat /\ m \in Nat /\ m <= Cardinality(Vacated) /\ h["iteration"] + m <= c
         /\ m # Cardinality(Vacated) => h["iteration"] + m = c
         /\ \A p \in Slots!Policies :
              /\ Takes(p, k, m) \in Nat /\ h[p] \in Nat /\ h[p] <= came /\ h[p] + Takes(p, k, m) <= c
              /\ \A r \in 1 .. Count :
                   /\ r <= h[p] => s1'[p][r] = s1[p][r] /\ s1[p][r] \in Nat /\ s1[p][r] < it
                   /\ h[p] < r /\ r <= h[p] + Takes(p, k, m) => s1'[p][r] = it
                   /\ h[p] + Takes(p, k, m) < r => s1'[p][r] = -1
<1>1. "static" \in Slots!Policies /\ "iteration" \in Slots!Policies /\ \A p \in Slots!Policies : p = "static" \/ p = "iteration"
  BY DEF Slots!Policies
<1>2. Count \in Nat /\ par.slots \in Nat
  BY SlotsParam DEF SlotsTyped
<1>3. c \in Nat /\ came \in Nat /\ came <= c /\ c <= Count /\ it \in Nat /\ s4 \in Int
  BY <1>2 DEF SlotsTyped, SlotsMoved, CohortAt
<1>4. ASSUME NEW p \in Slots!Policies PROVE h[p] \in Nat /\ h[p] <= came
  <2>1. h[p] \in 0 .. came
    BY DEF SlotsTyped
  <2> QED BY <1>3, <2>1
<1>5. h["static"] \in Nat /\ h["static"] <= came /\ h["iteration"] \in Nat /\ h["iteration"] <= came
  BY <1>1, <1>4
<1>6. k \in Nat /\ k <= par.slots /\ h["static"] + k <= c /\ (k > 0 => it > s4)
  <2>1. k = (IF it > s4 THEN Lesser(par.slots, c - h["static"]) ELSE 0)
    BY DEF SlotsMoved
  <2> QED BY <1>2, <1>3, <1>5, <2>1 DEF Lesser
<1>7. Cardinality(Vacated) \in Nat
  <2>1. Vacated \in SUBSET (1 .. par.slots)
    BY DEF Vacated
  <2> QED BY <1>2, <2>1, Ranked
<1>8. /\ m \in Nat /\ m <= Cardinality(Vacated) /\ h["iteration"] + m <= c
      /\ m # Cardinality(Vacated) => h["iteration"] + m = c
  <2>1. m = Lesser(Cardinality(Vacated), c - h["iteration"])
    BY DEF SlotsMoved
  <2> QED BY <1>3, <1>5, <1>7, <2>1 DEF Lesser
<1>9. ASSUME NEW p \in Slots!Policies
      PROVE  /\ Takes(p, k, m) \in Nat /\ h[p] \in Nat /\ h[p] <= came /\ h[p] + Takes(p, k, m) <= c
             /\ \A r \in 1 .. Count :
                  /\ r <= h[p] => s1'[p][r] = s1[p][r] /\ s1[p][r] \in Nat /\ s1[p][r] < it
                  /\ h[p] < r /\ r <= h[p] + Takes(p, k, m) => s1'[p][r] = it
                  /\ h[p] + Takes(p, k, m) < r => s1'[p][r] = -1
  <2>1. Takes(p, k, m) \in Nat /\ h[p] \in Nat /\ h[p] <= came /\ h[p] + Takes(p, k, m) <= c
    BY <1>1, <1>4, <1>5, <1>6, <1>8 DEF Takes
  <2>2. ASSUME NEW r \in 1 .. Count
        PROVE  /\ r <= h[p] => s1'[p][r] = s1[p][r] /\ s1[p][r] \in Nat /\ s1[p][r] < it
               /\ h[p] < r /\ r <= h[p] + Takes(p, k, m) => s1'[p][r] = it
               /\ h[p] + Takes(p, k, m) < r => s1'[p][r] = -1
    <3>1. s1'[p][r] = IF h[p] < r /\ r <= h[p] + Takes(p, k, m) THEN it ELSE s1[p][r]
      BY DEF SlotsMoved
    <3>2. IF r <= h[p] THEN s1[p][r] \in Nat /\ s1[p][r] < it ELSE s1[p][r] = -1
      BY DEF SlotsTyped
    <3> QED BY <1>2, <2>1, <3>1, <3>2
  <2> QED BY <2>1, <2>2
<1> QED BY <1>2, <1>3, <1>5, <1>6, <1>7, <1>8, <1>9

\* Every step keeps SlotsInv.
LEMMA SlotsStep ==
  ASSUME SlotsInv, Slots!Next PROVE SlotsInv'
<1>1. PICK came, base, h : SlotsTyped(came, h) /\ CohortAt(base, h) /\ SlotsTaken(came, h)
  BY DEF SlotsInv
<1>2. PICK c, k, m : SlotsMoved(came, h, c, k, m)
  BY <1>1, SlotsMove
<1> DEFINE K == par.slots
           st == h["static"]
           iter == h["iteration"]
           n(p) == Takes(p, k, m)
           g == [p \in Slots!Policies |-> h[p] + n(p)]
           low == IF k > 0 THEN st ELSE base
<1>3. /\ c \in Nat /\ came \in Nat /\ came <= c /\ c <= Count /\ Count \in Nat
      /\ st \in Nat /\ st <= came /\ iter \in Nat /\ iter <= came
      /\ k \in Nat /\ k <= K /\ st + k <= c /\ (k > 0 => it > s4)
      /\ Cardinality(Vacated) \in Nat /\ m \in Nat /\ m <= Cardinality(Vacated) /\ iter + m <= c
      /\ m # Cardinality(Vacated) => iter + m = c
  BY <1>1, <1>2, StartsMoved
<1>4. ASSUME NEW p \in Slots!Policies
      PROVE  /\ n(p) \in Nat /\ h[p] \in Nat /\ h[p] <= came /\ h[p] + n(p) <= c
             /\ \A r \in 1 .. Count :
                  /\ r <= h[p] => s1'[p][r] = s1[p][r] /\ s1[p][r] \in Nat /\ s1[p][r] < it
                  /\ h[p] < r /\ r <= h[p] + n(p) => s1'[p][r] = it
                  /\ h[p] + n(p) < r => s1'[p][r] = -1
  BY <1>1, <1>2, StartsMoved
<1>5. /\ "static" \in Slots!Policies /\ "iteration" \in Slots!Policies
      /\ \A p \in Slots!Policies : p = "static" \/ p = "iteration"
  BY DEF Slots!Policies
<1>6. n("static") = k /\ n("iteration") = m /\ g["static"] = st + k /\ g["iteration"] = iter + m
      /\ \A p \in Slots!Policies : g[p] = h[p] + n(p)
  BY <1>5 DEF Takes
<1>7. /\ par' = par /\ it' = it + 1 /\ it \in Nat /\ K \in Nat
      /\ \A r \in 1 .. Count : Out(r) \in Nat /\ Out(r) > 0 /\ Arrives(r) \in Nat
      /\ \A r \in 1 .. Count : Arrives(r) <= it <=> r <= c
  BY <1>1, <1>2, SlotsParam DEF SlotsTyped, SlotsMoved
<1>8. Count' = Count /\ par.slots' = K /\ \A r : Out(r)' = Out(r) /\ Arrives(r)' = Arrives(r)
  BY <1>7 DEF Count, Out, Arrives
<1> HIDE DEF n, g
<1>9. SlotsTyped(c, g)'
  <2>1. par' \in SlotParams /\ it' \in Nat /\ c \in 0 .. Count
    BY <1>1, <1>3, <1>7 DEF SlotsTyped
  <2>2. \A r \in 1 .. Count : Arrives(r) < it' <=> r <= c
    <3> SUFFICES ASSUME NEW r \in 1 .. Count PROVE Arrives(r) < it' <=> r <= c
      OBVIOUS
    <3>1. (Arrives(r) <= it <=> r <= c) /\ Arrives(r) \in Nat
      BY <1>7
    <3> QED BY <1>7, <3>1
  <2>3. s1' \in [Slots!Policies -> [1 .. Count -> Int]]
    <3>1. s1 \in [Slots!Policies -> [1 .. Count -> Int]]
      BY <1>1 DEF SlotsTyped
    <3>2. s1' = [p \in Slots!Policies |-> [r \in 1 .. Count |->
              IF h[p] < r /\ r <= h[p] + Takes(p, k, m) THEN it ELSE s1[p][r]]]
      BY <1>2 DEF SlotsMoved
    <3>3. ASSUME NEW p \in Slots!Policies, NEW r \in 1 .. Count
          PROVE  (IF h[p] < r /\ r <= h[p] + Takes(p, k, m) THEN it ELSE s1[p][r]) \in Int
      <4>1. s1[p] \in [1 .. Count -> Int]
        BY <3>1, Zenon
      <4>2. s1[p][r] \in Int
        BY <4>1, Zenon
      <4> QED BY <1>7, <4>2
    <3> QED BY <3>2, <3>3, Zenon
  <2>4. ASSUME NEW p \in Slots!Policies
        PROVE  /\ g[p] \in 0 .. c /\ s2'[p] = Span(g[p], c)
               /\ \A r \in 1 .. Count :
                    IF r <= g[p] THEN s1'[p][r] \in Nat /\ s1'[p][r] < it' ELSE s1'[p][r] = -1
               /\ \A r, q \in 1 .. g[p] : r < q => s1'[p][r] <= s1'[p][q]
    <3>1. /\ n(p) \in Nat /\ h[p] \in Nat /\ h[p] <= came /\ h[p] + n(p) <= c /\ g[p] = h[p] + n(p)
          /\ \A r \in 1 .. Count :
                  /\ r <= h[p] => s1'[p][r] = s1[p][r] /\ s1[p][r] \in Nat /\ s1[p][r] < it
                  /\ h[p] < r /\ r <= h[p] + n(p) => s1'[p][r] = it
                  /\ h[p] + n(p) < r => s1'[p][r] = -1
      BY <1>4, <1>6
    <3>2. s2'[p] = Span(g[p], c)
      BY <1>2, <1>6 DEF SlotsMoved, n
    <3>3. ASSUME NEW r \in 1 .. Count
          PROVE  IF r <= g[p] THEN s1'[p][r] \in Nat /\ s1'[p][r] < it' ELSE s1'[p][r] = -1
      BY <1>3, <1>7, <3>1
    <3>4. ASSUME NEW r \in 1 .. g[p], NEW q \in 1 .. g[p], r < q PROVE s1'[p][r] <= s1'[p][q]
      <4>1. r \in 1 .. Count /\ q \in 1 .. Count
        BY <1>3, <3>1
      <4>2. CASE q <= h[p]
        <5>1. r \in 1 .. h[p] /\ q \in 1 .. h[p]
          BY <3>1, <3>4, <4>1, <4>2
        <5>2. s1[p][r] <= s1[p][q]
          BY <1>1, <3>4, <5>1 DEF SlotsTyped
        <5> QED BY <3>1, <4>1, <5>1, <5>2
      <4>3. CASE ~(q <= h[p])
        <5>1. s1'[p][q] = it
          BY <3>1, <4>1, <4>3
        <5>2. s1'[p][r] = it \/ (s1'[p][r] \in Nat /\ s1'[p][r] < it)
          BY <3>1, <4>1
        <5> QED BY <1>7, <5>1, <5>2
      <4> QED BY <4>2, <4>3
    <3>5. g[p] \in 0 .. c
      BY <1>3, <3>1
    <3> QED BY <3>2, <3>3, <3>4, <3>5
  <2> QED BY <1>8, <2>1, <2>2, <2>3, <2>4, Zenon DEF SlotsTyped
<1>10. CohortAt(low, g)'
  <2>0. /\ base \in 0 .. st /\ st - base <= K /\ s4 \in Int
        /\ \A r \in 1 .. st : LastStep("static", r) <= s4
        /\ \A r \in 1 .. base : LastStep("static", r) < it - 1
        /\ st <= iter
        /\ \A r \in 1 .. st : s1["iteration"][r] <= s1["static"][r]
    BY <1>1 DEF CohortAt
  <2>1. low \in 0 .. g["static"] /\ g["static"] - low <= K
    BY <1>3, <1>6, <1>7, <2>0
  <2>2. /\ s4' \in Int /\ (k = 0 => s4' = s4)
        /\ k > 0 => \A r \in st + 1 .. st + k : it + Out(r) - 1 <= s4'
    BY <1>2, <1>3, <2>0, SMTT(30) DEF SlotsMoved
  <2>3. ASSUME NEW r \in 1 .. st
        PROVE  s1'["static"][r] = s1["static"][r] /\ s1["static"][r] \in Nat /\ Out(r) \in Nat
               /\ s1["static"][r] + Out(r) - 1 <= s4
    <3>1. r \in 1 .. Count /\ r <= st
      BY <1>3
    <3>2. s1["static"][r] + Out(r) - 1 <= s4
      BY <2>0 DEF LastStep
    <3> QED BY <1>4, <1>5, <1>7, <3>1, <3>2
  <2>4. ASSUME NEW r \in 1 .. g["static"] PROVE s1'["static"][r] + Out(r) - 1 <= s4'
    <3>1. r \in 1 .. Count
      BY <1>3, <1>6
    <3>2. CASE r <= st
      <4>1. CASE k = 0
        BY <2>2, <2>3, <3>1, <3>2, <4>1
      <4>2. CASE k > 0
        <5>1. it + Out(st + 1) - 1 <= s4' /\ Out(st + 1) \in Nat /\ Out(st + 1) > 0
          <6>1. st + 1 \in st + 1 .. st + k /\ st + 1 \in 1 .. Count
            BY <1>3, <4>2
          <6> QED BY <1>7, <2>2, <4>2, <6>1
        <5>2. s4 < it
          BY <1>3, <1>7, <2>0, <4>2
        <5>3. r \in 1 .. st
          BY <1>3, <3>1, <3>2
        <5> QED BY <1>7, <2>0, <2>2, <2>3, <5>1, <5>2, <5>3
      <4> QED BY <1>3, <4>1, <4>2
    <3>3. CASE ~(r <= st)
      <4>1. r \in st + 1 .. st + k /\ k > 0
        BY <1>3, <1>6, <3>3
      <4>2. s1'["static"][r] = it
        BY <1>4, <1>5, <1>6, <3>1, <4>1, <1>3
      <4> QED BY <2>2, <4>1, <4>2
    <3> QED BY <3>2, <3>3
  <2>5. ASSUME NEW r \in 1 .. low PROVE s1'["static"][r] + Out(r) - 1 < it' - 1
    <3>1. CASE k > 0
      <4>1. r \in 1 .. st /\ it > s4
        BY <1>3, <3>1
      <4> QED BY <1>7, <2>0, <2>3, <4>1
    <3>2. CASE k = 0
      <4>1. r \in 1 .. base /\ r \in 1 .. st
        BY <1>3, <2>0, <3>2
      <4>2. s1["static"][r] + Out(r) - 1 < it - 1
        BY <2>0, <4>1 DEF LastStep
      <4> QED BY <1>7, <2>3, <4>1, <4>2
    <3> QED BY <1>3, <3>1, <3>2
  <2>6. g["static"] <= g["iteration"]
    <3>1. CASE k = 0
      BY <1>3, <1>6, <2>0, <3>1
    <3>2. CASE k > 0 /\ m # Cardinality(Vacated)
      BY <1>3, <1>6, <3>2
    <3>3. CASE k > 0 /\ m = Cardinality(Vacated)
      <4>1. K - Cardinality(Vacated) <= iter - st
        BY <1>1, <1>3, <3>3, RoomForCohort
      <4> QED BY <1>3, <1>6, <1>7, <3>3, <4>1
    <3> QED BY <1>3, <3>1, <3>2, <3>3
  <2>7. ASSUME NEW r \in 1 .. g["static"] PROVE s1'["iteration"][r] <= s1'["static"][r]
    <3>1. r \in 1 .. Count /\ r <= g["iteration"]
      BY <1>3, <1>6, <2>6
    <3>2. CASE r <= st
      <4>1. r \in 1 .. st /\ r <= iter
        BY <1>3, <2>0, <3>1, <3>2
      <4>2. s1'["iteration"][r] = s1["iteration"][r]
        BY <1>4, <1>5, <3>1, <4>1
      <4> QED BY <2>0, <2>3, <4>1, <4>2
    <3>3. CASE ~(r <= st)
      <4>1. s1'["static"][r] = it
        BY <1>3, <1>4, <1>5, <1>6, <3>1, <3>3
      <4>2. s1'["iteration"][r] = it \/ (s1'["iteration"][r] \in Nat /\ s1'["iteration"][r] < it)
        BY <1>3, <1>4, <1>5, <1>6, <3>1
      <4> QED BY <1>7, <4>1, <4>2
    <3> QED BY <3>2, <3>3
  <2> HIDE DEF low
  <2> QED BY <1>8, <2>1, <2>2, <2>4, <2>5, <2>6, <2>7 DEF CohortAt, LastStep
<1>11. SlotsTaken(c, g)'
  <2>0. /\ s3 \in [1 .. K -> 0 .. iter]
        /\ \A i, j \in 1 .. K : s3[i] = s3[j] /\ s3[i] # 0 => i = j
        /\ \A r \in 1 .. iter : s1["iteration"][r] + Out(r) - 1 >= it - 1 => \E j \in 1 .. K : s3[j] = r
    BY <1>1 DEF SlotsTaken, LastStep
  <2>1. Vacated \in SUBSET (1 .. K)
    BY DEF Vacated
  <2>2. /\ \A j \in Vacated : Nth(j) \in 1 .. Cardinality(Vacated)
        /\ \A i, j \in Vacated : i # j => Nth(i) # Nth(j)
        /\ \A p \in 1 .. Cardinality(Vacated) : \E j \in Vacated : Nth(j) = p
    BY <1>7, <2>1, Ranked DEF Nth
  <2>3. s3' = [j \in 1 .. K |-> IF j \in Vacated THEN IF Nth(j) <= c - iter THEN iter + Nth(j) ELSE 0
                                ELSE s3[j]]
    BY <1>2 DEF SlotsMoved
  <2>4. ASSUME NEW r \in 1 .. iter
        PROVE  /\ r \in 1 .. Count /\ s1'["iteration"][r] = s1["iteration"][r]
               /\ s1["iteration"][r] \in Nat /\ s1["iteration"][r] < it /\ Out(r) \in Nat /\ Out(r) > 0
    <3>1. r \in 1 .. Count /\ r <= iter
      BY <1>3
    <3> QED BY <1>4, <1>5, <1>7, <3>1
  <2>5. ASSUME NEW j \in 1 .. K, j \notin Vacated
        PROVE  /\ s3'[j] = s3[j] /\ s3[j] \in 1 .. iter
               /\ s1["iteration"][s3[j]] + Out(s3[j]) - 1 >= it
    <3>1. s3'[j] = s3[j] /\ s3[j] # 0 /\ ~(s1["iteration"][s3[j]] + Out(s3[j]) - 1 < it)
      BY <2>3, <2>5 DEF Vacated, LastStep
    <3>2. s3[j] \in 1 .. iter
      <4>1. s3[j] \in 0 .. iter
        BY <2>0
      <4> QED BY <1>3, <3>1, <4>1
    <3> QED BY <1>7, <2>4, <3>1, <3>2
  <2>6. ASSUME NEW j \in Vacated
        PROVE  /\ j \in 1 .. K /\ Nth(j) \in Nat /\ Nth(j) >= 1 /\ Nth(j) <= Cardinality(Vacated)
               /\ IF Nth(j) <= m THEN s3'[j] = iter + Nth(j) ELSE s3'[j] = 0 /\ iter + m = c
    <3>1. j \in 1 .. K /\ Nth(j) \in 1 .. Cardinality(Vacated)
      BY <2>1, <2>2
    <3>2. s3'[j] = IF Nth(j) <= c - iter THEN iter + Nth(j) ELSE 0
      BY <2>3, <3>1
    <3> QED BY <1>3, <3>1, <3>2
  <2>7. s3' \in [1 .. K -> 0 .. g["iteration"]]
    <3>1. ASSUME NEW j \in 1 .. K PROVE s3'[j] \in 0 .. g["iteration"]
      <4>1. CASE j \in Vacated
        BY <1>3, <1>6, <2>6, <4>1
      <4>2. CASE j \notin Vacated
        BY <1>3, <1>6, <2>5, <4>2
      <4> QED BY <4>1, <4>2
    <3>2. s3' = [j \in 1 .. K |-> s3'[j]]
      BY <2>3
    <3> QED BY <3>1, <3>2
  <2>8. ASSUME NEW i \in 1 .. K, NEW j \in 1 .. K, s3'[i] = s3'[j], s3'[i] # 0 PROVE i = j
    <3>1. CASE i \in Vacated /\ j \in Vacated
      <4>1. Nth(i) <= m /\ Nth(j) <= m
        BY <2>6, <2>8, <3>1
      <4>2. Nth(i) = Nth(j)
        BY <1>3, <2>6, <2>8, <3>1, <4>1
      <4> QED BY <2>2, <3>1, <4>2
    <3>2. CASE i \in Vacated /\ j \notin Vacated
      <4>1. s3'[i] > iter /\ s3'[j] \in 1 .. iter
        BY <1>3, <2>5, <2>6, <2>8, <3>2
      <4> QED BY <1>3, <2>8, <4>1
    <3>3. CASE i \notin Vacated /\ j \in Vacated
      <4>1. s3'[j] > iter /\ s3'[i] \in 1 .. iter
        BY <1>3, <2>5, <2>6, <2>8, <3>3
      <4> QED BY <1>3, <2>8, <4>1
    <3>4. CASE i \notin Vacated /\ j \notin Vacated
      BY <2>0, <2>5, <2>8, <3>4
    <3> QED BY <3>1, <3>2, <3>3, <3>4
  <2>9. ASSUME NEW r \in 1 .. g["iteration"], s1'["iteration"][r] + Out(r) - 1 >= it' - 1
        PROVE  \E j \in 1 .. K : s3'[j] = r
    <3>1. CASE r <= iter
      <4>1. r \in 1 .. iter
        BY <1>3, <3>1
      <4>2. s1["iteration"][r] + Out(r) - 1 >= it /\ s1["iteration"][r] + Out(r) - 1 >= it - 1
        BY <1>7, <2>4, <2>9, <4>1
      <4>3. PICK j \in 1 .. K : s3[j] = r
        BY <2>0, <4>1, <4>2
      <4>4. j \notin Vacated
        <5>1. r # 0 /\ ~(s1["iteration"][r] + Out(r) - 1 < it)
          BY <1>3, <1>7, <2>4, <4>1, <4>2
        <5> QED BY <4>3, <5>1 DEF Vacated, LastStep
      <4> QED BY <2>5, <4>3, <4>4
    <3>2. CASE ~(r <= iter)
      <4>1. r - iter \in 1 .. Cardinality(Vacated) /\ r - iter <= m /\ iter + (r - iter) = r
        BY <1>3, <1>6, <3>2
      <4>2. PICK j \in Vacated : Nth(j) = r - iter
        BY <2>2, <4>1
      <4>3. s3'[j] = r /\ j \in 1 .. K
        BY <2>6, <4>1, <4>2
      <4> QED BY <4>3
    <3> QED BY <3>1, <3>2
  <2>10. ASSUME NEW j \in 1 .. K
         PROVE  IF s3'[j] = 0 THEN g["iteration"] = c
                ELSE s1'["iteration"][s3'[j]] + Out(s3'[j]) - 1 >= it' - 1
    <3>1. CASE j \in Vacated /\ Nth(j) <= m
      <4> DEFINE r == iter + Nth(j)
      <4>1. s3'[j] = r /\ r \in 1 .. Count /\ r # 0 /\ iter < r /\ r <= iter + m
        BY <1>3, <2>6, <3>1
      <4> HIDE DEF r
      <4>2. s1'["iteration"][r] = it /\ Out(r) \in Nat /\ Out(r) > 0
        BY <1>4, <1>5, <1>6, <1>7, <4>1
      <4> QED BY <1>7, <4>1, <4>2
    <3>2. CASE j \in Vacated /\ ~(Nth(j) <= m)
      BY <1>6, <2>6, <3>2
    <3>3. CASE j \notin Vacated
      <4>1. s3'[j] = s3[j] /\ s3[j] # 0 /\ s3[j] \in 1 .. iter /\ s1["iteration"][s3[j]] + Out(s3[j]) - 1 >= it
        BY <1>3, <2>5, <3>3
      <4> QED BY <1>7, <2>4, <4>1
    <3> QED BY <3>1, <3>2, <3>3
  <2> QED BY <1>8, <2>7, <2>8, <2>9, <2>10 DEF SlotsTaken, LastStep
<1>12. SlotsInv' <=> \E came_, base_, h_ : SlotsTyped(came_, h_)' /\ CohortAt(base_, h_)' /\ SlotsTaken(came_, h_)'
  BY DEF SlotsInv
<1> QED BY <1>9, <1>10, <1>11, <1>12, Zenon

\* The requests policy p works on in the last step.
LEMMA BusyNow ==
  ASSUME NEW came, NEW h, SlotsTyped(came, h), NEW p \in Slots!Policies
  PROVE  Slots!Busy(p, it - 1) = {r \in 1 .. Count : r <= h[p] /\ it - 1 <= LastStep(p, r)}
<1>1. Slots!Requests = 1 .. Count /\ it \in Nat
  BY SlotsParam DEF SlotsTyped
<1>2. ASSUME NEW r \in 1 .. Count
      PROVE  (s1[p][r] # -1 /\ s1[p][r] <= it - 1 /\ it - 1 <= Slots!Finish(p, r))
               <=> (r <= h[p] /\ it - 1 <= LastStep(p, r))
  <2>1. IF r <= h[p] THEN s1[p][r] \in Nat /\ s1[p][r] < it ELSE s1[p][r] = -1
    BY DEF SlotsTyped
  <2>2. s1[p][r] # -1 => Slots!Finish(p, r) = LastStep(p, r)
    BY DEF Slots!Finish, Slots!FinishAt, LastStep, Out
  <2>3. r <= h[p] => s1[p][r] # -1 /\ s1[p][r] <= it - 1
    BY <1>1, <2>1
  <2> QED BY <2>1, <2>2, <2>3
<1> QED BY <1>1, <1>2 DEF Slots!Busy

\* SlotsInv implies what the run checks of the figure.
LEMMA SlotsFacts ==
  ASSUME SlotsInv PROVE Slots!SlotsHeld /\ Slots!ServedInOrder /\ Slots!NeverLater
<1>1. PICK came, base, h : SlotsTyped(came, h) /\ CohortAt(base, h) /\ SlotsTaken(came, h)
  BY DEF SlotsInv
<1> DEFINE K == par.slots
           st == h["static"]
           iter == h["iteration"]
<1>2. /\ "static" \in Slots!Policies /\ "iteration" \in Slots!Policies
      /\ \A p \in Slots!Policies : p = "static" \/ p = "iteration"
  BY DEF Slots!Policies
<1>3. /\ Slots!Requests = 1 .. Count /\ Count \in Nat /\ Slots!Slots = 1 .. K /\ K \in Nat /\ it \in Nat
      /\ \A r \in 1 .. Count : Out(r) \in Nat
  BY <1>1, SlotsParam DEF SlotsTyped
<1>4. came \in 0 .. Count /\ \A p \in Slots!Policies : h[p] \in 0 .. came
  BY <1>1 DEF SlotsTyped
<1>5. ASSUME NEW p \in Slots!Policies, NEW r \in 1 .. Count
      PROVE  IF r <= h[p] THEN s1[p][r] \in Nat /\ s1[p][r] < it ELSE s1[p][r] = -1
  BY <1>1 DEF SlotsTyped
<1>6. /\ base \in 0 .. st /\ st - base <= K /\ st <= iter
      /\ \A r \in 1 .. base : LastStep("static", r) < it - 1
      /\ \A r \in 1 .. st : s1["iteration"][r] <= s1["static"][r]
  BY <1>1 DEF CohortAt
<1>7. Slots!NeverLater
  <2> SUFFICES ASSUME NEW r \in 1 .. Count, s1["static"][r] # -1
               PROVE  s1["iteration"][r] # -1 /\ s1["iteration"][r] <= s1["static"][r]
    BY <1>3 DEF Slots!NeverLater
  <2>1. r \in 1 .. st /\ r <= iter
    BY <1>2, <1>3, <1>4, <1>5, <1>6, SMTT(30)
  <2>2. s1["iteration"][r] \in Nat
    BY <1>2, <1>5, <2>1
  <2> QED BY <1>6, <2>1, <2>2
<1>8. Slots!ServedInOrder
  <2> SUFFICES ASSUME NEW p \in Slots!Policies, NEW r \in 1 .. Count, NEW q \in 1 .. Count,
                      r < q, s1[p][q] # -1
               PROVE  s1[p][r] # -1 /\ s1[p][r] <= s1[p][q]
    BY <1>3 DEF Slots!ServedInOrder
  <2>1. q <= h[p]
    BY <1>5
  <2>2. r \in 1 .. h[p] /\ q \in 1 .. h[p] /\ r <= h[p]
    BY <1>3, <1>4, <2>1
  <2>3. s1[p][r] <= s1[p][q]
    BY <1>1, <2>2 DEF SlotsTyped
  <2>4. s1[p][r] \in Nat
    BY <1>5, <2>2
  <2> QED BY <2>3, <2>4
<1>9. Slots!SlotsHeld
  <2>1. ASSUME NEW p \in Slots!Policies
        PROVE  Slots!Busy(p, Slots!Now) = {r \in 1 .. Count : r <= h[p] /\ it - 1 <= LastStep(p, r)}
    BY <1>1, BusyNow DEF Slots!Now
  <2> DEFINE BS == Slots!Busy("static", Slots!Now)
             BI == Slots!Busy("iteration", Slots!Now)
  <2>2. BS = {r \in 1 .. Count : r <= st /\ it - 1 <= LastStep("static", r)}
    BY <1>2, <2>1
  <2>3. BI = {r \in 1 .. Count : r <= iter /\ it - 1 <= LastStep("iteration", r)}
    BY <1>2, <2>1
  <2> HIDE DEF BS, BI
  <2>4. Cardinality(BS) <= K
    <3> DEFINE W == base + 1 .. st
    <3>1. IsFiniteSet(W) /\ Cardinality(W) = st - base
      <4>1. base \in Int /\ st \in Int /\ base <= st
        BY <1>2, <1>4, <1>6
      <4> HIDE DEF st
      <4> QED BY <4>1, SpanCount
    <3>2. ASSUME NEW r \in BS PROVE r \in W
      <4>1. r \in 1 .. Count /\ r <= st /\ it - 1 <= LastStep("static", r)
        BY <2>2
      <4>2. r \in 1 .. base => LastStep("static", r) \in Int
        <5>1. s1["static"][r] \in Nat
          BY <1>2, <1>5, <4>1
        <5> QED BY <1>3, <4>1, <5>1 DEF LastStep
      <4>3. ~(r \in 1 .. base)
        BY <1>3, <1>6, <4>1, <4>2
      <4> QED BY <1>2, <1>3, <1>4, <1>6, <4>1, <4>3
    <3>3. Cardinality(BS) <= Cardinality(W) /\ Cardinality(BS) \in Nat
      <4>1. BS \subseteq W
        BY <3>2
      <4> HIDE DEF W
      <4> QED BY <3>1, <4>1, FS_Subset, FS_CardinalityType
    <3>4. st \in Int /\ base \in Int
      BY <1>2, <1>4, <1>6
    <3> HIDE DEF W, st
    <3> QED BY <1>3, <1>6, <3>1, <3>3, <3>4
  \* The busy requests and the slots that are not empty correspond.
  <2>5. /\ s3 \in [1 .. K -> 0 .. iter]
        /\ \A i, j \in 1 .. K : s3[i] = s3[j] /\ s3[i] # 0 => i = j
        /\ \A r \in 1 .. iter : LastStep("iteration", r) >= it - 1 => \E j \in 1 .. K : s3[j] = r
        /\ \A j \in 1 .. K : IF s3[j] = 0 THEN iter = came ELSE LastStep("iteration", s3[j]) >= it - 1
    BY <1>1 DEF SlotsTaken
  <2>6. ASSUME NEW r \in BI PROVE r # 0 /\ \E j \in 1 .. K : s3[j] = r
    <3>1. r \in 1 .. Count /\ r <= iter /\ it - 1 <= LastStep("iteration", r)
      BY <2>3
    <3>2. s1["iteration"][r] \in Nat
      BY <1>2, <1>5, <3>1
    <3>3. LastStep("iteration", r) \in Int /\ r \in 1 .. iter
      BY <1>2, <1>3, <1>4, <3>1, <3>2, SMTT(30) DEF LastStep
    <3>4. LastStep("iteration", r) >= it - 1
      BY <1>3, <3>1, <3>3
    <3> QED BY <2>5, <3>1, <3>3, <3>4
  <2>7. ASSUME NEW j \in 1 .. K, s3[j] # 0 PROVE s3[j] \in BI
    <3>1. s3[j] \in 1 .. iter /\ s3[j] \in 1 .. Count
      <4>1. s3[j] \in 0 .. iter
        BY <2>5
      <4> QED BY <1>2, <1>3, <1>4, <2>7, <4>1
    <3>2. s1["iteration"][s3[j]] \in Nat
      BY <1>2, <1>5, <3>1
    <3>3. LastStep("iteration", s3[j]) \in Int /\ LastStep("iteration", s3[j]) >= it - 1
      BY <1>3, <2>5, <2>7, <3>1, <3>2, SMTT(30) DEF LastStep
    <3> QED BY <1>3, <2>3, <3>1, <3>3
  <2> DEFINE H == {j \in 1 .. K : s3[j] # 0}
             f == [j \in H |-> s3[j]]
  <2>8. IsFiniteSet(1 .. K) /\ Cardinality(1 .. K) = K
    BY <1>3, CountTo, Zenon
  <2>9. H \subseteq 1 .. K /\ IsFiniteSet(H) /\ Cardinality(H) <= K
    <3>1. H \subseteq 1 .. K
      OBVIOUS
    <3> HIDE DEF H
    <3> QED BY <2>8, <3>1, FS_Subset
  <2>10. f \in Injection(H, BI) /\ f \in Surjection(H, BI)
    <3>1. f \in [H -> BI]
      BY <2>7
    <3>2. \A i, j \in H : f[i] = f[j] => i = j
      BY <2>5
    <3>3. \A r \in BI : \E j \in H : f[j] = r
      BY <2>6
    <3> HIDE DEF f, H
    <3> QED BY <3>1, <3>2, <3>3, Zenon DEF Injection, IsInjective, Surjection
  <2>11. IsFiniteSet(BI) /\ Cardinality(BI) = Cardinality(H)
    <3>1. IsFiniteSet(BI)
      <4> HIDE DEF f, H
      <4> QED BY <2>9, <2>10, FS_Surjection
    <3> HIDE DEF f, H
    <3> QED BY <2>9, <2>10, <3>1, FS_Injection
  <2>12. Cardinality(BI) <= K
    BY <2>9, <2>11
  <2>13. ASSUME Cardinality(BI) < K PROVE s2["iteration"] = << >>
    <3>1. \E j \in 1 .. K : s3[j] = 0
      <4> SUFFICES ASSUME \A j \in 1 .. K : s3[j] # 0 PROVE FALSE
        OBVIOUS
      <4>1. H = 1 .. K
        OBVIOUS
      <4> HIDE DEF H
      <4> QED BY <1>3, <2>8, <2>11, <2>13, <4>1
    <3>2. iter = came
      BY <2>5, <3>1
    <3>3. s2["iteration"] = Span(iter, came)
      BY <1>1, <1>2 DEF SlotsTyped
    <3>4. came \in Nat
      BY <1>3, <1>4
    <3>5. Span(came, came) = << >>
      BY <3>4, SpanSeq
    <3> QED BY <3>2, <3>3, <3>5
  <2>14. ASSUME NEW r \in BI PROVE Cardinality({j \in 1 .. K : s3[j] = r}) = 1
    <3>1. PICK j \in 1 .. K : s3[j] = r
      BY <2>6
    <3>2. {i \in 1 .. K : s3[i] = r} = {j}
      BY <2>5, <2>6, <3>1
    <3> QED BY <3>2, FS_Singleton
  <2>15. \A p \in Slots!Policies : Cardinality(Slots!Busy(p, Slots!Now)) <= K
    BY <1>2, <2>4, <2>12 DEF BS, BI
  <2>16. (Cardinality(BI) < K => s2["iteration"] = << >>)
         /\ \A r \in BI : Cardinality({j \in Slots!Slots : s3[j] = r}) = 1
    BY <1>3, <2>13, <2>14
  <2> QED BY <2>15, <2>16, SlotsLibrary, Zenon DEF Slots!SlotsHeld, BI
<1> QED BY <1>7, <1>8, <1>9

----------------------------------------------------------------------------
(* The dispatch into expert buffers.                                       *)

Claim == [tok: 1 .. TOKENS, want: 1 .. EXPERTS, at: 0 .. EXPERTS, slot: Nat]

\* The tokens expert e runs.
Runs(e) == {s3[i].tok : i \in {j \in 1 .. it : s3[j].at = e}}

ExpertsTyped ==
  /\ par \in ExpertParams /\ it \in Nat /\ it <= par.k * TOKENS
  /\ s1 \in [1 .. EXPERTS -> Nat] /\ s2 \in [1 .. TOKENS -> SUBSET (1 .. EXPERTS)]
  /\ s3 \in Seq(Claim) /\ Len(s3) = it

\* Claim i is of the i-th assignment; one that is kept has a slot of the expert
\* it asked for, or of one its token was sent to instead.
ClaimsMade ==
  \A i \in 1 .. it :
    /\ s3[i].tok = ((i - 1) % TOKENS) + 1
    /\ s3[i].want = par.rank[s3[i].tok][((i - 1) \div TOKENS) + 1]
    /\ s3[i].at # 0 => /\ s3[i].slot < s1[s3[i].at]
                       /\ s3[i].at # s3[i].want =>
                            s3[i].at \in s2[s3[i].tok] \ Experts!sel(s3[i].tok)

\* An expert has filled a slot for each token it runs.
SlotsCounted ==
  \A e \in 1 .. EXPERTS : IsFiniteSet(Runs(e)) /\ Cardinality(Runs(e)) = s1[e]

ExpertsInv ==
  /\ ExpertsTyped /\ ClaimsMade /\ SlotsCounted
  /\ Experts!SlotsApart /\ Experts!ExpertsDistinct /\ Experts!DroppedWhenFull

\* The library's operators are the same everywhere.
LEMMA ExpertsLibrary == \A x : Experts!Min(x) = Min(x) /\ Experts!IsInjective(x) = IsInjective(x)
  BY DEF Experts!Min, Min, Experts!IsInjective, IsInjective

\* What a workload of the figure is.
LEMMA ExpertsParam ==
  ASSUME NEW p \in ExpertParams
  PROVE  /\ TOKENS \in Nat /\ TOKENS > 0 /\ EXPERTS \in Nat
         /\ p.k \in 1 .. EXPERTS /\ p.cap \in Nat
         /\ \A t \in 1 .. TOKENS : p.rank[t] \in [1 .. EXPERTS -> 1 .. EXPERTS] /\ IsInjective(p.rank[t])
<1>1. p \in Experts!Param /\ TOKENS \in Nat \ {0} /\ EXPERTS \in Nat \ {0}
  BY DispatchAssumption
<1> DEFINE R == [1 .. TOKENS -> {f \in [1 .. EXPERTS -> 1 .. EXPERTS] : Experts!IsInjective(f)}]
<1>2. p.k \in 1 .. EXPERTS /\ p.cap \in Nat /\ p.rank \in R
  <2> DEFINE K == 1 .. EXPERTS
  <2>1. p \in [rank: R, k: K, cap: Nat, policy: {"drop", "reroute"}]
    BY <1>1, Zenon DEF Experts!Param
  <2> HIDE DEF R, K
  <2>2. p.k \in K /\ p.cap \in Nat /\ p.rank \in R
    BY <2>1
  <2> QED BY <2>2 DEF K
<1>4. ASSUME NEW t \in 1 .. TOKENS
      PROVE  p.rank[t] \in [1 .. EXPERTS -> 1 .. EXPERTS] /\ IsInjective(p.rank[t])
  BY <1>2, ExpertsLibrary
<1>5. TOKENS \in Nat /\ TOKENS > 0 /\ EXPERTS \in Nat
  BY <1>1
<1> QED BY <1>2, <1>4, <1>5, Zenon

\* Every expert is somewhere in a token's preferences.
LEMMA AllRanked ==
  ASSUME NEW p \in ExpertParams, NEW t \in 1 .. TOKENS, NEW e \in 1 .. EXPERTS
  PROVE  \E r \in 1 .. EXPERTS : p.rank[t][r] = e
<1> DEFINE f == p.rank[t]
           S == 1 .. EXPERTS
<1>1. f \in [S -> S] /\ IsInjective(f) /\ EXPERTS \in Nat
  BY ExpertsParam
<1>2. f \in Injection(S, S)
  BY <1>1 DEF Injection
<1>3. IsFiniteSet(S)
  BY <1>1, FS_Interval
<1> HIDE DEF f, S
<1>4. f \in Surjection(S, S)
  BY <1>2, <1>3, FS_Injection
<1>5. \A y \in S : \E x \in S : f[x] = y
  BY <1>4, Zenon DEF Surjection
<1> QED BY <1>5 DEF f, S

\* ExpertsInv holds first.
LEMMA ExpertsStart ==
  ASSUME Experts!Init PROVE ExpertsInv
<1> USE DEF Experts!Init
<1>1. par \in ExpertParams /\ it = 0 /\ s3 = << >>
  OBVIOUS
<1>2. TOKENS \in Nat /\ EXPERTS \in Nat /\ par.k \in Nat /\ par.cap \in Nat
  BY <1>1, ExpertsParam
<1>3. ExpertsTyped
  BY <1>1, <1>2 DEF ExpertsTyped
<1>4. ClaimsMade
  BY <1>1 DEF ClaimsMade
<1>5. SlotsCounted
  <2>1. \A e : Runs(e) = {}
    BY <1>1 DEF Runs
  <2> QED BY <2>1, FS_EmptySet DEF SlotsCounted
<1>6. Experts!SlotsApart /\ Experts!ExpertsDistinct /\ Experts!DroppedWhenFull
  BY <1>1, <1>2 DEF Experts!SlotsApart, Experts!ExpertsDistinct, Experts!DroppedWhenFull, Experts!Kept
<1> QED BY <1>3, <1>4, <1>5, <1>6 DEF ExpertsInv

\* What an assignment asks for and gets.
LEMMA AssignmentAt ==
  ASSUME ExpertsTyped, it < par.k * TOKENS
  PROVE  /\ Experts!tok \in 1 .. TOKENS /\ Experts!rank \in 1 .. par.k
         /\ Experts!want \in 1 .. EXPERTS /\ Experts!want \in Experts!sel(Experts!tok)
         /\ Experts!at \in 0 .. EXPERTS
         /\ Experts!at # 0 => s1[Experts!at] < par.cap
         /\ Experts!at \notin {0, Experts!want} => Experts!at \notin Experts!taken
         /\ Experts!at = 0 =>
              /\ s1[Experts!want] >= par.cap
              /\ par.policy = "reroute" =>
                   \A e \in 1 .. EXPERTS : e \in Experts!taken \/ s1[e] >= par.cap
<1> DEFINE tok == Experts!tok
           rank == Experts!rank
           want == Experts!want
           at == Experts!at
<1>1. /\ TOKENS \in Nat /\ TOKENS > 0 /\ EXPERTS \in Nat /\ par.k \in 1 .. EXPERTS /\ par.cap \in Nat
      /\ it \in Nat
      /\ \A t \in 1 .. TOKENS : par.rank[t] \in [1 .. EXPERTS -> 1 .. EXPERTS]
  BY ExpertsParam DEF ExpertsTyped
<1>2. tok \in 1 .. TOKENS
  <2>1. it % TOKENS \in 0 .. TOKENS - 1
    BY <1>1, DivMod
  <2> QED BY <1>1, <2>1 DEF Experts!tok
<1>3. rank \in 1 .. par.k
  <2>1. par.k \in Nat
    BY <1>1
  <2>2. it \div TOKENS \in Nat /\ it \div TOKENS < par.k
    BY <1>1, <2>1, DivMod, DivUnder
  <2> QED BY <1>1, <2>2 DEF Experts!rank
<1>4. want \in 1 .. EXPERTS /\ want \in Experts!sel(tok)
  <2>1. rank \in 1 .. EXPERTS
    BY <1>1, <1>3
  <2> HIDE DEF tok, rank
  <2>2. want = par.rank[tok][rank]
    BY DEF Experts!want, tok, rank
  <2> HIDE DEF want
  <2> QED BY <1>1, <1>2, <1>3, <2>1, <2>2 DEF Experts!sel
<1>5. CASE s1[want] < par.cap
  <2>1. at = want
    BY <1>5 DEF Experts!at
  <2> HIDE DEF at, want, tok, rank
  <2>2. at # 0 /\ at \in 0 .. EXPERTS
    BY <1>1, <1>4, <2>1
  <2>3. /\ tok \in 1 .. TOKENS /\ rank \in 1 .. par.k
        /\ want \in 1 .. EXPERTS /\ want \in Experts!sel(tok)
        /\ at \in 0 .. EXPERTS
        /\ at # 0 => s1[at] < par.cap
        /\ at \notin {0, want} => at \notin Experts!taken
    BY <1>2, <1>3, <1>4, <1>5, <2>1, <2>2
  <2> QED BY <2>2, <2>3 DEF at, want, tok, rank
<1>6. CASE ~(s1[want] < par.cap) /\ par.policy = "reroute" /\ Experts!open # {}
  <2> DEFINE r == Min(Experts!open)
  <2>1. Experts!open \in SUBSET Nat
    BY <1>1 DEF Experts!open
  <2>2. r \in Experts!open
    BY <1>6, <2>1, MinOf
  <2>3. at = par.rank[tok][r]
    BY <1>6, ExpertsLibrary DEF Experts!at
  <2> HIDE DEF r
  <2>4. r \in 1 .. EXPERTS /\ at \notin Experts!taken /\ s1[at] < par.cap
    <3>1. r \in 1 .. EXPERTS /\ par.rank[tok][r] \notin Experts!taken /\ s1[par.rank[tok][r]] < par.cap
      BY <2>2 DEF Experts!open
    <3> HIDE DEF at, tok
    <3> QED BY <2>3, <3>1
  <2> HIDE DEF at, want, tok, rank
  <2>5. at \in 1 .. EXPERTS
    BY <1>1, <1>2, <2>3, <2>4
  <2>6. /\ tok \in 1 .. TOKENS /\ rank \in 1 .. par.k
        /\ want \in 1 .. EXPERTS /\ want \in Experts!sel(tok)
        /\ at \in 0 .. EXPERTS
        /\ at # 0 => s1[at] < par.cap
        /\ at \notin {0, want} => at \notin Experts!taken
        /\ at # 0
    BY <1>1, <1>2, <1>3, <1>4, <2>4, <2>5
  <2> QED BY <2>6 DEF at, want, tok, rank
<1>7. CASE ~(s1[want] < par.cap) /\ ~(par.policy = "reroute" /\ Experts!open # {})
  <2>1. at = 0
    BY <1>7 DEF Experts!at
  <2>2. ASSUME par.policy = "reroute", NEW e \in 1 .. EXPERTS, e \notin Experts!taken
        PROVE  s1[e] >= par.cap
    <3>1. PICK r \in 1 .. EXPERTS : par.rank[tok][r] = e
      <4> HIDE DEF tok
      <4> QED BY <1>2, AllRanked DEF ExpertsTyped
    <3>2. Experts!open = {}
      BY <1>7, <2>2
    <3>3. ~(s1[e] < par.cap)
      BY <2>2, <3>1, <3>2 DEF Experts!open
    <3>4. s1[e] \in Nat
      BY DEF ExpertsTyped
    <3> QED BY <1>1, <3>3, <3>4
  <2> HIDE DEF at, want, tok, rank
  <2>3. s1[want] >= par.cap
    BY <1>1, <1>4, <1>7, SMTT(30) DEF ExpertsTyped
  <2>4. /\ tok \in 1 .. TOKENS /\ rank \in 1 .. par.k
        /\ want \in 1 .. EXPERTS /\ want \in Experts!sel(tok)
        /\ at \in 0 .. EXPERTS /\ at = 0
        /\ s1[want] >= par.cap
        /\ par.policy = "reroute" =>
                   \A e \in 1 .. EXPERTS : e \in Experts!taken \/ s1[e] >= par.cap
    BY <1>1, <1>2, <1>3, <1>4, <2>1, <2>2, <2>3
  <2> QED BY <2>4 DEF at, want, tok, rank
<1> QED BY <1>5, <1>6, <1>7

\* Every assignment keeps ExpertsInv.
LEMMA ExpertsStep ==
  ASSUME ExpertsInv, Experts!Next PROVE ExpertsInv'
<1> DEFINE tok == Experts!tok
           want == Experts!want
           at == Experts!at
           c == [tok |-> tok, want |-> want, at |-> at, slot |-> IF at = 0 THEN 0 ELSE s1[at]]
           n == it
<1>1. /\ it < par.k * TOKENS
      /\ s3' = Append(s3, c)
      /\ s1' = [e \in 1 .. EXPERTS |-> s1[e] + (IF e = at THEN 1 ELSE 0)]
      /\ s2' = [t \in 1 .. TOKENS |-> s2[t] \cup (IF t = tok /\ at \notin {0, want} THEN {at} ELSE {})]
      /\ it' = it + 1 /\ par' = par
  BY DEF Experts!Next, Experts!Assign
<1>2. ExpertsTyped /\ ClaimsMade /\ SlotsCounted
  BY DEF ExpertsInv
<1>3. /\ TOKENS \in Nat /\ TOKENS > 0 /\ EXPERTS \in Nat /\ par.k \in 1 .. EXPERTS /\ par.cap \in Nat
      /\ n \in Nat /\ s1 \in [1 .. EXPERTS -> Nat] /\ s2 \in [1 .. TOKENS -> SUBSET (1 .. EXPERTS)]
      /\ s3 \in Seq(Claim) /\ Len(s3) = n
      /\ \A t \in 1 .. TOKENS : par.rank[t] \in [1 .. EXPERTS -> 1 .. EXPERTS] /\ IsInjective(par.rank[t])
  BY <1>2, ExpertsParam DEF ExpertsTyped
<1>4. /\ tok \in 1 .. TOKENS /\ want \in 1 .. EXPERTS /\ want \in Experts!sel(tok) /\ at \in 0 .. EXPERTS
      /\ at # 0 => s1[at] < par.cap
      /\ at \notin {0, want} => at \notin Experts!sel(tok) /\ at \notin s2[tok]
      /\ at = 0 =>
              /\ s1[want] >= par.cap
              /\ par.policy = "reroute" =>
                   \A e \in 1 .. EXPERTS : e \in Experts!sel(tok) \cup s2[tok] \/ s1[e] >= par.cap
  BY <1>1, <1>2, AssignmentAt DEF Experts!taken
<1>5. tok = (n % TOKENS) + 1 /\ want = par.rank[tok][(n \div TOKENS) + 1]
  BY DEF Experts!tok, Experts!want, Experts!rank
<1> HIDE DEF tok, want, at
<1>6. c \in Claim /\ c.tok = tok /\ c.want = want /\ c.at = at /\ (at # 0 => c.slot = s1[at])
  BY <1>3, <1>4 DEF Claim
<1> HIDE DEF c
<1>7. /\ s3' \in Seq(Claim) /\ Len(s3') = n + 1
      /\ \A i \in 1 .. n : s3'[i] = s3[i] /\ s3[i] \in Claim
      /\ s3'[n + 1] = c
  <2>1. s3' = Append(s3, c) /\ c \in Claim /\ s3 \in Seq(Claim) /\ Len(s3) = n
    BY <1>1, <1>3, <1>6
  <2>2. \A i \in 1 .. n : s3[i] \in Claim
    BY <2>1, ElementOfSeq
  <2>3. /\ Append(s3, c) \in Seq(Claim) /\ Len(Append(s3, c)) = n + 1
        /\ \A i \in 1 .. n : Append(s3, c)[i] = s3[i]
        /\ Append(s3, c)[n + 1] = c
    <3> HIDE DEF n
    <3> QED BY <2>1, AppendProperties
  <2> QED BY <2>1, <2>2, <2>3, Zenon
<1>8. \A i \in 1 .. n + 1 : i \in 1 .. n \/ i = n + 1
  BY <1>3
<1>9. /\ s1' \in [1 .. EXPERTS -> Nat]
      /\ \A e \in 1 .. EXPERTS : s1[e] <= s1'[e] /\ s1'[e] = s1[e] + (IF e = at THEN 1 ELSE 0)
  BY <1>1, <1>3, SMTT(30)
<1>10. /\ s2' \in [1 .. TOKENS -> SUBSET (1 .. EXPERTS)]
       /\ \A t \in 1 .. TOKENS : s2[t] \subseteq s2'[t]
       /\ at \notin {0, want} => at \in s2'[tok]
  BY <1>1, <1>3, <1>4, SMTT(30)
<1>11. ExpertsTyped'
  <2>1. it' \in Nat /\ it' <= par.k * TOKENS
    <3>1. par.k * TOKENS \in Nat
      BY <1>3
    <3> QED BY <1>1, <1>3, <3>1
  <2> QED BY <1>1, <1>2, <1>7, <1>9, <1>10, <2>1 DEF ExpertsTyped
<1>12. \A t : Experts!sel(t)' = Experts!sel(t)
  BY <1>1 DEF Experts!sel
<1>13. ClaimsMade'
  <2> SUFFICES ASSUME NEW i \in 1 .. n + 1
               PROVE  /\ s3'[i].tok = ((i - 1) % TOKENS) + 1
                      /\ s3'[i].want = par.rank[s3'[i].tok][((i - 1) \div TOKENS) + 1]
                      /\ s3'[i].at # 0 => /\ s3'[i].slot < s1'[s3'[i].at]
                                          /\ s3'[i].at # s3'[i].want =>
                                               s3'[i].at \in s2'[s3'[i].tok] \ Experts!sel(s3'[i].tok)
    BY <1>1, <1>12 DEF ClaimsMade
  <2>1. CASE i \in 1 .. n
    <3>1. s3'[i] = s3[i] /\ s3[i].at \in 0 .. EXPERTS /\ s3[i].tok \in 1 .. TOKENS /\ s3[i].slot \in Nat
      BY <1>7, <2>1 DEF Claim
    <3>2. /\ s3[i].tok = ((i - 1) % TOKENS) + 1
          /\ s3[i].want = par.rank[s3[i].tok][((i - 1) \div TOKENS) + 1]
          /\ s3[i].at # 0 => /\ s3[i].slot < s1[s3[i].at]
                             /\ s3[i].at # s3[i].want => s3[i].at \in s2[s3[i].tok] \ Experts!sel(s3[i].tok)
      BY <1>2, <2>1 DEF ClaimsMade
    <3>3. s3[i].at # 0 => s1[s3[i].at] \in Nat /\ s1'[s3[i].at] \in Nat /\ s1[s3[i].at] <= s1'[s3[i].at]
      BY <1>3, <1>9, <3>1, SMTT(30)
    <3>4. s3[i].at # 0 => s3[i].slot < s1'[s3[i].at]
      BY <3>1, <3>2, <3>3
    <3>5. s2[s3[i].tok] \subseteq s2'[s3[i].tok]
      BY <1>10, <3>1
    <3> QED BY <3>1, <3>2, <3>4, <3>5, Zenon
  <2>2. CASE i = n + 1
    <3>1. s3'[i] = c /\ i - 1 = n
      BY <1>3, <1>7, <2>2
    <3>2. at # 0 => s1[at] \in Nat /\ s1'[at] = s1[at] + 1
      BY <1>3, <1>4, <1>9
    <3>3. at # 0 => c.slot < s1'[at]
      BY <1>6, <3>2
    <3> QED BY <1>4, <1>5, <1>6, <1>10, <3>1, <3>3, Zenon
  <2> QED BY <1>8, <2>1, <2>2, SMTT(30)
\* The token at hand is not yet run by the expert it gets or is refused by.
<1>14. ASSUME NEW i \in 1 .. n, s3[i].tok = tok, s3[i].at # 0
       PROVE  s3[i].at # want /\ (at # 0 => s3[i].at # at)
  <2>1. /\ s3[i].at = s3[i].want \/ s3[i].at \in s2[tok] \ Experts!sel(tok)
        /\ tok = ((i - 1) % TOKENS) + 1
        /\ s3[i].want = par.rank[tok][((i - 1) \div TOKENS) + 1]
    BY <1>2, <1>14 DEF ClaimsMade
  <2>2. i - 1 \in Nat /\ i - 1 # n /\ i - 1 < par.k * TOKENS /\ par.k \in Nat
    <3>1. par.k * TOKENS \in Nat
      BY <1>3
    <3> QED BY <1>1, <1>3, <3>1, SMTT(30)
  <2> DEFINE d == (i - 1) \div TOKENS
             q == n \div TOKENS
  <2>3. d \in Nat /\ d < par.k /\ q \in Nat /\ q < par.k
    BY <1>1, <1>3, <2>2, DivMod, DivUnder
  <2>4. d # q
    <3>1. (i - 1) % TOKENS \in 0 .. TOKENS - 1 /\ n % TOKENS \in 0 .. TOKENS - 1
      BY <1>3, <2>2, DivMod
    <3>2. (i - 1) % TOKENS = n % TOKENS
      BY <1>5, <2>1, <3>1
    <3> QED BY <1>3, <2>2, <3>2, DivSame
  <2> HIDE DEF d, q
  <2>5. s3[i].want # want /\ s3[i].want \in Experts!sel(tok)
    <3>1. s3[i].want = par.rank[tok][d + 1] /\ want = par.rank[tok][q + 1]
      BY <1>5, <2>1 DEF d, q
    <3>2. d + 1 \in 1 .. par.k /\ d + 1 \in 1 .. EXPERTS /\ q + 1 \in 1 .. EXPERTS /\ d + 1 # q + 1
      BY <1>3, <2>3, <2>4
    <3>3. par.rank[tok] \in [1 .. EXPERTS -> 1 .. EXPERTS] /\ IsInjective(par.rank[tok])
      BY <1>3, <1>4
    <3>4. \A a, b \in 1 .. EXPERTS : par.rank[tok][a] = par.rank[tok][b] => a = b
      BY <3>3 DEF IsInjective
    <3> QED BY <3>1, <3>2, <3>4 DEF Experts!sel
  <2> QED BY <1>4, <2>1, <2>5
<1>15. SlotsCounted'
  <2> SUFFICES ASSUME NEW e \in 1 .. EXPERTS
               PROVE  IsFiniteSet(Runs(e)') /\ Cardinality(Runs(e)') = s1'[e]
    BY DEF SlotsCounted
  <2>1. IsFiniteSet(Runs(e)) /\ Cardinality(Runs(e)) = s1[e]
    BY <1>2 DEF SlotsCounted
  <2>2. Runs(e)' = Runs(e) \cup (IF e = at THEN {tok} ELSE {})
    <3>1. Runs(e)' = {s3'[i].tok : i \in {j \in 1 .. n + 1 : s3'[j].at = e}}
      BY <1>1 DEF Runs
    <3>2. ASSUME NEW j \in 1 .. n + 1, s3'[j].at = e
          PROVE  s3'[j].tok \in Runs(e) \cup (IF e = at THEN {tok} ELSE {})
      <4>1. CASE j \in 1 .. n
        BY <1>7, <3>2, <4>1 DEF Runs
      <4>2. CASE j = n + 1
        BY <1>6, <1>7, <3>2, <4>2
      <4> QED BY <1>8, <4>1, <4>2
    <3>3. ASSUME NEW j \in 1 .. n, s3[j].at = e PROVE s3[j].tok \in Runs(e)'
      <4>1. j \in 1 .. n + 1 /\ s3'[j] = s3[j]
        BY <1>3, <1>7
      <4> QED BY <3>1, <3>3, <4>1
    <3>4. ASSUME e = at PROVE tok \in Runs(e)'
      <4>1. n + 1 \in 1 .. n + 1 /\ s3'[n + 1].at = e /\ s3'[n + 1].tok = tok
        BY <1>3, <1>6, <1>7, <3>4
      <4> QED BY <3>1, <4>1
    <3> QED BY <3>1, <3>2, <3>3, <3>4, ZenonT(40) DEF Runs
  <2>3. CASE e = at
    <3>1. tok \notin Runs(e)
      BY <1>3, <1>14, <2>3 DEF Runs
    <3>2. Runs(e)' = Runs(e) \cup {tok}
      BY <2>2, <2>3
    <3>3. s1'[e] = s1[e] + 1
      BY <1>9, <2>3
    <3> QED BY <2>1, <3>1, <3>2, <3>3, FS_AddElement
  <2>4. CASE e # at
    BY <1>3, <1>9, <2>1, <2>2, <2>4
  <2> QED BY <2>3, <2>4
<1>16. Experts!Kept' = Experts!Kept \cup (IF at # 0 THEN {n + 1} ELSE {})
  <2>1. DOMAIN s3 = 1 .. n /\ DOMAIN s3' = 1 .. n + 1
    BY <1>3, <1>7
  <2> QED BY <1>3, <1>6, <1>7, <1>8, <2>1 DEF Experts!Kept
<1>17. ASSUME NEW i \in Experts!Kept
       PROVE  i \in 1 .. n /\ s3'[i] = s3[i] /\ s3[i].at \in 1 .. EXPERTS /\ s3[i].tok \in 1 .. TOKENS
  <2>1. i \in 1 .. n /\ s3[i].at # 0
    BY <1>3 DEF Experts!Kept
  <2>2. s3[i] \in Claim /\ s3'[i] = s3[i]
    BY <1>7, <2>1
  <2> QED BY <1>3, <2>1, <2>2 DEF Claim
<1>18. Experts!SlotsApart'
  <2>1. ASSUME NEW e \in 1 .. EXPERTS PROVE s1'[e] <= par.cap
    <3>1. s1[e] <= par.cap
      BY DEF ExpertsInv, Experts!SlotsApart
    <3>2. s1[e] \in Nat /\ s1'[e] = s1[e] + (IF e = at THEN 1 ELSE 0) /\ par.cap \in Nat /\ e # 0
      BY <1>3, <1>9
    <3>3. e = at => s1[e] < par.cap
      BY <1>4, <3>2
    <3> QED BY <3>1, <3>2, <3>3
  <2>2. ASSUME NEW i \in Experts!Kept, at # 0
        PROVE  <<s3[i].at, s3[i].slot>> # <<c.at, c.slot>>
    <3>1. s3[i].slot < s1[s3[i].at] /\ s1[s3[i].at] \in Nat /\ s3[i].slot \in Nat
      <4>1. i \in 1 .. n /\ s3[i].at \in 1 .. EXPERTS /\ s3[i].at # 0 /\ s3[i] \in Claim
        BY <1>7, <1>17 DEF Experts!Kept
      <4>2. s3[i].slot < s1[s3[i].at]
        BY <1>2, <4>1, Zenon DEF ClaimsMade
      <4> QED BY <1>3, <4>1, <4>2 DEF Claim
    <3> QED BY <1>6, <2>2, <3>1
  <2>3. ASSUME NEW i \in Experts!Kept', NEW j \in Experts!Kept', i # j
        PROVE  <<s3'[i].at, s3'[i].slot>> # <<s3'[j].at, s3'[j].slot>>
    <3>1. CASE i \in Experts!Kept /\ j \in Experts!Kept
      BY <1>17, <2>3, <3>1 DEF ExpertsInv, Experts!SlotsApart
    <3>2. CASE i \in Experts!Kept /\ j \notin Experts!Kept
      BY <1>7, <1>16, <1>17, <2>2, <3>2
    <3>3. CASE i \notin Experts!Kept /\ j \in Experts!Kept
      BY <1>7, <1>16, <1>17, <2>2, <3>3
    <3> QED BY <1>16, <2>3, <3>1, <3>2, <3>3
  <2> QED BY <1>1, <2>1, <2>3 DEF Experts!SlotsApart
<1>19. Experts!ExpertsDistinct'
  <2>1. ASSUME NEW i \in Experts!Kept, at # 0, s3[i].tok = tok PROVE s3[i].at # at
    BY <1>14, <1>17, <2>1
  <2>2. ASSUME NEW i \in Experts!Kept', NEW j \in Experts!Kept', i # j, s3'[i].tok = s3'[j].tok
        PROVE  s3'[i].at # s3'[j].at
    <3>1. CASE i \in Experts!Kept /\ j \in Experts!Kept
      BY <1>17, <2>2, <3>1 DEF ExpertsInv, Experts!ExpertsDistinct
    <3>2. CASE i \in Experts!Kept /\ j \notin Experts!Kept
      BY <1>6, <1>7, <1>16, <1>17, <2>1, <2>2, <3>2
    <3>3. CASE i \notin Experts!Kept /\ j \in Experts!Kept
      BY <1>6, <1>7, <1>16, <1>17, <2>1, <2>2, <3>3
    <3> QED BY <1>16, <2>2, <3>1, <3>2, <3>3
  <2> QED BY <2>2 DEF Experts!ExpertsDistinct
\* An expert runs no token twice, so a full one leaves the token at hand out.
<1>20. ASSUME at = 0 PROVE s1[want] = par.cap /\ par.cap < TOKENS
  <2>1. s1[want] <= par.cap /\ s1[want] \in Nat
    BY <1>3, <1>4 DEF ExpertsInv, Experts!SlotsApart
  <2>2. s1[want] = par.cap
    BY <1>3, <1>4, <1>20, <2>1
  <2>3. IsFiniteSet(Runs(want)) /\ Cardinality(Runs(want)) = par.cap
    BY <1>2, <1>4, <2>2 DEF SlotsCounted
  <2>4. tok \notin Runs(want)
    <3>1. want # 0
      BY <1>3, <1>4
    <3> QED BY <1>3, <1>14, <3>1 DEF Runs
  <2>5. Runs(want) \subseteq 1 .. TOKENS
    <3>1. \A i \in 1 .. n : s3[i].tok \in 1 .. TOKENS
      BY <1>7 DEF Claim
    <3> QED BY <3>1, Zenon DEF Runs
  <2>6. IsFiniteSet(1 .. TOKENS) /\ Cardinality(1 .. TOKENS) = TOKENS
    <3>1. TOKENS \in Nat /\ TOKENS > 0
      BY <1>3
    <3> QED BY <3>1, FS_Interval
  <2>7. Cardinality(Runs(want) \cup {tok}) = par.cap + 1 /\ IsFiniteSet(Runs(want) \cup {tok})
    BY <2>3, <2>4, FS_AddElement
  <2>8. Cardinality(Runs(want) \cup {tok}) <= TOKENS
    <3>1. Runs(want) \cup {tok} \subseteq 1 .. TOKENS
      BY <1>4, <2>5
    <3> QED BY <2>6, <3>1, FS_Subset
  <2> QED BY <1>3, <2>2, <2>7, <2>8
<1>21. Experts!DroppedWhenFull'
  <2>1. \A e \in 1 .. EXPERTS : s1'[e] <= par.cap
    BY <1>1, <1>18 DEF Experts!SlotsApart
  <2>2. \A e \in 1 .. EXPERTS : s1[e] >= par.cap => s1'[e] = par.cap
    BY <1>3, <1>9, <2>1
  <2> SUFFICES ASSUME NEW i \in 1 .. n + 1, i \notin Experts!Kept'
               PROVE  /\ s1'[s3'[i].want] = par.cap /\ par.cap < TOKENS
                      /\ par.policy = "reroute" =>
                           \A e \in 1 .. EXPERTS :
                             e \in Experts!sel(s3'[i].tok) \cup s2'[s3'[i].tok] \/ s1'[e] = par.cap
    <3>1. DOMAIN s3' = 1 .. n + 1
      BY <1>3, <1>7
    <3> QED BY <1>1, <1>12, <3>1, Zenon DEF Experts!DroppedWhenFull
  <2>3. CASE i \in 1 .. n
    <3>1. i \notin Experts!Kept /\ i \in DOMAIN s3
      BY <1>3, <1>16, <2>3
    <3>2. /\ s1[s3[i].want] = par.cap /\ par.cap < TOKENS
          /\ par.policy = "reroute" =>
               \A e \in 1 .. EXPERTS :
                 e \in Experts!sel(s3[i].tok) \cup s2[s3[i].tok] \/ s1[e] = par.cap
      BY <3>1, Zenon DEF ExpertsInv, Experts!DroppedWhenFull
    <3>3. s3'[i] = s3[i] /\ s3[i].want \in 1 .. EXPERTS /\ s3[i].tok \in 1 .. TOKENS
      BY <1>7, <2>3 DEF Claim
    <3>4. \A e \in 1 .. EXPERTS : s1[e] = par.cap => s1'[e] = par.cap
      BY <1>3, <2>2
    <3>5. s2[s3[i].tok] \subseteq s2'[s3[i].tok]
      BY <1>10, <3>3
    <3> QED BY <3>2, <3>3, <3>4, <3>5
  <2>4. CASE i = n + 1
    <3>1. s3'[i].want = want /\ s3'[i].tok = tok /\ at = 0
      BY <1>6, <1>7, <1>16, <2>4
    <3>2. s2[tok] \subseteq s2'[tok]
      BY <1>4, <1>10
    <3> QED BY <1>4, <1>20, <2>2, <3>1, <3>2
  <2> QED BY <1>8, <2>3, <2>4
<1> QED BY <1>11, <1>13, <1>15, <1>18, <1>19, <1>21 DEF ExpertsInv

----------------------------------------------------------------------------
(* The review backlog.                                                     *)

Claims == [a : Nat, n : Nat]
Cohorts == [a : Nat, n : Nat \ {0}]

Ns(q)  == [i \in DOMAIN q |-> q[i].n]
SumOf(q) == Total(Ns(q))

\* No claims wait in no queue.
LEMMA SumEmpty == SumOf(<< >>) = 0
<1>1. Ns(<< >>) = << >>
  BY DEF Ns
<1>2. << >> \in Seq(Int) /\ Len(<< >>) = 0
  BY EmptySeq
<1> QED BY <1>1, <1>2, TotalEmpty DEF SumOf

\* The claims of a queue one cohort longer.
LEMMA SumAppend ==
  ASSUME NEW q \in Seq(Claims), NEW c \in Claims
  PROVE  SumOf(q) \in Nat /\ SumOf(Append(q, c)) = SumOf(q) + c.n
<1>1. ASSUME NEW r \in Seq(Claims) PROVE Ns(r) \in Seq(Nat) /\ Len(Ns(r)) = Len(r)
  <2>1. ASSUME NEW i \in 1 .. Len(r) PROVE r[i].n \in Nat
    <3>1. r[i] \in Claims
      BY ElementOfSeq
    <3> QED BY <3>1 DEF Claims
  <2> QED BY <2>1, SMTT(30) DEF Ns
<1>2. c.n \in Nat
  BY DEF Claims
<1>3. Ns(Append(q, c)) = Append(Ns(q), c.n)
  BY <1>1 DEF Ns
<1>4. Ns(q) \in Seq(Int) /\ c.n \in Int
  BY <1>1, <1>2
<1> QED BY <1>1, <1>3, <1>4, TotalAppend, TotalNat DEF SumOf

\* No claims wait exactly when there is no cohort.
LEMMA SumFront ==
  ASSUME NEW q \in Seq(Cohorts)
  PROVE  /\ SumOf(q) \in Nat /\ q \in Seq(Claims)
         /\ SumOf(q) = 0 <=> q = << >>
<1> DEFINE P == {r \in Seq(Cohorts) : /\ SumOf(r) \in Nat /\ r \in Seq(Claims)
                                  /\ (SumOf(r) = 0 <=> r = << >>)}
<1>1. << >> \in P
  <2>1. << >> \in Seq(Cohorts) /\ << >> \in Seq(Claims) /\ SumOf(<< >>) = 0
    BY EmptySeq, SumEmpty
  <2> QED BY <2>1
<1>2. ASSUME NEW r \in Seq(Cohorts), NEW e \in Cohorts, r \in P PROVE Append(r, e) \in P
  <2>1. e \in Claims /\ e.n \in Nat /\ e.n > 0
    BY DEF Claims, Cohorts
  <2>2. r \in Seq(Claims) /\ SumOf(r) \in Nat
    BY <1>2
  <2>3. Append(r, e) \in Seq(Cohorts) /\ Append(r, e) # << >>
    BY <1>2, AppendProperties
  <2>4. Append(r, e) \in Seq(Claims)
    BY <2>1, <2>2, AppendProperties
  <2>5. SumOf(Append(r, e)) = SumOf(r) + e.n
    BY <2>1, <2>2, SumAppend, Zenon
  <2>6. SumOf(Append(r, e)) \in Nat /\ SumOf(Append(r, e)) # 0
    BY <2>1, <2>2, <2>5
  <2> QED BY <2>3, <2>4, <2>6
<1> HIDE DEF P
<1>3. q \in P
  BY <1>1, <1>2, SeqInd
<1> QED BY <1>3 DEF P

\* What is left of n claims when K are decided, those before them first.
After(n, before, K) == n - Min({n, IF K > before THEN K - before ELSE 0})

\* What is left of a cohort behind others when K are decided.
LEMMA AfterIs ==
  ASSUME NEW n \in Nat, NEW b \in Nat, NEW K \in Nat
  PROVE  /\ After(n, b, K) \in Nat
         /\ After(n, b, K) = IF K <= b THEN n ELSE IF K - b <= n THEN n - (K - b) ELSE 0
<1> DEFINE d == IF K > b THEN K - b ELSE 0
           S == {n, d}
<1>1. d \in Nat
  OBVIOUS
<1>2. Min(S) \in S /\ \A m \in S : Min(S) <= m
  <2>1. S \in SUBSET Nat /\ S # {}
    BY <1>1
  <2> HIDE DEF S
  <2> QED BY <2>1, MinOf
<1>3. After(n, b, K) = n - Min(S)
  BY DEF After
<1> DEFINE m == Min(S)
<1>4. m = n \/ m = d
  BY <1>2
<1>5. m <= n /\ m <= d
  BY <1>2
<1> HIDE DEF m
<1> QED BY <1>1, <1>3, <1>4, <1>5 DEF m

LeftOf(q, K) == [i \in DOMAIN q |-> [q[i] EXCEPT !.n = After(q[i].n, SumOf(SubSeq(q, 1, i - 1)), K)]]

\* The beginnings of a list one longer.
LEMMA SubSeqAppend ==
  ASSUME NEW S, NEW q \in Seq(S), NEW c \in S
  PROVE  /\ \A i \in 0 .. Len(q) : SubSeq(Append(q, c), 1, i) = SubSeq(q, 1, i)
         /\ SubSeq(q, 1, Len(q)) = q
         /\ SubSeq(Append(q, c), 1, Len(q) + 1) = Append(q, c)
  OBVIOUS

\* What is left of a queue one cohort longer.
LEMMA LeftAppend ==
  ASSUME NEW q \in Seq(Claims), NEW c \in Claims, NEW K \in Nat
  PROVE  /\ LeftOf(q, K) \in Seq(Claims)
         /\ LeftOf(Append(q, c), K) = Append(LeftOf(q, K), [c EXCEPT !.n = After(c.n, SumOf(q), K)])
<1>1. ASSUME NEW r \in Seq(Claims), NEW i \in 1 .. Len(r)
      PROVE  [r[i] EXCEPT !.n = After(r[i].n, SumOf(SubSeq(r, 1, i - 1)), K)] \in Claims
  <2>1. r[i] \in Claims
    BY ElementOfSeq
  <2>2. SubSeq(r, 1, i - 1) \in Seq(Claims)
    OBVIOUS
  <2>3. SumOf(SubSeq(r, 1, i - 1)) \in Nat
    BY <2>1, <2>2, SumAppend
  <2>4. r[i].n \in Nat
    BY <2>1 DEF Claims
  <2>5. After(r[i].n, SumOf(SubSeq(r, 1, i - 1)), K) \in Nat
    BY <2>3, <2>4, AfterIs
  <2> DEFINE v == After(r[i].n, SumOf(SubSeq(r, 1, i - 1)), K)
  <2> HIDE DEF v
  <2>6. [r[i] EXCEPT !.n = v] \in Claims
    BY <2>1, <2>5 DEF Claims, v
  <2> QED BY <2>6 DEF v
<1>2. LeftOf(q, K) \in Seq(Claims) /\ Len(LeftOf(q, K)) = Len(q)
  <2>1. DOMAIN q = 1 .. Len(q) /\ Len(q) \in Nat
    OBVIOUS
  <2>2. LeftOf(q, K) \in [1 .. Len(q) -> Claims]
    BY <1>1, <2>1, Zenon DEF LeftOf
  <2> HIDE DEF LeftOf
  <2> QED BY <2>1, <2>2
<1> DEFINE s == Append(q, c)
           e == [c EXCEPT !.n = After(c.n, SumOf(q), K)]
<1>3. s \in Seq(Claims) /\ Len(s) = Len(q) + 1 /\ Len(q) \in Nat
  BY AppendProperties
<1>4. LeftOf(s, K) \in [1 .. Len(q) + 1 -> Claims]
  <2>1. DOMAIN s = 1 .. Len(q) + 1
    BY <1>3
  <2> HIDE DEF s
  <2>2. LeftOf(s, K) \in [DOMAIN s -> Claims]
    BY <1>1, <1>3, <2>1, Zenon DEF LeftOf
  <2> QED BY <2>1, <2>2
<1>5. ASSUME NEW i \in 1 .. Len(q) PROVE LeftOf(s, K)[i] = LeftOf(q, K)[i]
  <2>1. i - 1 \in 0 .. Len(q) /\ i \in DOMAIN s /\ i \in DOMAIN q /\ s[i] = q[i]
    BY <1>3
  <2>2. SubSeq(s, 1, i - 1) = SubSeq(q, 1, i - 1)
    BY <2>1, SubSeqAppend
  <2> HIDE DEF s
  <2> QED BY <2>1, <2>2, Zenon DEF LeftOf
<1>6. LeftOf(s, K)[Len(q) + 1] = e
  <2>1. Len(q) + 1 \in DOMAIN s /\ s[Len(q) + 1] = c /\ (Len(q) + 1) - 1 = Len(q)
    BY <1>3
  <2>2. SubSeq(s, 1, Len(q)) = q
    BY <1>3, SubSeqAppend
  <2> HIDE DEF s
  <2>3. LeftOf(s, K)[Len(q) + 1] = [s[Len(q) + 1] EXCEPT !.n = After(s[Len(q) + 1].n, SumOf(SubSeq(s, 1, (Len(q) + 1) - 1)), K)]
    BY <2>1, Zenon DEF LeftOf
  <2> QED BY <2>1, <2>2, <2>3
<1>7. LeftOf(s, K) = Append(LeftOf(q, K), e)
  <2> DEFINE x == LeftOf(q, K)
             y == LeftOf(s, K)
  <2>1. x \in Seq(Claims) /\ Len(x) = Len(q)
    BY <1>2
  <2>2. y \in [1 .. Len(q) + 1 -> Claims] /\ \A i \in 1 .. Len(q) : y[i] = x[i]
    BY <1>4, <1>5
  <2>3. y[Len(q) + 1] = e
    BY <1>6
  <2> HIDE DEF x, y, e, s
  <2>4. y = Append(x, e)
    BY <1>3, <2>1, <2>2, <2>3
  <2> QED BY <2>4 DEF x, y
<1> QED BY <1>2, <1>7

\* The claims of the first k intervals.
Upto(M, k) == Total(SubSeq(M, 1, k))

\* Partial sums of what arrived.
LEMMA UptoIs ==
  ASSUME NEW M \in Seq(Nat)
  PROVE  /\ \A k \in 0 .. Len(M) : Upto(M, k) \in Nat
         /\ Upto(M, 0) = 0 /\ Upto(M, Len(M)) = Total(M)
         /\ \A k \in 0 .. Len(M) - 1 : Upto(M, k + 1) = Upto(M, k) + M[k + 1] /\ M[k + 1] \in Nat
         /\ \A G, k \in Nat : k <= Len(M) => Upto(Append(M, G), k) = Upto(M, k)
<1>1. ASSUME NEW k \in 0 .. Len(M) PROVE SubSeq(M, 1, k) \in Seq(Nat) /\ Upto(M, k) \in Nat
  <2>1. SubSeq(M, 1, k) \in Seq(Nat)
    OBVIOUS
  <2> QED BY <2>1, TotalNat DEF Upto
<1>2. Upto(M, 0) = 0
  <2>1. SubSeq(M, 1, 0) \in Seq(Int) /\ Len(SubSeq(M, 1, 0)) = 0
    OBVIOUS
  <2> QED BY <2>1, TotalEmpty DEF Upto
<1>3. Upto(M, Len(M)) = Total(M)
  <2>1. SubSeq(M, 1, Len(M)) = M
    OBVIOUS
  <2> QED BY <2>1 DEF Upto
<1>4. ASSUME NEW k \in 0 .. Len(M) - 1 PROVE Upto(M, k + 1) = Upto(M, k) + M[k + 1] /\ M[k + 1] \in Nat
  <2>1. /\ SubSeq(M, 1, k + 1) = Append(SubSeq(M, 1, k), M[k + 1])
        /\ SubSeq(M, 1, k) \in Seq(Int) /\ M[k + 1] \in Nat /\ M[k + 1] \in Int
    OBVIOUS
  <2>2. Total(Append(SubSeq(M, 1, k), M[k + 1])) = Total(SubSeq(M, 1, k)) + M[k + 1]
    BY <2>1, TotalAppend, Zenon
  <2> QED BY <2>1, <2>2, Zenon DEF Upto
<1>5. ASSUME NEW G \in Nat, NEW k \in Nat, k <= Len(M) PROVE Upto(Append(M, G), k) = Upto(M, k)
  <2>1. SubSeq(Append(M, G), 1, k) = SubSeq(M, 1, k)
    BY <1>5, SubSeqAppend
  <2> QED BY <2>1 DEF Upto
<1> QED BY <1>1, <1>2, <1>3, <1>4, <1>5

\* They rise.
LEMMA UptoRises ==
  ASSUME NEW M \in Seq(Nat), NEW j \in 0 .. Len(M), NEW k \in 0 .. Len(M), j <= k
  PROVE  Upto(M, j) <= Upto(M, k)
<1> DEFINE P == {d \in Nat : j + d <= Len(M) => Upto(M, j) <= Upto(M, j + d)}
<1>0. /\ \A i \in 0 .. Len(M) : Upto(M, i) \in Nat
      /\ \A i \in 0 .. Len(M) - 1 : Upto(M, i + 1) = Upto(M, i) + M[i + 1] /\ M[i + 1] \in Nat
  BY UptoIs
<1>1. 0 \in P
  BY <1>0
<1>2. ASSUME NEW d \in Nat, d \in P PROVE d + 1 \in P
  <2> SUFFICES ASSUME j + (d + 1) <= Len(M) PROVE Upto(M, j) <= Upto(M, j + (d + 1))
    OBVIOUS
  <2>1. j + d \in 0 .. Len(M) - 1 /\ j + (d + 1) = (j + d) + 1 /\ Upto(M, j) <= Upto(M, j + d)
    BY <1>2
  <2>2. /\ Upto(M, (j + d) + 1) = Upto(M, j + d) + M[(j + d) + 1] /\ M[(j + d) + 1] \in Nat
        /\ Upto(M, j) \in Nat /\ Upto(M, j + d) \in Nat
    BY <1>0, <2>1
  <2> QED BY <2>1, <2>2
<1> HIDE DEF P
<1>3. k - j \in P
  <2>1. \A d \in Nat : d \in P
    BY <1>1, <1>2, NatInd, Zenon
  <2> QED BY <2>1
<1>4. j + (k - j) = k
  OBVIOUS
<1> QED BY <1>3, <1>4 DEF P

\* The cohorts of q are of intervals before b, in their order, and X claims are
\* before them: behind the first cohort each is all that arrived.
Placed(q, X, M, i) ==
  /\ X + SumOf(SubSeq(q, 1, i)) = Upto(M, q[i].a + 1)
  /\ q[i].n <= M[q[i].a + 1]
  /\ i > 1 => q[i].n = M[q[i].a + 1]

InTurn(q, X, M, b) ==
  \A i \in DOMAIN q : /\ q[i].a < b
                      /\ \A j \in 1 .. i - 1 : q[j].a < q[i].a
                      /\ Placed(q, X, M, i)

\* A queue one cohort longer is in order if what is before it is.
LEMMA InTurnAppend ==
  ASSUME NEW q \in Seq(Cohorts), NEW c \in Cohorts, NEW X, NEW M, NEW b
  PROVE  InTurn(Append(q, c), X, M, b) <=>
           /\ InTurn(q, X, M, c.a) /\ InTurn(q, X, M, b) /\ c.a < b
           /\ X + (SumOf(q) + c.n) = Upto(M, c.a + 1)
           /\ c.n <= M[c.a + 1]
           /\ q # << >> => c.n = M[c.a + 1]
<1> DEFINE s == Append(q, c)
           n == Len(q)
<1>1. /\ s \in Seq(Cohorts) /\ n \in Nat /\ DOMAIN q = 1 .. n /\ DOMAIN s = 1 .. n + 1
      /\ s[n + 1] = c /\ \A i \in 1 .. n : s[i] = q[i]
  BY AppendProperties
<1>2. /\ \A i \in 1 .. n : SubSeq(s, 1, i) = SubSeq(q, 1, i)
      /\ SubSeq(s, 1, n + 1) = s
  BY SubSeqAppend
<1>3. SumOf(s) = SumOf(q) + c.n
  <2>1. q \in Seq(Claims) /\ c \in Claims
    BY SumFront DEF Claims, Cohorts
  <2> QED BY <2>1, SumAppend
<1>4. q # << >> <=> n + 1 > 1
  BY <1>1, EmptySeq
<1> HIDE DEF s, n
<1>5. ASSUME NEW i \in 1 .. n PROVE Placed(s, X, M, i) <=> Placed(q, X, M, i)
  BY <1>1, <1>2 DEF Placed
<1>6. Placed(s, X, M, n + 1) <=> /\ X + (SumOf(q) + c.n) = Upto(M, c.a + 1)
                                 /\ c.n <= M[c.a + 1]
                                 /\ q # << >> => c.n = M[c.a + 1]
  BY <1>1, <1>2, <1>3, <1>4 DEF Placed
<1>7. InTurn(s, X, M, b) <=>
        /\ \A i \in 1 .. n : /\ q[i].a < b
                             /\ \A j \in 1 .. i - 1 : q[j].a < q[i].a
                             /\ Placed(q, X, M, i)
        /\ c.a < b
        /\ \A j \in 1 .. n : q[j].a < c.a
        /\ Placed(s, X, M, n + 1)
  <2>1. \A i \in 1 .. n : \A j \in 1 .. i - 1 : j \in 1 .. n
    BY <1>1
  <2>2. 1 .. n + 1 = (1 .. n) \cup {n + 1} /\ (n + 1) - 1 = n
    BY <1>1
  <2> QED BY <1>1, <1>5, <2>1, <2>2, Zenon DEF InTurn
<1>8. InTurn(q, X, M, b) <=>
        \A i \in 1 .. n : /\ q[i].a < b
                          /\ \A j \in 1 .. i - 1 : q[j].a < q[i].a
                          /\ Placed(q, X, M, i)
  BY <1>1, Zenon DEF InTurn
<1>9. InTurn(q, X, M, c.a) <=>
        \A i \in 1 .. n : /\ q[i].a < c.a
                          /\ \A j \in 1 .. i - 1 : q[j].a < q[i].a
                          /\ Placed(q, X, M, i)
  BY <1>1, Zenon DEF InTurn
<1> QED BY <1>6, <1>7, <1>8, <1>9, Zenon DEF s

\* The empty queue is in order.
LEMMA InTurnEmpty == ASSUME NEW X, NEW M, NEW b PROVE InTurn(<< >>, X, M, b)
BY DEF InTurn

\* What is pending after K claims are decided.
Less(n, K) == IF n <= K THEN 0 ELSE n - K

Leaves(m, n, K) == IF K <= n THEN m ELSE IF K - n <= m THEN m - (K - n) ELSE 0

\* What the decisions left over by the earlier cohorts do to the next.
LEMMA LessStep ==
  ASSUME NEW n \in Nat, NEW m \in Nat, m > 0, NEW K \in Nat,
         NEW k \in Nat, k = Leaves(m, n, K)
  PROVE  /\ Less(n, K) \in Nat /\ Less(n, K) <= n
         /\ Less(n, K) + k = Less(n + m, K)
         /\ k <= m
         /\ Less(n, K) # 0 => k = m /\ n # 0
         /\ k = 0 => Less(n, K) = 0
<1> USE DEF Leaves
<1>1. Less(n, K) \in Nat /\ Less(n, K) <= n
  BY DEF Less
<1>2. Less(n, K) + k = Less(n + m, K)
  <2>1. CASE K <= n
    BY <2>1 DEF Less
  <2>2. CASE n < K
    BY <2>2 DEF Less
  <2> QED BY <2>1, <2>2
<1>3. k <= m /\ (Less(n, K) # 0 => k = m /\ n # 0) /\ (k = 0 => Less(n, K) = 0)
  BY DEF Less
<1> QED BY <1>1, <1>2, <1>3

\* Decisions take the oldest claims, as many as there are or as can be decided.
LEMMA DecidedSum ==
  ASSUME NEW q \in Seq(Cohorts), NEW K \in Nat, NEW M \in Seq(Nat)
  PROVE  /\ Kept(LeftOf(q, K), Cohorts) \in Seq(Cohorts)
         /\ SumOf(Kept(LeftOf(q, K), Cohorts)) = Less(SumOf(q), K)
         /\ \A X \in Int, b \in 0 .. Len(M) : InTurn(q, X, M, b) =>
              InTurn(Kept(LeftOf(q, K), Cohorts), X + (SumOf(q) - Less(SumOf(q), K)), M, b)
<1> DEFINE D(r) == Kept(LeftOf(r, K), Cohorts)
           Done(r) == /\ D(r) \in Seq(Cohorts)
                      /\ SumOf(D(r)) = Less(SumOf(r), K)
                      /\ \A X \in Int, b \in 0 .. Len(M) : InTurn(r, X, M, b) =>
                           InTurn(D(r), X + (SumOf(r) - Less(SumOf(r), K)), M, b)
           P == {r \in Seq(Cohorts) : Done(r)}
<1>1. << >> \in P
  <2>1. LeftOf(<< >>, K) = << >>
    BY DEF LeftOf
  <2>2. D(<< >>) = << >> /\ << >> \in Seq(Cohorts) /\ SumOf(<< >>) = 0
    BY <2>1, KeptEmpty, EmptySeq, SumEmpty
  <2>3. Less(SumOf(<< >>), K) = 0
    BY <2>2 DEF Less
  <2> HIDE DEF D
  <2> QED BY <2>2, <2>3, InTurnEmpty
<1>2. ASSUME NEW r \in Seq(Cohorts), NEW c \in Cohorts, r \in P PROVE Append(r, c) \in P
  <2> DEFINE n == SumOf(r)
             k == After(c.n, n, K)
             e == [c EXCEPT !.n = k]
             s == Append(r, c)
  <2>1. /\ r \in Seq(Claims) /\ c \in Claims /\ n \in Nat /\ c.n \in Nat /\ c.n > 0 /\ c.a \in Nat
        /\ s \in Seq(Cohorts) /\ (n = 0 <=> r = << >>)
    BY SumFront, AppendProperties DEF Claims, Cohorts
  <2>2. SumOf(s) = n + c.n
    BY <2>1, SumAppend, Zenon
  <2>3. k \in Nat /\ k = IF K <= n THEN c.n ELSE IF K - n <= c.n THEN c.n - (K - n) ELSE 0
    BY <2>1, AfterIs
  <2>4. LeftOf(r, K) \in Seq(Claims) /\ LeftOf(s, K) = Append(LeftOf(r, K), e)
    BY <2>1, LeftAppend, Zenon
  <2>5. e \in Claims /\ (e \in Cohorts <=> k # 0) /\ e.n = k /\ e.a = c.a
    <3> HIDE DEF k
    <3> QED BY <2>1, <2>3 DEF Claims, Cohorts
  <2>6. D(s) = IF e \in Cohorts THEN Append(D(r), e) ELSE D(r)
    <3>1. Kept(Append(LeftOf(r, K), e), Cohorts)
            = IF e \in Cohorts THEN Append(Kept(LeftOf(r, K), Cohorts), e) ELSE Kept(LeftOf(r, K), Cohorts)
      <4> HIDE DEF e
      <4> QED BY <2>4, <2>5, KeptAppend
    <3> HIDE DEF e, s
    <3> QED BY <2>4, <3>1, Zenon
  <2>7. Done(r)
    BY <1>2
  <2> HIDE DEF D
  <2>8. /\ D(r) \in Seq(Cohorts) /\ SumOf(D(r)) = Less(n, K)
        /\ (Less(n, K) = 0 <=> D(r) = << >>)
    BY <2>7, SumFront
  <2>9. D(s) \in Seq(Cohorts) /\ SumOf(D(s)) = Less(n, K) + k
    <3>1. CASE k = 0
      <4>1. D(s) = D(r)
        BY <2>5, <2>6, <3>1
      <4>2. Less(n, K) + k = Less(n, K)
        BY <2>1, <3>1 DEF Less
      <4> QED BY <2>8, <4>1, <4>2
    <3>2. CASE k # 0
      <4>1. D(s) = Append(D(r), e) /\ e \in Cohorts
        BY <2>5, <2>6, <3>2
      <4>2. Append(D(r), e) \in Seq(Cohorts)
        BY <2>8, <4>1, AppendProperties
      <4>3. SumOf(Append(D(r), e)) = SumOf(D(r)) + e.n
        <5>1. D(r) \in Seq(Claims)
          BY <2>8, SumFront
        <5> QED BY <2>5, <5>1, SumAppend, Zenon
      <4> QED BY <2>5, <2>8, <4>1, <4>2, <4>3
    <3> QED BY <3>1, <3>2
  <2>10. Less(n, K) + k = Less(n + c.n, K)
    <3> DEFINE m == c.n
    <3>1. n \in Nat /\ m \in Nat /\ m > 0 /\ k \in Nat
      BY <2>1, <2>3
    <3>2. k = Leaves(m, n, K)
      BY <2>3 DEF Leaves
    <3> HIDE DEF n, k, m
    <3>3. Less(n, K) + k = Less(n + m, K)
      BY <3>1, <3>2, LessStep
    <3> QED BY <3>3 DEF m
  <2>11. ASSUME NEW X \in Int, NEW b \in 0 .. Len(M), InTurn(s, X, M, b)
         PROVE  InTurn(D(s), X + (SumOf(s) - Less(SumOf(s), K)), M, b)
    <3> DEFINE Y == X + (SumOf(s) - Less(SumOf(s), K))
    <3>1. CASE k = 0
      <4>1. D(s) = << >>
        <5>1. D(s) = D(r) /\ Less(n, K) = 0
          <6> HIDE DEF n, k, e, s
          <6> QED BY <2>1, <2>3, <2>5, <2>6, <3>1 DEF Less
        <5> QED BY <2>8, <5>1
      <4> QED BY <4>1, InTurnEmpty
    <3>2. CASE k # 0
      <4>1. D(s) = Append(D(r), e) /\ e \in Cohorts
        BY <2>5, <2>6, <3>2
      <4>2. /\ InTurn(r, X, M, c.a) /\ c.a < b
            /\ X + (n + c.n) = Upto(M, c.a + 1)
            /\ c.n <= M[c.a + 1]
            /\ r # << >> => c.n = M[c.a + 1]
        <5>1. InTurn(s, X, M, b)
          BY <2>11
        <5> QED BY <5>1, InTurnAppend
      <4>2a. InTurn(r, X, M, b)
        BY <2>11, InTurnAppend, Zenon
      <4>3. Y = X + (n - Less(n, K)) \/ D(r) = << >>
        <5>1. CASE K <= n
          <6>1. Less(n + c.n, K) = (n + c.n) - K /\ Less(n, K) = n - K
            <7> HIDE DEF n
            <7> QED BY <2>1, <5>1 DEF Less
          <6> HIDE DEF n
          <6> QED BY <2>1, <2>2, <5>1, <6>1
        <5>2. CASE ~ (K <= n)
          <6>1. Less(n, K) = 0
            <7> HIDE DEF n
            <7> QED BY <2>1, <5>2 DEF Less
          <6> QED BY <2>8, <6>1
        <5> QED BY <5>1, <5>2
      <4>4. InTurn(D(r), Y, M, c.a) /\ InTurn(D(r), Y, M, b)
        <5>1. CASE D(r) = << >>
          BY <5>1, InTurnEmpty
        <5>2. CASE Y = X + (n - Less(n, K))
          <6>1. c.a \in 0 .. Len(M)
            BY <2>1, <4>2, SMTT(30)
          <6> QED BY <2>7, <4>2, <4>2a, <5>2, <6>1, Zenon
        <5> QED BY <4>3, <5>1, <5>2
      <4>5. Y + (SumOf(D(r)) + e.n) = Upto(M, e.a + 1)
        <5>1. Y = X + ((n + c.n) - (Less(n, K) + k))
          BY <2>2, <2>10
        <5>2. Less(n, K) \in Nat
          BY <2>1 DEF Less
        <5>3. SumOf(D(r)) + e.n = Less(n, K) + k
          BY <2>5, <2>8
        <5>4. Upto(M, e.a + 1) = Upto(M, c.a + 1)
          BY <2>5
        <5>5. Upto(M, c.a + 1) \in Int
          <6>1. c.a + 1 \in 0 .. Len(M)
            <7>1. b <= Len(M) /\ b \in Nat /\ c.a < b /\ c.a \in Nat /\ Len(M) \in Nat
              BY <2>1, <4>2, SMTT(30)
            <7> QED BY <7>1
          <6> QED BY <6>1, UptoIs
        <5>6. \A z \in Int : X + (n + c.n) = z =>
                (X + ((n + c.n) - (Less(n, K) + k))) + (Less(n, K) + k) = z
          <6> DEFINE m == c.n
                     l == Less(n, K)
          <6>1. n \in Nat /\ m \in Nat /\ k \in Nat /\ l \in Nat
            BY <2>1, <2>3, <5>2
          <6> HIDE DEF n, k, m, l
          <6>2. \A z \in Int : X + (n + m) = z => (X + ((n + m) - (l + k))) + (l + k) = z
            BY <6>1
          <6> QED BY <6>2 DEF m, l
        <5> HIDE DEF n, k, e, Y, s
        <5> QED BY <4>2, <5>1, <5>3, <5>4, <5>5, <5>6, Zenon
      <4>6. D(r) # << >> => k = c.n /\ r # << >>
        <5>1. D(r) # << >> => K <= n /\ n # 0
          <6> HIDE DEF n, k, e, s
          <6> QED BY <2>1, <2>8 DEF Less
        <5> HIDE DEF n, k, e, s
        <5> QED BY <2>1, <2>3, <5>1
      <4>7. e.n <= M[e.a + 1] /\ (D(r) # << >> => e.n = M[e.a + 1])
        <5>1. k <= M[c.a + 1]
          <6>1. M[c.a + 1] \in Nat
            <7>1. b <= Len(M) /\ b \in Nat /\ c.a < b /\ c.a \in Nat /\ Len(M) \in Nat
              BY <2>1, <4>2
            <7>2. c.a + 1 \in 1 .. Len(M)
              BY <7>1
            <7> QED BY <7>2
          <6>2. k <= c.n
            <7> HIDE DEF n, k, e, s
            <7> QED BY <2>1, <2>3
          <6>3. k \in Nat /\ c.n \in Nat /\ c.n <= M[c.a + 1]
            BY <2>1, <2>3, <4>2
          <6> HIDE DEF n, k, e, s
          <6> QED BY <6>1, <6>2, <6>3
        <5> QED BY <2>5, <4>2, <4>6, <5>1
      <4>8. e.a < b /\ InTurn(D(r), Y, M, e.a)
        BY <2>5, <4>2, <4>4
      <4> HIDE DEF Y, e
      <4>9. InTurn(Append(D(r), e), Y, M, b)
        BY <2>8, <4>1, <4>4, <4>5, <4>7, <4>8, InTurnAppend, Zenon
      <4> QED BY <4>1, <4>9 DEF Y
    <3> QED BY <3>1, <3>2
  <2>12. Done(s)
    BY <2>2, <2>9, <2>10, <2>11
  <2> QED BY <2>1, <2>12
<1> HIDE DEF P
<1>3. q \in P
  <2>1. \A r \in Seq(Cohorts) : r \in P
    BY <1>1, <1>2, SeqInd, Zenon
  <2> QED BY <2>1
<1> QED BY <1>3, Zenon DEF P

\* Letting the oldest cohorts pass keeps the order.
LEMMA PassedOn ==
  ASSUME NEW q \in Seq(Cohorts), NEW M \in Seq(Nat), NEW T,
         \A c, d \in Cohorts : c.a <= d.a /\ c \in T => d \in T
  PROVE  /\ Kept(q, T) \in Seq(Cohorts) /\ SumOf(Kept(q, T)) <= SumOf(q)
         /\ \A X \in Int, b \in 0 .. Len(M) : InTurn(q, X, M, b) =>
              InTurn(Kept(q, T), X + (SumOf(q) - SumOf(Kept(q, T))), M, b)
<1> DEFINE D(r) == Kept(r, T)
           Done(r) == /\ D(r) \in Seq(Cohorts) /\ SumOf(D(r)) <= SumOf(r)
                      /\ \A X \in Int, b \in 0 .. Len(M) : InTurn(r, X, M, b) =>
                           InTurn(D(r), X + (SumOf(r) - SumOf(D(r))), M, b)
           P == {r \in Seq(Cohorts) : Done(r)}
<1>1. << >> \in P
  <2>1. D(<< >>) = << >> /\ << >> \in Seq(Cohorts) /\ SumOf(<< >>) = 0
    BY KeptEmpty, EmptySeq, SumEmpty
  <2>2. \A X, b : InTurn(<< >>, X, M, b)
    BY InTurnEmpty
  <2> HIDE DEF D
  <2>3. SumOf(D(<< >>)) <= SumOf(<< >>)
    BY <2>1
  <2>4. Done(<< >>)
    BY <2>1, <2>2, <2>3
  <2> QED BY <2>1, <2>4
<1>2. ASSUME NEW r \in Seq(Cohorts), NEW c \in Cohorts, r \in P PROVE Append(r, c) \in P
  <2> DEFINE s == Append(r, c)
  <2>1. Done(r)
    BY <1>2
  <2>2. D(s) = IF c \in T THEN Append(D(r), c) ELSE D(r)
    BY KeptAppend
  <2>3. ToSet(D(r)) = ToSet(r) \cap T
    BY KeptSet, Zenon
  <2> HIDE DEF D
  <2>4. /\ s \in Seq(Cohorts) /\ c.n \in Nat /\ c.n > 0 /\ c.a \in Nat /\ c \in Claims
        /\ SumOf(r) \in Nat /\ r \in Seq(Claims) /\ D(r) \in Seq(Claims) /\ SumOf(D(r)) \in Nat
    BY <2>1, SumFront, AppendProperties DEF Claims, Cohorts
  <2>5. SumOf(s) = SumOf(r) + c.n /\ SumOf(Append(D(r), c)) = SumOf(D(r)) + c.n
    BY <2>4, SumAppend, Zenon
  <2>6. CASE c \in T
    <3>1. D(s) = Append(D(r), c)
      BY <2>2, <2>6
    <3>2. D(s) \in Seq(Cohorts)
      BY <2>1, <3>1, AppendProperties
    <3>3. SumOf(D(s)) <= SumOf(s) /\ SumOf(s) - SumOf(D(s)) = SumOf(r) - SumOf(D(r))
      <4> HIDE DEF s
      <4> QED BY <2>1, <2>4, <2>5, <3>1
    <3>4. ASSUME NEW X \in Int, NEW b \in 0 .. Len(M), InTurn(s, X, M, b)
          PROVE  InTurn(D(s), X + (SumOf(s) - SumOf(D(s))), M, b)
      <4> DEFINE Y == X + (SumOf(r) - SumOf(D(r)))
      <4>1. /\ InTurn(r, X, M, c.a) /\ InTurn(r, X, M, b) /\ c.a < b
            /\ X + (SumOf(r) + c.n) = Upto(M, c.a + 1)
            /\ c.n <= M[c.a + 1]
            /\ r # << >> => c.n = M[c.a + 1]
        BY <3>4, InTurnAppend
      <4>2. c.a \in 0 .. Len(M)
        <5>1. b <= Len(M) /\ b \in Nat /\ c.a < b /\ c.a \in Nat /\ Len(M) \in Nat
          BY <2>4, <4>1, SMTT(30)
        <5> QED BY <5>1
      <4>3. InTurn(D(r), Y, M, c.a) /\ InTurn(D(r), Y, M, b)
        BY <2>1, <4>1, <4>2, Zenon
      <4>4. Y + (SumOf(D(r)) + c.n) = X + (SumOf(r) + c.n)
        BY <2>4
      <4>5. D(r) # << >> => r # << >>
        <5>1. SumOf(r) = 0 <=> r = << >>
          BY SumFront
        <5>2. SumOf(D(r)) = 0 <=> D(r) = << >>
          BY <2>1, SumFront
        <5> QED BY <2>1, <2>4, <5>1, <5>2
      <4> HIDE DEF Y, s
      <4>6. D(r) \in Seq(Cohorts)
        BY <2>1
      <4>7. InTurn(Append(D(r), c), Y, M, b)
        BY <4>1, <4>3, <4>4, <4>5, <4>6, InTurnAppend, Zenon
      <4> QED BY <3>1, <3>3, <4>7 DEF Y
    <3>5. Done(s)
      BY <3>2, <3>3, <3>4
    <3> QED BY <2>4, <3>5
  <2>7. CASE c \notin T
    <3>1. D(s) = D(r)
      BY <2>2, <2>7
    <3>2. SumOf(D(s)) <= SumOf(s)
      <4> HIDE DEF s
      <4> QED BY <2>1, <2>4, <2>5, <3>1
    <3>3. ASSUME NEW X \in Int, NEW b \in 0 .. Len(M), InTurn(s, X, M, b)
          PROVE  InTurn(D(s), X + (SumOf(s) - SumOf(D(s))), M, b)
      <4>1. InTurn(r, X, M, c.a)
        BY <3>3, InTurnAppend
      <4>2. D(r) = << >>
        <5> SUFFICES ASSUME D(r) # << >> PROVE FALSE
          OBVIOUS
        <5>1. 1 \in 1 .. Len(D(r)) /\ D(r) \in Seq(Cohorts)
          BY <2>1, EmptySeq
        <5>2. D(r)[1] \in ToSet(D(r))
          BY <5>1, SetOf
        <5>3. PICK i \in 1 .. Len(r) : r[i] = D(r)[1]
          <6>1. ToSet(r) = {r[i] : i \in 1 .. Len(r)}
            BY SetOf
          <6> QED BY <2>3, <5>2, <6>1
        <5>4. r[i] \in Cohorts /\ r[i] \in T /\ r[i].a < c.a
          <6>1. DOMAIN r = 1 .. Len(r)
            OBVIOUS
          <6>2. r[i].a < c.a
            BY <4>1, <5>3, <6>1 DEF InTurn
          <6> QED BY <2>3, <5>2, <5>3, <6>2, ElementOfSeq
        <5>5. r[i].a <= c.a
          <6>1. r[i].a \in Nat
            BY <5>4 DEF Cohorts
          <6> QED BY <2>4, <5>4, <6>1, SMTT(30)
        <5> QED BY <2>7, <5>4, <5>5
      <4> QED BY <3>1, <4>2, InTurnEmpty
    <3>4. Done(s)
      BY <2>1, <3>1, <3>2, <3>3
    <3> QED BY <2>4, <3>4
  <2> QED BY <2>6, <2>7
<1> HIDE DEF P
<1>3. q \in P
  <2>1. \A r \in Seq(Cohorts) : r \in P
    BY <1>1, <1>2, SeqInd, Zenon
  <2> QED BY <2>1
<1> QED BY <1>3, Zenon DEF P

\* The operators of the library are the same under the instance.
LEMMA BacklogLibrary ==
  /\ \A s : Backlog!Total(s) = Total(s)
  /\ \A s, T : Backlog!Kept(s, T) = Kept(s, T)
  /\ \A s : Backlog!ToSet(s) = ToSet(s)
  /\ \A S : Backlog!Min(S) = Min(S)
<1>1. \A s : Backlog!Total(s) = Total(s)
  BY Zenon DEF Backlog!Total, Total, Backlog!FoldLeft, FoldLeft, Backlog!MapThenFoldSet, MapThenFoldSet,
                Backlog!Max, Max
<1>2. \A s, T : Backlog!Kept(s, T) = Kept(s, T)
  BY Zenon DEF Backlog!Kept, Kept, Backlog!FlattenSeq, FlattenSeq
<1>3. \A s : Backlog!ToSet(s) = ToSet(s)
  BY DEF Backlog!ToSet, ToSet
<1>4. \A S : Backlog!Min(S) = Min(S)
  BY Zenon DEF Backlog!Min, Min
<1> QED BY <1>1, <1>2, <1>3, <1>4

\* What the operators of the backlog are.
LEMMA BacklogSteps ==
  ASSUME NEW q \in Seq(Cohorts)
  PROVE  /\ Backlog!Pending(q) = SumOf(q)
         /\ \A K \in Nat : Backlog!Decided(q, K) = Kept(LeftOf(q, K), Cohorts)
         /\ Backlog!Passed("tracked", q) = q
         /\ Backlog!Passed("untracked", q) = Kept(q, {c \in ToSet(q) : it - c.a + 1 < par.deadline})
<1>1. ASSUME NEW r PROVE Backlog!Pending(r) = SumOf(r)
  BY BacklogLibrary, Zenon DEF Backlog!Pending, SumOf, Ns
<1>2. ASSUME NEW K \in Nat PROVE Backlog!Decided(q, K) = Kept(LeftOf(q, K), Cohorts)
  <2> DEFINE l == LeftOf(q, K)
  <2>1. \A i : After(q[i].n, SumOf(SubSeq(q, 1, i - 1)), K)
                 = q[i].n - Backlog!Min({q[i].n, IF K > Backlog!Pending(SubSeq(q, 1, i - 1))
                                                 THEN K - Backlog!Pending(SubSeq(q, 1, i - 1)) ELSE 0})
    BY <1>1, BacklogLibrary, Zenon DEF After
  <2>2. Backlog!Decided(q, K) = Backlog!Some(l)
    BY <2>1, Zenon DEF Backlog!Decided, LeftOf
  <2>3. Backlog!Some(l) = Kept(l, {c \in ToSet(l) : c.n > 0})
    BY BacklogLibrary, Zenon DEF Backlog!Some
  <2>4. l \in Seq(Claims)
    <3>1. q \in Seq(Claims)
      BY SumFront
    <3>2. PICK c : c \in Claims
      <4>1. [a |-> 0, n |-> 0] \in Claims
        BY DEF Claims
      <4> QED BY <4>1
    <3> QED BY <3>1, <3>2, LeftAppend, Zenon
  <2> HIDE DEF l
  <2>5. \A c \in ToSet(l) : c \in {d \in ToSet(l) : d.n > 0} <=> c \in Cohorts
    <3>1. \A c \in ToSet(l) : c \in Claims
      BY <2>4, SetOf
    <3>2. \A c \in Claims : c.n > 0 <=> c \in Cohorts
      BY DEF Claims, Cohorts
    <3> QED BY <3>1, <3>2
  <2>6. Kept(l, {c \in ToSet(l) : c.n > 0}) = Kept(l, Cohorts)
    BY <2>4, <2>5, KeptSame
  <2> QED BY <2>2, <2>3, <2>6 DEF l
<1>3. Backlog!Passed("tracked", q) = q
  BY DEF Backlog!Passed
<1>4. Backlog!Passed("untracked", q) = Kept(q, {c \in ToSet(q) : it - c.a + 1 < par.deadline})
  BY BacklogLibrary, Zenon DEF Backlog!Passed
<1> QED BY <1>1, <1>2, <1>3, <1>4

\* Over a setting s: every claim that arrived is accounted for, and what is
\* pending is the newest, cohort by cohort.
BacklogHeld(s) ==
  /\ s1[s] \in Seq(Cohorts)
  /\ s2[s].decided \in Nat /\ s2[s].passed \in Nat
  /\ Total(s3) = s2[s].decided + s2[s].passed + SumOf(s1[s])
  /\ InTurn(s1[s], Total(s3) - SumOf(s1[s]), s3, it)

\* Letting claims pass decides no more of them and leaves fewer.
BacklogInv ==
  /\ par \in BacklogParams /\ it \in Nat
  /\ s3 \in Seq(Nat) /\ Len(s3) = it
  /\ \A s \in Backlog!Settings : BacklogHeld(s)
  /\ s2["tracked"].passed = 0
  /\ s2["untracked"].decided <= s2["tracked"].decided
  /\ SumOf(s1["untracked"]) <= SumOf(s1["tracked"])
  /\ \A i \in DOMAIN s1["untracked"] : it - s1["untracked"][i].a < par.deadline

\* BacklogInv holds first.
LEMMA BacklogStart ==
  ASSUME Backlog!Init PROVE BacklogInv
<1>1. /\ par \in BacklogParams /\ it = 0 /\ s3 = << >>
      /\ \A s \in Backlog!Settings : s1[s] = << >> /\ s2[s].decided = 0 /\ s2[s].passed = 0
      /\ "tracked" \in Backlog!Settings /\ "untracked" \in Backlog!Settings
  BY DEF Backlog!Init, Backlog!Settings
<1>2. << >> \in Seq(Cohorts) /\ << >> \in Seq(Nat) /\ << >> \in Seq(Int) /\ Len(<< >>) = 0
  BY EmptySeq
<1>3. Total(s3) = 0 /\ SumOf(<< >>) = 0
  BY <1>1, <1>2, TotalEmpty, SumEmpty
<1>4. \A X, M, b : InTurn(<< >>, X, M, b)
  BY InTurnEmpty
<1>5. \A s \in Backlog!Settings : BacklogHeld(s)
  <2> SUFFICES ASSUME NEW s \in Backlog!Settings PROVE BacklogHeld(s)
    OBVIOUS
  <2>1. s1[s] = << >> /\ s2[s].decided = 0 /\ s2[s].passed = 0
    BY <1>1
  <2>2. Total(s3) = s2[s].decided + s2[s].passed + SumOf(s1[s])
    BY <1>3, <2>1
  <2> QED BY <1>2, <1>4, <2>1, <2>2 DEF BacklogHeld
<1>6. DOMAIN s1["untracked"] = {}
  BY <1>1
<1> QED BY <1>1, <1>2, <1>3, <1>5, <1>6 DEF BacklogInv

\* A setting's queue when G claims arrive.
LEMMA BacklogArrival ==
  ASSUME NEW q \in Seq(Cohorts), NEW M \in Seq(Nat), NEW G \in Nat, Len(M) = it,
         InTurn(q, Total(M) - SumOf(q), M, it)
  PROVE  /\ Backlog!Arrived(q, G) \in Seq(Cohorts)
         /\ SumOf(Backlog!Arrived(q, G)) = SumOf(q) + G
         /\ Append(M, G) \in Seq(Nat) /\ Len(Append(M, G)) = it + 1
         /\ Total(Append(M, G)) = Total(M) + G /\ Total(M) \in Nat
         /\ InTurn(Backlog!Arrived(q, G), Total(M) - SumOf(q), Append(M, G), it + 1)
<1> DEFINE N == Append(M, G)
           X == Total(M) - SumOf(q)
           c == [a |-> it, n |-> G]
<1>1. N \in Seq(Nat) /\ Len(N) = it + 1 /\ it \in Nat /\ N[it + 1] = G
  OBVIOUS
<1>2. Total(N) = Total(M) + G /\ Total(M) \in Nat
  <2>1. M \in Seq(Int) /\ G \in Int
    OBVIOUS
  <2> QED BY <2>1, TotalAppend, TotalNat
<1>3. SumOf(q) \in Nat /\ q \in Seq(Claims)
  BY SumFront
<1>4. ASSUME NEW i \in 1 .. Len(q)
      PROVE  /\ q[i].a \in Nat /\ q[i].a + 1 <= Len(M)
             /\ Upto(N, q[i].a + 1) = Upto(M, q[i].a + 1) /\ N[q[i].a + 1] = M[q[i].a + 1]
  <2>1. q[i] \in Cohorts
    BY ElementOfSeq
  <2>2. q[i].a \in Nat /\ q[i].a < it
    BY <2>1 DEF InTurn, Cohorts
  <2>3. q[i].a + 1 \in Nat /\ q[i].a + 1 <= Len(M) /\ q[i].a + 1 \in 1 .. Len(M)
    BY <1>1, <2>2
  <2>4. Upto(N, q[i].a + 1) = Upto(M, q[i].a + 1)
    BY <2>3, UptoIs
  <2> QED BY <2>2, <2>3, <2>4
<1>5. DOMAIN q = 1 .. Len(q)
  OBVIOUS
<1> HIDE DEF N
<1>6. \A i \in 1 .. Len(q) : Placed(q, X, M, i) => Placed(q, X, N, i)
  BY <1>4 DEF Placed
<1>7. InTurn(q, X, N, it) /\ InTurn(q, X, N, it + 1)
  <2>1. InTurn(q, X, N, it)
    BY <1>5, <1>6, Zenon DEF InTurn
  <2>2. \A i \in 1 .. Len(q) : q[i].a < it + 1
    <3>1. \A i \in 1 .. Len(q) : q[i].a < it /\ q[i].a \in Nat
      BY <1>4, <1>5 DEF InTurn
    <3> QED BY <1>1, <3>1
  <2>3. InTurn(q, X, N, it + 1)
    BY <1>5, <2>1, <2>2, Zenon DEF InTurn
  <2> QED BY <2>1, <2>3
<1>8. CASE G = 0
  <2>1. Backlog!Arrived(q, G) = q
    BY <1>8 DEF Backlog!Arrived
  <2> QED BY <1>1, <1>2, <1>3, <1>7, <1>8, <2>1 DEF N
<1>9. CASE G # 0
  <2>1. Backlog!Arrived(q, G) = Append(q, c)
    BY <1>9 DEF Backlog!Arrived
  <2>2. c \in Cohorts /\ c \in Claims /\ c.n = G /\ c.a = it
    BY <1>1, <1>9 DEF Cohorts, Claims
  <2> HIDE DEF c
  <2>3. Append(q, c) \in Seq(Cohorts) /\ SumOf(Append(q, c)) = SumOf(q) + G
    BY <1>3, <2>2, SumAppend, AppendProperties
  <2>4. Upto(N, it + 1) = Total(N)
    BY <1>1, UptoIs
  <2>5. X + (SumOf(q) + c.n) = Upto(N, c.a + 1)
    BY <1>2, <1>3, <2>2, <2>4
  <2>6. c.n <= N[c.a + 1] /\ c.n = N[c.a + 1] /\ c.a < it + 1
    BY <1>1, <2>2
  <2> HIDE DEF X
  <2>7. InTurn(Append(q, c), X, N, it + 1)
    BY <1>7, <2>2, <2>5, <2>6, InTurnAppend
  <2> QED BY <1>1, <1>2, <2>1, <2>3, <2>7 DEF N, X
<1> QED BY <1>8, <1>9

\* Every interval keeps BacklogInv.
LEMMA BacklogStep ==
  ASSUME BacklogInv, Backlog!Next PROVE BacklogInv'
<1>1. PICK G \in Arrivals, K \in Capacities : Backlog!Interval(G, K)
  BY DEF Backlog!Next
<1> DEFINE D == par.deadline
           here(s) == Backlog!Arrived(s1[s], G)
           done(s) == Backlog!Decided(here(s), K)
           left(s) == Backlog!Passed(s, done(s))
           T == {c \in ToSet(done("untracked")) : it - c.a + 1 < D}
           M == Append(s3, G)
<1>2. /\ G \in Nat /\ K \in Nat
      /\ par \in BacklogParams /\ it \in Nat /\ s3 \in Seq(Nat) /\ Len(s3) = it
      /\ D \in Nat /\ D > 0
      /\ Backlog!Settings = {"tracked", "untracked"}
  BY <1>1, BacklogAssumption DEF BacklogInv, Backlog!Settings, Backlog!Param
<1>3. ASSUME NEW s \in Backlog!Settings
      PROVE  /\ s1'[s] = left(s)
             /\ s2'[s].decided = s2[s].decided + Backlog!Pending(here(s)) - Backlog!Pending(done(s))
             /\ s2'[s].passed = s2[s].passed + Backlog!Pending(done(s)) - Backlog!Pending(left(s))
  BY <1>1 DEF Backlog!Interval
<1>4. s3' = M /\ it' = it + 1 /\ par' = par
  BY <1>1 DEF Backlog!Interval
<1>5. ASSUME NEW s \in Backlog!Settings
      PROVE  /\ here(s) \in Seq(Cohorts) /\ SumOf(here(s)) = SumOf(s1[s]) + G
             /\ M \in Seq(Nat) /\ Len(M) = it + 1 /\ Total(M) = Total(s3) + G /\ Total(s3) \in Nat
             /\ InTurn(here(s), Total(s3) - SumOf(s1[s]), M, it + 1)
             /\ SumOf(s1[s]) \in Nat
             /\ s2[s].decided \in Nat /\ s2[s].passed \in Nat
             /\ Total(s3) = s2[s].decided + s2[s].passed + SumOf(s1[s])
  <2>1. BacklogHeld(s)
    BY DEF BacklogInv
  <2>2. s1[s] \in Seq(Cohorts) /\ SumOf(s1[s]) \in Nat
    BY <2>1, SumFront DEF BacklogHeld
  <2>3. InTurn(s1[s], Total(s3) - SumOf(s1[s]), s3, it)
    BY <2>1 DEF BacklogHeld
  <2>4. /\ here(s) \in Seq(Cohorts) /\ SumOf(here(s)) = SumOf(s1[s]) + G
        /\ M \in Seq(Nat) /\ Len(M) = it + 1 /\ Total(M) = Total(s3) + G /\ Total(s3) \in Nat
        /\ InTurn(here(s), Total(s3) - SumOf(s1[s]), M, it + 1)
    BY <1>2, <2>2, <2>3, BacklogArrival
  <2> QED BY <2>1, <2>2, <2>4 DEF BacklogHeld
<1> HIDE DEF here, M
<1>5a. M \in Seq(Nat) /\ Len(M) = it + 1 /\ Total(M) = Total(s3) + G /\ Total(s3) \in Nat
  <2>1. "tracked" \in Backlog!Settings
    BY <1>2
  <2> QED BY <1>5, <2>1
<1>6. ASSUME NEW s \in Backlog!Settings
      PROVE  /\ done(s) \in Seq(Cohorts) /\ SumOf(done(s)) = Less(SumOf(s1[s]) + G, K)
             /\ SumOf(done(s)) \in Nat /\ SumOf(done(s)) <= SumOf(s1[s]) + G
             /\ InTurn(done(s), Total(M) - SumOf(done(s)), M, it + 1)
             /\ Backlog!Pending(here(s)) = SumOf(s1[s]) + G
             /\ Backlog!Pending(done(s)) = SumOf(done(s))
  <2>1. /\ done(s) = Kept(LeftOf(here(s), K), Cohorts)
        /\ Backlog!Pending(here(s)) = SumOf(here(s))
    BY <1>2, <1>5, BacklogSteps
  <2>2. Total(s3) - SumOf(s1[s]) \in Int /\ it + 1 \in 0 .. Len(M)
    <3>1. SumOf(s1[s]) \in Nat
      BY <1>5
    <3> QED BY <1>2, <1>5a, <3>1
  <2>3. /\ done(s) \in Seq(Cohorts) /\ SumOf(done(s)) = Less(SumOf(here(s)), K)
        /\ InTurn(done(s), (Total(s3) - SumOf(s1[s])) + (SumOf(here(s)) - Less(SumOf(here(s)), K)), M, it + 1)
    <3>1. /\ here(s) \in Seq(Cohorts) /\ M \in Seq(Nat)
          /\ InTurn(here(s), Total(s3) - SumOf(s1[s]), M, it + 1)
      BY <1>5
    <3> QED BY <1>2, <2>1, <2>2, <3>1, DecidedSum, Zenon
  <2>4. SumOf(done(s)) \in Nat /\ Backlog!Pending(done(s)) = SumOf(done(s))
    BY <2>3, SumFront, BacklogSteps
  <2>5. (Total(s3) - SumOf(s1[s])) + (SumOf(here(s)) - SumOf(done(s))) = Total(M) - SumOf(done(s))
    <3>1. SumOf(s1[s]) \in Nat /\ SumOf(here(s)) = SumOf(s1[s]) + G
      BY <1>5
    <3> QED BY <1>2, <1>5a, <2>4, <3>1
  <2>6. Less(SumOf(s1[s]) + G, K) <= SumOf(s1[s]) + G
    <3>1. SumOf(s1[s]) \in Nat
      BY <1>5
    <3> QED BY <1>2, <3>1 DEF Less
  <2> QED BY <1>5, <2>1, <2>3, <2>4, <2>5, <2>6
<1> HIDE DEF done
<1>7. ASSUME NEW s \in Backlog!Settings
      PROVE  /\ left(s) \in Seq(Cohorts) /\ SumOf(left(s)) \in Nat /\ SumOf(left(s)) <= SumOf(done(s))
             /\ InTurn(left(s), Total(M) - SumOf(left(s)), M, it + 1)
             /\ Backlog!Pending(left(s)) = SumOf(left(s))
             /\ s = "tracked" => left(s) = done(s)
             /\ s = "untracked" => left(s) = Kept(done(s), T)
  <2>1. CASE s = "tracked"
    <3>1. left(s) = done(s)
      BY <1>6, <2>1, BacklogSteps
    <3>2. SumOf(done(s)) <= SumOf(done(s))
      BY <1>6
    <3> HIDE DEF left
    <3> QED BY <1>6, <2>1, <3>1, <3>2
  <2>2. CASE s = "untracked"
    <3> DEFINE q == done(s)
    <3>1. q \in Seq(Cohorts) /\ SumOf(q) \in Nat
      BY <1>6
    <3>2. left(s) = Kept(q, T)
      BY <2>2, <3>1, BacklogSteps
    <3> DEFINE U == {c \in Cohorts : it - c.a + 1 < D}
    <3>3. \A c \in ToSet(q) : c \in T <=> c \in U
      <4>1. ToSet(q) \subseteq Cohorts
        BY <3>1, SetOf
      <4> QED BY <2>2, <4>1
    <3>4. Kept(q, T) = Kept(q, U)
      <4> HIDE DEF T, U, q
      <4> QED BY <3>1, <3>3, KeptSame
    <3>5. \A c, d \in Cohorts : c.a <= d.a /\ c \in U => d \in U
      <4> SUFFICES ASSUME NEW c \in Cohorts, NEW d \in Cohorts, c.a <= d.a, c \in U PROVE it - d.a + 1 < D
        OBVIOUS
      <4>1. c.a \in Nat /\ d.a \in Nat /\ it - c.a + 1 < D
        BY DEF Cohorts
      <4> QED BY <1>2, <4>1
    <3> HIDE DEF U
    <3>6. M \in Seq(Nat) /\ it + 1 \in 0 .. Len(M) /\ Total(M) - SumOf(q) \in Int
      <4>1. Total(M) \in Nat /\ it + 1 \in Nat /\ Len(M) = it + 1 /\ M \in Seq(Nat)
        BY <1>2, <1>5a
      <4> HIDE DEF q
      <4> QED BY <3>1, <4>1
    <3>7. InTurn(q, Total(M) - SumOf(q), M, it + 1)
      BY <1>6
    <3> HIDE DEF q
    <3>8. /\ Kept(q, U) \in Seq(Cohorts) /\ SumOf(Kept(q, U)) <= SumOf(q)
          /\ InTurn(Kept(q, U), (Total(M) - SumOf(q)) + (SumOf(q) - SumOf(Kept(q, U))), M, it + 1)
      BY <3>1, <3>5, <3>6, <3>7, PassedOn, Zenon
    <3>9. SumOf(Kept(q, U)) \in Nat /\ Backlog!Pending(Kept(q, U)) = SumOf(Kept(q, U))
      BY <3>8, SumFront, BacklogSteps
    <3>10. (Total(M) - SumOf(q)) + (SumOf(q) - SumOf(Kept(q, U))) = Total(M) - SumOf(Kept(q, U))
      <4>1. Total(M) \in Nat
        BY <1>2, <1>5a
      <4> QED BY <3>1, <3>9, <4>1
    <3> HIDE DEF left, T
    <3> QED BY <2>2, <3>2, <3>4, <3>8, <3>9, <3>10 DEF q
  <2> QED BY <1>2, <2>1, <2>2
<1>8. \A c \in ToSet(left("untracked")) : it' - c.a < D
  <2>1. left("untracked") = Kept(done("untracked"), T) /\ done("untracked") \in Seq(Cohorts)
    BY <1>2, <1>6, <1>7
  <2>2. ToSet(left("untracked")) = ToSet(done("untracked")) \cap T
    BY <2>1, KeptSet
  <2>3. ToSet(done("untracked")) \subseteq Cohorts
    BY <2>1, SetOf
  <2> SUFFICES ASSUME NEW c \in ToSet(left("untracked")) PROVE it' - c.a < D
    OBVIOUS
  <2>4. c.a \in Nat /\ it - c.a + 1 < D
    BY <2>2, <2>3 DEF Cohorts
  <2> QED BY <1>2, <1>4, <2>4
<1> HIDE DEF left, T
<1>9. ASSUME NEW s \in Backlog!Settings
      PROVE  /\ s2'[s].decided = s2[s].decided + (SumOf(s1[s]) + G) - SumOf(done(s))
             /\ s2'[s].passed = s2[s].passed + SumOf(done(s)) - SumOf(left(s))
  BY <1>3, <1>6, <1>7
<1>10. ASSUME NEW s \in Backlog!Settings PROVE BacklogHeld(s)'
  <2>0. /\ s2[s].decided \in Nat /\ s2[s].passed \in Nat /\ SumOf(s1[s]) \in Nat
        /\ Total(s3) = s2[s].decided + s2[s].passed + SumOf(s1[s])
        /\ SumOf(done(s)) \in Nat /\ SumOf(done(s)) <= SumOf(s1[s]) + G
        /\ SumOf(left(s)) \in Nat /\ SumOf(left(s)) <= SumOf(done(s))
    BY <1>5, <1>6, <1>7
  <2> DEFINE p == s2[s].decided
             o == s2[s].passed
             a == SumOf(s1[s])
             b == SumOf(done(s))
             c == SumOf(left(s))
             m == Total(s3)
  <2>a. s2'[s].decided = p + (a + G) - b /\ s2'[s].passed = o + b - c
    BY <1>9
  <2>b. /\ p \in Nat /\ o \in Nat /\ a \in Nat /\ b \in Nat /\ b <= a + G /\ c \in Nat /\ c <= b
        /\ m = p + o + a
    BY <2>0
  <2> HIDE DEF p, o, a, b, c, m
  <2>c. /\ p + (a + G) - b \in Nat /\ o + b - c \in Nat
        /\ m + G = (p + (a + G) - b) + (o + b - c) + c
    BY <1>2, <2>b
  <2>1. s2'[s].decided \in Nat /\ s2'[s].passed \in Nat
    BY <2>a, <2>c
  <2>2. Total(M) = s2'[s].decided + s2'[s].passed + SumOf(left(s))
    BY <1>5a, <2>a, <2>c DEF m, c
  <2> QED BY <1>3, <1>4, <1>7, <2>1, <2>2 DEF BacklogHeld
<1>11. s2'["tracked"].passed = 0
  <2>1. left("tracked") = done("tracked") /\ SumOf(done("tracked")) \in Nat /\ s2["tracked"].passed = 0
    BY <1>2, <1>6, <1>7 DEF BacklogInv
  <2> QED BY <1>2, <1>9, <2>1
<1>12. /\ s2'["untracked"].decided <= s2'["tracked"].decided
       /\ SumOf(s1'["untracked"]) <= SumOf(s1'["tracked"])
  <2> DEFINE t == SumOf(s1["tracked"])
             u == SumOf(s1["untracked"])
  <2>1. t \in Nat /\ u \in Nat /\ u <= t /\ s2["untracked"].decided <= s2["tracked"].decided
        /\ s2["untracked"].decided \in Nat /\ s2["tracked"].decided \in Nat
    BY <1>2, <1>5 DEF BacklogInv
  <2> HIDE DEF t, u
  <2>2. Less(u + G, K) <= Less(t + G, K) /\ u + G - Less(u + G, K) <= t + G - Less(t + G, K)
        /\ Less(u + G, K) \in Nat /\ Less(t + G, K) \in Nat
    BY <1>2, <2>1 DEF Less
  <2>3. /\ SumOf(done("tracked")) = Less(t + G, K) /\ SumOf(done("untracked")) = Less(u + G, K)
        /\ left("tracked") = done("tracked") /\ SumOf(left("untracked")) <= SumOf(done("untracked"))
        /\ SumOf(left("untracked")) \in Nat
    BY <1>2, <1>6, <1>7 DEF t, u
  <2>4. /\ s2'["tracked"].decided = s2["tracked"].decided + (t + G) - Less(t + G, K)
        /\ s2'["untracked"].decided = s2["untracked"].decided + (u + G) - Less(u + G, K)
    BY <1>2, <1>9, <2>3 DEF t, u
  <2>5. s2'["untracked"].decided <= s2'["tracked"].decided
    <3> DEFINE x == s2["tracked"].decided
               y == s2["untracked"].decided
               l == Less(t + G, K)
               m == Less(u + G, K)
    <3>1. x \in Nat /\ y \in Nat /\ y <= x /\ l \in Nat /\ m \in Nat /\ u + G - m <= t + G - l
      BY <2>1, <2>2
    <3>2. s2'["tracked"].decided = x + (t + G) - l /\ s2'["untracked"].decided = y + (u + G) - m
      BY <2>4
    <3> HIDE DEF x, y, l, m
    <3>3. y + (u + G) - m <= x + (t + G) - l
      BY <1>2, <2>1, <3>1
    <3> QED BY <3>2, <3>3
  <2>6. SumOf(left("untracked")) <= SumOf(left("tracked"))
    BY <2>2, <2>3
  <2> QED BY <1>2, <1>3, <2>5, <2>6
<1>13. \A i \in DOMAIN s1'["untracked"] : it' - s1'["untracked"][i].a < D
  <2>1. s1'["untracked"] = left("untracked") /\ left("untracked") \in Seq(Cohorts)
    BY <1>2, <1>3, <1>7
  <2>2. ToSet(left("untracked")) = {left("untracked")[i] : i \in 1 .. Len(left("untracked"))}
    BY <2>1, SetOf
  <2>3. DOMAIN left("untracked") = 1 .. Len(left("untracked"))
    BY <2>1
  <2> QED BY <1>8, <2>1, <2>2, <2>3
<1>14. s3' \in Seq(Nat) /\ Len(s3') = it' /\ it' \in Nat /\ par' \in BacklogParams
  BY <1>2, <1>4, <1>5
<1> QED BY <1>2, <1>4, <1>10, <1>11, <1>12, <1>13, <1>14 DEF BacklogInv

\* BacklogInv implies what the run checks of the figure.
LEMMA BacklogFacts ==
  ASSUME BacklogInv PROVE Backlog!ClaimsKept /\ Backlog!DeadlineKept /\ Backlog!HiddenWork
<1> DEFINE t == s1["tracked"]
           u == s1["untracked"]
<1>1. Backlog!Settings = {"tracked", "untracked"} /\ BacklogHeld("tracked") /\ BacklogHeld("untracked")
  BY DEF BacklogInv, Backlog!Settings
<1>2. ASSUME NEW s \in Backlog!Settings
      PROVE  /\ s1[s] \in Seq(Cohorts) /\ Backlog!Pending(s1[s]) = SumOf(s1[s]) /\ SumOf(s1[s]) \in Nat
             /\ InTurn(s1[s], Total(s3) - SumOf(s1[s]), s3, it)
  BY <1>1, SumFront, BacklogSteps DEF BacklogHeld
<1>3. Backlog!Total(s3) = Total(s3) /\ s3 \in Seq(Nat) /\ Len(s3) = it /\ it \in Nat /\ Total(s3) \in Nat
  BY BacklogLibrary, TotalNat DEF BacklogInv
<1>4. Backlog!ClaimsKept
  <2>1. ASSUME NEW s \in Backlog!Settings, NEW i \in DOMAIN s1[s], i > 1
        PROVE  s1[s][i].n = s3[s1[s][i].a + 1]
    BY <1>2, <2>1 DEF InTurn, Placed
  <2>2. ASSUME NEW s \in Backlog!Settings
        PROVE  Backlog!Total(s3) = s2[s].decided + s2[s].passed + Backlog!Pending(s1[s])
    BY <1>1, <1>2, <1>3, <2>2 DEF BacklogHeld
  <2> QED BY <2>1, <2>2 DEF Backlog!ClaimsKept
<1>5. Backlog!DeadlineKept
  <2>1. ASSUME u # << >> PROVE t # << >> /\ t[1].a <= u[1].a
    <3>1. t \in Seq(Cohorts) /\ u \in Seq(Cohorts) /\ SumOf(u) <= SumOf(t) /\ SumOf(u) \in Nat /\ SumOf(t) \in Nat
      BY <1>1, <1>2 DEF BacklogInv
    <3>2. SumOf(u) # 0
      BY <2>1, <3>1, SumFront
    <3>3. t # << >>
      BY <3>1, <3>2, SumEmpty
    <3>4. ASSUME NEW q \in Seq(Cohorts), q # << >>, InTurn(q, Total(s3) - SumOf(q), s3, it)
          PROVE  /\ q[1].a \in Nat /\ q[1].a < it
                 /\ Upto(s3, q[1].a) \in Nat /\ Upto(s3, q[1].a + 1) \in Nat
                 /\ Upto(s3, q[1].a) <= Total(s3) - SumOf(q)
                 /\ Total(s3) - SumOf(q) < Upto(s3, q[1].a + 1)
      <4> DEFINE X == Total(s3) - SumOf(q)
                 c == q[1]
                 b == c.a
      <4>1. 1 \in DOMAIN q /\ c \in Cohorts /\ SumOf(q) \in Nat
        BY <3>4, SumFront
      <4>2. b \in Nat /\ c.n \in Nat /\ c.n > 0 /\ c \in Claims
        BY <4>1 DEF Cohorts, Claims
      <4>3. Placed(q, X, s3, 1) /\ b < it
        BY <3>4, <4>1 DEF InTurn
      <4>4. SumOf(SubSeq(q, 1, 1)) = c.n
        <5>1. SubSeq(q, 1, 1) = Append(<< >>, c) /\ << >> \in Seq(Claims)
          <6>1. << >> \in Seq(Claims) /\ 1 \in 1 .. Len(q)
            BY <4>1, EmptySeq
          <6> DEFINE z == SubSeq(q, 1, 1)
                     y == Append(<< >>, c)
          <6>2. z \in Seq(Claims) /\ Len(z) = 1 /\ z[1] = c
            BY <3>4, <6>1, SumFront
          <6>3. y \in Seq(Claims) /\ Len(y) = 1 /\ y[1] = c
            BY <4>2, <6>1
          <6> HIDE DEF z, y, c
          <6>4. z = y
            BY <6>2, <6>3, SeqEqual
          <6> QED BY <6>1, <6>4 DEF z, y
        <5>2. SumOf(Append(<< >>, c)) = SumOf(<< >>) + c.n
          BY <4>2, <5>1, SumAppend, Zenon
        <5>3. SumOf(SubSeq(q, 1, 1)) = 0 + c.n
          BY <5>1, <5>2, SumEmpty
        <5> HIDE DEF c
        <5> QED BY <4>2, <5>3
      <4>5. X + c.n = Upto(s3, b + 1) /\ c.n <= s3[b + 1]
        BY <4>3, <4>4 DEF Placed
      <4>6. b \in 0 .. Len(s3) - 1 /\ b \in 0 .. Len(s3) /\ b + 1 \in 0 .. Len(s3)
        BY <1>3, <4>2, <4>3, SMTT(30)
      <4>7. /\ Upto(s3, b + 1) = Upto(s3, b) + s3[b + 1] /\ s3[b + 1] \in Nat
            /\ Upto(s3, b) \in Nat /\ Upto(s3, b + 1) \in Nat
        BY <1>3, <4>6, UptoIs
      <4>8. X \in Int
        BY <1>3, <4>1
      <4> HIDE DEF X, c, b
      <4>9. Upto(s3, b) <= X /\ X < Upto(s3, b + 1)
        BY <4>2, <4>5, <4>7, <4>8
      <4> QED BY <4>2, <4>3, <4>7, <4>9 DEF X, c, b
    <3>5. /\ t[1].a \in Nat /\ t[1].a < it /\ Upto(s3, t[1].a) \in Nat
          /\ Upto(s3, t[1].a) <= Total(s3) - SumOf(t)
      BY <1>1, <1>2, <3>1, <3>3, <3>4
    <3>6. /\ u[1].a \in Nat /\ u[1].a < it /\ Upto(s3, u[1].a + 1) \in Nat
          /\ Total(s3) - SumOf(u) < Upto(s3, u[1].a + 1)
      BY <1>1, <1>2, <2>1, <3>1, <3>4
    <3> DEFINE x == t[1].a
               y == u[1].a
    <3>7. Upto(s3, x) < Upto(s3, y + 1)
      BY <1>3, <3>1, <3>5, <3>6
    <3>8. ~ (y + 1 <= x)
      <4> SUFFICES ASSUME y + 1 <= x PROVE FALSE
        OBVIOUS
      <4>1. y + 1 \in 0 .. Len(s3) /\ x \in 0 .. Len(s3)
        <5>1. x \in Nat /\ y \in Nat /\ x < it /\ y < it
          BY <3>5, <3>6
        <5> HIDE DEF x, y
        <5> QED BY <1>3, <5>1
      <4>2. Upto(s3, y + 1) <= Upto(s3, x)
        <5> HIDE DEF x, y
        <5> QED BY <1>3, <4>1, UptoRises
      <4> QED BY <3>5, <3>6, <3>7, <4>2
    <3>9. x \in Nat /\ y \in Nat
      BY <3>5, <3>6
    <3> HIDE DEF x, y
    <3>10. x <= y
      BY <3>8, <3>9
    <3> QED BY <3>3, <3>10 DEF x, y
  <2> QED BY <2>1 DEF Backlog!DeadlineKept, BacklogInv
<1>6. Backlog!HiddenWork
  <2>1. /\ SumOf(u) <= SumOf(t) /\ s2["tracked"].passed = 0 /\ s2["untracked"].decided <= s2["tracked"].decided
        /\ s2["tracked"].decided \in Nat /\ s2["untracked"].decided \in Nat /\ s2["untracked"].passed \in Nat
        /\ Total(s3) = s2["tracked"].decided + s2["tracked"].passed + SumOf(t)
        /\ Total(s3) = s2["untracked"].decided + s2["untracked"].passed + SumOf(u)
    BY <1>1 DEF BacklogInv, BacklogHeld
  <2>2. /\ Backlog!Pending(t) = SumOf(t) /\ Backlog!Pending(u) = SumOf(u)
        /\ SumOf(t) \in Nat /\ SumOf(u) \in Nat
    BY <1>1, <1>2
  <2>3. SumOf(t) + s2["tracked"].passed <= SumOf(u) + s2["untracked"].passed
    BY <2>1, <2>2
  <2> QED BY <2>1, <2>2, <2>3 DEF Backlog!HiddenWork
<1> QED BY <1>4, <1>5, <1>6

----------------------------------------------------------------------------
(* Each figure keeps its invariant while another variable changes.         *)

\* SlotsInv is about the variables it names.
LEMMA SlotsStay ==
  ASSUME SlotsInv, UNCHANGED <<par, it, s1, s2, s3, s4>> PROVE SlotsInv'
<1>1. PICK came, base, h : SlotsTyped(came, h) /\ CohortAt(base, h) /\ SlotsTaken(came, h)
  BY DEF SlotsInv
<1>2. SlotsTyped(came, h)'
  BY <1>1, Zenon DEF SlotsTyped, Arrives, Count
<1>3. CohortAt(base, h)'
  BY <1>1, Zenon DEF CohortAt, LastStep, Out
<1>4. SlotsTaken(came, h)'
  BY <1>1, Zenon DEF SlotsTaken, LastStep, Out
<1> QED BY <1>2, <1>3, <1>4, Zenon DEF SlotsInv

\* ExpertsInv is about the variables it names.
LEMMA ExpertsStay ==
  ASSUME ExpertsInv, UNCHANGED <<par, it, s1, s2, s3>> PROVE ExpertsInv'
BY DEF ExpertsInv, ExpertsTyped, ClaimsMade, SlotsCounted, Runs, Experts!SlotsApart,
       Experts!ExpertsDistinct, Experts!DroppedWhenFull, Experts!Kept, Experts!sel

\* BacklogInv is about the variables it names.
LEMMA BacklogStay ==
  ASSUME BacklogInv, UNCHANGED <<par, it, s1, s2, s3>> PROVE BacklogInv'
BY DEF BacklogInv, BacklogHeld
=============================================================================
