------------------------------ MODULE Serving ------------------------------
(***************************************************************************)
(* What an iteration-level scheduler promises the requests it serves,      *)
(* whatever it does with memory: first come, first served, a bounded       *)
(* batch, and a request put back only if it was taken last.  The           *)
(* simulators of app/src/figures that schedule requests (kv-block-         *)
(* lifecycle.ts, paged-kv-batching.ts, continuous-batching.ts) implement   *)
(* it: see Simulators.                                                   *)
(***************************************************************************)
EXTENDS Naturals, Sequences, SequencesExt, Lists

VARIABLES arrival,  \* when each request arrives; never changes
          slots,    \* how many may be served at once; never changes
          joined,   \* the requests that have arrived
          batch,    \* those in service, in the order they were taken
          over      \* those finished or canceled

vars == <<arrival, slots, joined, batch, over>>

Requests == DOMAIN arrival
Waiting  == joined \ (ToSet(batch) \union over)

Init == joined = {} /\ batch = << >> /\ over = {}

Join ==
  /\ \E rs \in SUBSET (Requests \ joined) :
       /\ rs # {}
       /\ \A r \in rs, q \in Requests : arrival[q] < arrival[r] => q \in joined \union rs
       /\ joined' = joined \union rs
  /\ UNCHANGED <<batch, over>>

\* Nobody who came earlier is waiting.
Serve ==
  /\ Len(batch) < slots
  /\ \E r \in Waiting :
       /\ \A q \in Waiting : arrival[r] <= arrival[q]
       /\ batch' = Append(batch, r)
  /\ UNCHANGED <<joined, over>>

\* The last ones taken are put back.
PutBack ==
  /\ \E n \in 0 .. Len(batch) - 1 : batch' = SubSeq(batch, 1, n)
  /\ UNCHANGED <<joined, over>>

Leave ==
  /\ \E rs \in SUBSET ToSet(batch) :
       /\ rs # {}
       /\ batch' = Kept(batch, Requests \ rs)
       /\ over' = over \union rs
  /\ UNCHANGED joined

Next == (Join \/ Serve \/ PutBack \/ Leave) /\ UNCHANGED <<arrival, slots>>

Spec == Init /\ [][Next]_vars

=============================================================================
