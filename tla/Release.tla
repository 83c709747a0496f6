------------------------------ MODULE Release ------------------------------
(***************************************************************************)
(* A release of the book: the rolling update deploy/base/deployment.yaml   *)
(* asks Kubernetes for, the life of a server process in run of main.go     *)
(* (with store.NewPool), the readiness probe, and the ingress, which       *)
(* learns late which pods are there. Pods are named after their release;   *)
(* a container that ends is started again in its pod.                      *)
(*                                                                         *)
(* One request is followed at a time, however long it takes. A tick is two *)
(* and a half seconds.                                                     *)
(***************************************************************************)
EXTENDS Naturals, FiniteSets

CONSTANTS
  MaxReleases, \* bound: releases after the one running at first
  MaxTroubles, \* bound: outages of the database and crashes of a server
  MaxLength,   \* bound: ticks a request takes
  Pause,       \* preStop's sleep
  Drain,       \* how long RunServer waits for requests in flight
  Grace,       \* terminationGracePeriodSeconds
  Lag,         \* how long the ingress routes to a pod it is to drop
  None

VARIABLES
  target,    \* the release the deployment asks for
  valid,     \* release -> its book has a page index that loads
  phase,     \* pod -> what its process is doing
  age,       \* pod -> ticks since it was told to stop
  pools,     \* pods whose connection pool is open
  ready,     \* pods whose readiness probe succeeds: the service's endpoints
  upstream,  \* pods the ingress routes to
  req,       \* the request followed: its pod, its length and what is left of it
  cut,       \* how long the requests took that a stopping server did not finish
  db,        \* the database can be reached
  trouble,   \* an outage or a crash the service has not recovered from
  troubles   \* how many there have been

pods == <<phase, age, pools>>
vars == <<target, valid, pods, ready, upstream, req, cut, db, trouble, troubles>>

Pods    == 0 .. MaxReleases
Active  == {p \in Pods : phase[p] \in {"starting", "serving"}}
Ending  == {p \in Pods : phase[p] \in {"stopping", "draining"}}
Answers == {p \in Pods : phase[p] \in {"serving", "stopping"}} \* its listener is open

Init ==
  /\ target = 0 /\ valid \in [Pods -> BOOLEAN] /\ valid[0]
  /\ phase = [p \in Pods |-> IF p = 0 THEN "serving" ELSE "none"]
  /\ age = [p \in Pods |-> 0]
  /\ pools = {0} /\ ready = {0} /\ upstream = {0}
  /\ req = None /\ cut = 0
  /\ db = TRUE /\ trouble = FALSE /\ troubles = 0

Becomes(p, what) == phase' = [phase EXCEPT ![p] = what]

----------------------------------------------------------------------------
(* The deployment: replicas 1, maxSurge 1, maxUnavailable 0.               *)

Apply == /\ target < MaxReleases
         /\ target' = target + 1
         /\ UNCHANGED <<valid, pods, ready, upstream, req, cut, db, trouble, troubles>>

\* Mutant: maxSurge 0.
Surge_NoRoom == /\ phase[target] = "none"
                /\ Active = {}
                /\ Becomes(target, "starting")
                /\ UNCHANGED <<target, valid, age, pools, ready, upstream, req, cut, db,
                               trouble, troubles>>

Surge == /\ phase[target] = "none"
         /\ Cardinality(Active) < 2
         /\ Becomes(target, "starting")
         /\ UNCHANGED <<target, valid, age, pools, ready, upstream, req, cut, db,
                        trouble, troubles>>

\* What may be taken away, pods that are not ready first.
Unavailable == {p \in Active \cap {target} : p \notin ready}

\* Mutant: maxUnavailable 1.
MayStop_Early(p) == Cardinality(Active) > 1

MayStop(p) == /\ Cardinality(Active) - 1 > Cardinality(Unavailable)
              /\ p \in ready => /\ Active \ {target} \subseteq ready
                                /\ Cardinality(Active \cap ready) > 1

\* A pod that is told to stop is no endpoint from then on.
StopOld ==
  /\ \E p \in Active \ {target} :
       /\ MayStop(p)
       /\ Becomes(p, IF phase[p] = "serving" THEN "stopping" ELSE "gone")
       /\ ready' = ready \ {p}
  /\ UNCHANGED <<target, valid, age, pools, upstream, req, cut, db, trouble, troubles>>

----------------------------------------------------------------------------
(* The process: run, /readyz, and the end of it.                           *)

\* config, loadAgentWeb, the pool and the migrations, then the listener. An error
\* ends the process with its pool closed, and it is started again.
Boot == /\ \E p \in Pods :
             /\ phase[p] = "starting" /\ valid[p] /\ db
             /\ Becomes(p, "serving")
             /\ pools' = pools \cup {p}
        /\ UNCHANGED <<target, valid, age, ready, upstream, req, cut, db, trouble, troubles>>

\* dbPing within two seconds.
Probe == /\ \E p \in Pods : /\ phase[p] = "serving"
                            /\ ready' = IF db THEN ready \cup {p} ELSE ready \ {p}
         /\ UNCHANGED <<target, valid, pods, upstream, req, cut, db, trouble, troubles>>

\* Mutants: the stop signal comes at once; the pool is closed before Shutdown.
Told_AtOnce(p) == phase[p] = "stopping"

Sigterm_PoolFirst ==
  /\ \E p \in Pods : /\ phase[p] = "stopping" /\ age[p] = Pause
                     /\ Becomes(p, "draining") /\ pools' = pools \ {p}
  /\ UNCHANGED <<target, valid, age, ready, upstream, req, cut, db, trouble, troubles>>

Told(p) == phase[p] = "stopping" /\ age[p] = Pause

\* The context of run is done: RunServer shuts the listener and drains.
Sigterm == /\ \E p \in Pods : Told(p) /\ Becomes(p, "draining")
           /\ UNCHANGED <<target, valid, age, pools, ready, upstream, req, cut, db,
                          trouble, troubles>>

\* The kubelet kills what is left when the grace period is over.
Deadline == IF Pause + Drain < Grace THEN Pause + Drain ELSE Grace

InFlight(p) == req # None /\ req.pod = p

\* Mutant: the server is closed without waiting.
MayExit_AtOnce(p) == phase[p] = "draining"

MayExit(p) == /\ phase[p] = "draining"
              /\ InFlight(p) => age[p] = Deadline

\* RunServer returns, and the pool is closed.
Exit == /\ \E p \in Pods :
             /\ MayExit(p)
             /\ Becomes(p, "gone") /\ pools' = pools \ {p}
             /\ IF InFlight(p) THEN req' = None /\ cut' = req.length
                               ELSE UNCHANGED <<req, cut>>
        /\ UNCHANGED <<target, valid, age, ready, upstream, db, trouble, troubles>>

----------------------------------------------------------------------------
(* The ingress, readers, time, and what goes wrong.                        *)

Sync == /\ upstream # ready /\ upstream' = ready
        /\ UNCHANGED <<target, valid, pods, ready, req, cut, db, trouble, troubles>>

Arrive == /\ req = None
          /\ \E p \in upstream \cap Answers, n \in 1 .. MaxLength :
               req' = [pod |-> p, length |-> n, left |-> n]
          /\ UNCHANGED <<target, valid, pods, ready, upstream, cut, db, trouble, troubles>>

Tick ==
  /\ req # None \/ Ending # {}
  /\ \A p \in Ending : /\ p \in upstream => age[p] < Lag
                       /\ ~Told(p) /\ age[p] < Deadline
  /\ age' = [p \in Pods |-> IF p \in Ending THEN age[p] + 1 ELSE age[p]]
  /\ req' = IF req = None \/ req.left = 1 THEN None ELSE [req EXCEPT !.left = @ - 1]
  /\ UNCHANGED <<target, valid, phase, pools, ready, upstream, cut, db, trouble, troubles>>

Outage == /\ db /\ troubles < MaxTroubles
          /\ db' = FALSE /\ trouble' = TRUE /\ troubles' = troubles + 1
          /\ UNCHANGED <<target, valid, pods, ready, upstream, req, cut>>

DbComesBack == /\ ~db /\ db' = TRUE
               /\ UNCHANGED <<target, valid, pods, ready, upstream, req, cut, trouble, troubles>>

Crash == /\ troubles < MaxTroubles
         /\ \E p \in Pods :
              /\ phase[p] = "serving"
              /\ Becomes(p, "starting")
              /\ pools' = pools \ {p} /\ ready' = ready \ {p}
              /\ req' = IF InFlight(p) THEN None ELSE req
         /\ trouble' = TRUE /\ troubles' = troubles + 1
         /\ UNCHANGED <<target, valid, age, upstream, cut, db>>

\* The service has recovered.
Recover == /\ trouble /\ db
           /\ \E p \in ready : phase[p] = "serving"
           /\ ready \subseteq Active /\ upstream = ready
           /\ trouble' = FALSE
           /\ UNCHANGED <<target, valid, pods, ready, upstream, req, cut, db, troubles>>

Next == \/ Apply \/ Surge \/ StopOld \/ Boot \/ Probe \/ Sigterm \/ Exit
        \/ Sync \/ Arrive \/ Tick \/ Outage \/ DbComesBack \/ Crash \/ Recover

Spec == Init /\ [][Next]_vars
        /\ WF_vars(Surge) /\ WF_vars(StopOld) /\ WF_vars(Boot) /\ WF_vars(Probe)
        /\ WF_vars(Sigterm) /\ WF_vars(Exit) /\ WF_vars(Sync) /\ WF_vars(Tick)

----------------------------------------------------------------------------
(* A release serves throughout (deployment.yaml:9-10 and 107-112): but for *)
(* an outage of the database or a crash, the ingress has a pod to route to *)
(* and every pod it routes to has its listener open, whichever releases    *)
(* overlap and whether or not they can start.                              *)
ServesThroughout == trouble \/ (upstream # {} /\ upstream \subseteq Answers)

(* A server that is told to stop finishes every request that takes no      *)
(* longer than its drain, with its pool open (main.go:588-589).            *)
AnswersWhole == /\ cut # 0 => cut > Drain
                /\ req # None => req.pod \in pools

(* No reader of the book notices a release.                                *)
ReleaseServes == ServesThroughout /\ AnswersWhole

(* A release that can start comes to be the only one that runs, if the     *)
(* database stays, and the ingress routes to it alone.                     *)
Deployed == Active = {target} /\ Ending = {} /\ upstream = {target}

ReleaseEnds == <>[]db => <>[](valid[target] => Deployed)
============================================================================
