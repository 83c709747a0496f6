---------------------------- MODULE EffectCrash ----------------------------
(***************************************************************************)
(* A durable step with an external effect and a worker that crashes: the   *)
(* function outcome of src/app/src/figures/effect-crash-recovery.ts, which *)
(* writes down the messages of the first attempt and of the recovery, and, *)
(* apart from them, what the journal and the service hold in the end and a *)
(* verdict. The module plays the messages one after the other.             *)
(*                                                                         *)
(* A row is what it says and a ticket's number; wording and the drawing    *)
(* are left out. FIRST_ID is 1.                                            *)
(***************************************************************************)
EXTENDS Naturals, Sequences, SequencesExt

VARIABLES par,      \* [crash, policy]
          played,   \* rows played so far
          journal,  \* the entries of the step, in order
          tickets   \* what the service has made

vars == <<par, played, journal, tickets>>

CRASHES  == {"none", "before", "scheduled", "inflight", "committed", "completed"}
POLICIES == {"atmost", "atleast", "keyed", "reconcile"}

Row(k, id) == [k |-> k, id |-> id, look |-> "done"]
Scheduled  == Row("scheduled", 0)

create(id) == <<Row("create", id), Row("commit", id), Row("reply", id), Row("completed", id)>>

\* How many rows of the first attempt ran.
ran(crash) == CASE crash = "before"    -> 0
                [] crash = "scheduled" -> 1
                [] crash = "inflight"  -> 2
                [] crash = "committed" -> 3
                [] OTHER               -> 5

committed(crash) == ran(crash) >= 3

\* The planned rows; the message under way at the crash is lost.
first(crash) ==
  LET planned == <<Scheduled>> \o create(1)
  IN  [i \in 1 .. 5 |->
         [planned[i] EXCEPT !.look =
            CASE crash = "inflight" /\ i = 2  -> "lost"
              [] crash = "committed" /\ i = 4 -> "lost"
              [] i <= ran(crash)              -> "done"
              [] OTHER                        -> "skipped"]]

\* The ticket is looked up, or searched for, and is there.
found(crash, policy) == policy \in {"keyed", "reconcile"} /\ committed(crash)

recovery(crash, policy) ==
  LET next == IF committed(crash) THEN 2 ELSE 1
  IN  CASE crash = "none"      -> << >>
        [] crash = "before"    -> <<Row("viewNone", 0), Scheduled>> \o create(next)
        [] crash = "completed" -> <<Row("viewCompleted", 1), Row("substitute", 1)>>
        [] policy = "atmost"   -> <<Row("viewScheduled", 0), Row("escalate", 0)>>
        [] OTHER ->
             <<Row("viewScheduled", 0)>>
               \o (CASE policy = "atleast"      -> << >>
                     [] found(crash, policy)    -> <<Row("lookup", 0), Row("found", 1)>>
                     [] OTHER                   -> <<Row("lookup", 0), Row("notFound", 0)>>)
               \o (IF found(crash, policy) THEN <<Row("completed", 1)>> ELSE create(next))

\* What outcome says of the end, each on a path of its own in the code.
Resolved(n, id, view) ==
  [journal |-> <<Scheduled, Row("completed", id)>>, tickets |-> [i \in 1 .. n |-> i],
   verdict |-> IF n > 1 THEN "duplicate" ELSE "once", unresolved |-> FALSE, view |-> view]

outcome(crash, policy) ==
  CASE crash = "none"      -> Resolved(1, 1, "clean")
    [] crash = "before"    -> Resolved(1, 1, "none")
    [] crash = "completed" -> Resolved(1, 1, "completed")
    [] policy = "atmost"   ->
         [journal |-> <<Scheduled>>, tickets |-> IF committed(crash) THEN <<1>> ELSE << >>,
          verdict |-> IF committed(crash) THEN "unknown" ELSE "lost",
          unresolved |-> TRUE, view |-> "scheduled"]
    [] found(crash, policy) -> Resolved(1, 1, "scheduled")
    [] committed(crash)     -> Resolved(2, 2, "scheduled")
    [] OTHER                -> Resolved(1, 1, "scheduled")

----------------------------------------------------------------------------
(* Playing the rows.                                                       *)

rows == first(par.crash) \o recovery(par.crash, par.policy)

Init == /\ par \in [crash: CRASHES, policy: POLICIES]
        /\ played = 0 /\ journal = << >> /\ tickets = << >>

Next ==
  /\ played < Len(rows)
  /\ played' = played + 1
  /\ LET row == rows[played + 1]
         done == row.look = "done"
     IN  /\ journal' = IF done /\ row.k \in {"scheduled", "completed"}
                         THEN Append(journal, row) ELSE journal
         /\ tickets' = IF done /\ row.k = "commit" THEN Append(tickets, row.id) ELSE tickets
  /\ UNCHANGED par

Over == played = Len(rows)

----------------------------------------------------------------------------
(* Properties.                                                             *)

\* Every answer recovery is given is true of the journal or of the service at
\* that time, and the service numbers a ticket as it says.
AnswersTrue ==
  ~Over => LET row == rows[played + 1] IN
    row.look = "done" =>
      /\ row.k = "viewNone"      => journal = << >>
      /\ row.k = "viewScheduled" => journal = <<Scheduled>>
      /\ row.k = "viewCompleted" => journal = <<Scheduled, Row("completed", row.id)>>
      /\ row.k = "found"         => tickets = <<row.id>>
      /\ row.k = "notFound"      => tickets = << >>
      /\ row.k = "commit"        => row.id = Len(tickets) + 1
      /\ row.k = "completed"     => row.id = Last(tickets)

\* The end is the one the figure tells: the journal and the service hold what
\* the messages left there, and the verdict follows from it.
EndTold ==
  Over => LET told == outcome(par.crash, par.policy)
              resolved == \E i \in DOMAIN journal : journal[i].k = "completed"
          IN  /\ told.journal = journal /\ told.tickets = tickets
              /\ told.unresolved = ~resolved
              /\ told.verdict = CASE Len(tickets) > 1 -> "duplicate"
                                  [] Len(tickets) = 0 -> "lost"
                                  [] resolved         -> "once"
                                  [] OTHER            -> "unknown"

\* The step is scheduled before the service is called; with a key, or where
\* the ticket is searched for, there is one ticket whatever crashes, and no
\* policy but the blind retry makes two.
EffectOnce ==
  /\ tickets # << >> => journal # << >>
  /\ Len(tickets) > 1 => par.policy = "atleast"
  /\ Over /\ par.policy \in {"keyed", "reconcile"} => Len(tickets) = 1
=============================================================================
