--------------------------- MODULE MCCommentsAPI ---------------------------
(***************************************************************************)
(* The comment API in one run. A behaviour is about threads (one reader    *)
(* posts and replies on two pages while the clock runs) or about changes   *)
(* (readers and an admin edit, delete and react to one comment, and any    *)
(* statement may fail), and takes the steps of the instance for it.        *)
(***************************************************************************)
EXTENDS CommentsAPI, TLC

VARIABLE about

\* The reader is the one the symmetry leaves alone, here no admin.
Threads == INSTANCE CommentsAPI WITH
  Users <- {CHOOSE u \in Admins : TRUE}, Admins <- {},
  Bodies <- {CHOOSE b \in Bodies : TRUE}, Emoji <- {},
  Ops <- {"create", "delete", "list"}, Faults <- {"parent"}

Changes == INSTANCE CommentsAPI WITH
  Pages <- {CHOOSE p \in Pages : TRUE}, Faults <- Statements \ {"parent"}, MaxTime <- 0

\* In a behaviour about changes requests name one comment, posted or on its way.
Named == {i \in Ids : \/ Exists(i)
                      \/ \E r \in Requests : /\ req[r] # None
                                             /\ req[r].op \in {"update", "delete", "react"}
                                             /\ req[r].id = i}

OneComment ==
  /\ Cardinality(Named) <= 1
  /\ Cardinality({i \in Ids : Exists(i)})
       + Cardinality({r \in Requests : pc[r] \in {"parent", "count", "insert"}}) <= 1

EitherInit == Init /\ about \in {"threads", "changes"}

EitherNext ==
  /\ UNCHANGED about
  /\ \/ about = "threads" /\ Threads!Next
     \/ about = "changes" /\ Changes!Next /\ OneComment'

EitherSpec == EitherInit /\ [][EitherNext]_<<vars, about>>

\* Comment ids, request slots and the readers who are no admins are interchangeable;
\* pages are not once requests name them.
Symmetry == Permutations(Ids) \cup Permutations(Requests) \cup Permutations(Users \ Admins)
===========================================================================
