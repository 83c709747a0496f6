---------------------------- MODULE MCAccount ----------------------------
(* Instances of Account for TLC.                                           *)
EXTENDS Account, TLC

\* What a behaviour of the run is about, decided at its start: one browser's
\* views, or two readers' bookmarks and notes.
VARIABLE about

InUse  == {b \in Browsers : \/ login[b] # None \/ cookie[b] # None
                            \/ \E r \in Requests : req[r] # None /\ req[r].browser = b}

Reader == CHOOSE u \in Users : TRUE

Within ==
  IF about = "views"
    THEN /\ Cardinality(InUse) <= 1
         /\ \A b \in Browsers : login[b] \in {None, Reader}
         /\ \A r \in Requests : req[r] # None => req[r].op = "view"
    ELSE \A r \in Requests : req[r] # None => req[r].op # "view"

EitherInit == Init /\ about \in {"views", "records"}

EitherNext == Next /\ UNCHANGED about /\ Within'

EitherSpec == EitherInit /\ [][EitherNext]_<<vars, about>>

\* Nothing tells one browser, note id or request slot from another.
Symmetry == Permutations(Browsers) \cup Permutations(NoteIds)
              \cup Permutations(Requests)
===========================================================================
