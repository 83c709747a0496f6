--------------------------- MODULE CommentsView ---------------------------
(***************************************************************************)
(* The comment section of an open page (src/app/src/comments.tsx): its two *)
(* lists, the public comments and the reader's private notes, and the      *)
(* writes the reader makes from it. No list is patched in place: a handler *)
(* awaits the answer to its write and then asks for the whole list again,  *)
(* without cancelling or ordering what is already on its way. Requests and *)
(* answers overtake one another, and either may be lost.                   *)
(*                                                                         *)
(* Abstracted: the server is the set of writes it has carried out (modules *)
(* CommentsAPI and Account model it), and a list is the set of writes it   *)
(* shows; composers, marks and menus are layout. The reader's own writes   *)
(* are the only ones modelled: nothing the page does waits for another's.  *)
(***************************************************************************)
EXTENDS Naturals, FiniteSets

CONSTANTS Writes,  \* the writes the reader may make
          Kind     \* what each of them is

Kinds == {"post", "update", "delete", "react", "note", "unnote"}

Threads == {"comments", "notes"}

ASSUME KindAssumption == Kind \in [Writes -> Kinds]

VARIABLES me,     \* the answer to /api/me: "asked", "reader" or "nobody"
          db,     \* the writes the server has carried out
          stage,  \* how far each write has come
          issued, \* list requests sent so far; they are numbered
          reads,  \* list requests not answered yet
          shown,  \* thread -> the list it shows, with the number of its request
          asked   \* the number of the request a write's answer led to, or 0

vars == <<me, db, stage, issued, reads, shown, asked>>

Thread(w) == IF Kind[w] \in {"note", "unnote"} THEN "notes" ELSE "comments"

Read == [n: Nat, thread: Threads, served: BOOLEAN, seen: SUBSET Writes]

List == [n: Nat, ok: BOOLEAN, seen: SUBSET Writes,
         had: BOOLEAN] \* some list of the thread has been on show

Stages == {"idle", "sent", "done", "refused", "answered", "failed"}

TypeOK == /\ me \in {"asked", "reader", "nobody"}
          /\ db \subseteq Writes
          /\ stage \in [Writes -> Stages]
          /\ issued \in Nat
          /\ reads \subseteq Read
          /\ shown \in [Threads -> List]
          /\ asked \in [Writes -> Nat]

Ask(thread) == /\ issued' = issued + 1
               /\ reads' = reads \cup {[n |-> issued + 1, thread |-> thread,
                                        served |-> FALSE, seen |-> {}]}

Init == \* the effect has just asked for me and for the comments
  /\ me = "asked"
  /\ db = {}
  /\ stage = [w \in Writes |-> "idle"]
  /\ issued = 1
  /\ reads = {[n |-> 1, thread |-> "comments", served |-> FALSE, seen |-> {}]}
  /\ shown = [t \in Threads |-> [n |-> 0, ok |-> FALSE, seen |-> {}, had |-> FALSE]]
  /\ asked = [w \in Writes |-> 0]

---------------------------------------------------------------------------
(* Signing in, and the lists.                                              *)

MeIsReader == /\ me = "asked"
              /\ me' = "reader"
              /\ Ask("notes")
              /\ UNCHANGED <<db, stage, shown, asked>>

MeIsNobody == \* 204, or the request failed
  /\ me = "asked"
  /\ me' = "nobody"
  /\ UNCHANGED <<db, stage, issued, reads, shown, asked>>

Serve(rd) ==
  /\ rd \in reads /\ ~rd.served
  /\ reads' = (reads \ {rd}) \cup
                {[rd EXCEPT !.served = TRUE,
                            !.seen = {w \in db : Thread(w) = rd.thread}]}
  /\ UNCHANGED <<me, db, stage, issued, shown, asked>>

Show(rd) == \* setList, whichever request was the last to be sent
  /\ rd \in reads /\ rd.served
  /\ reads' = reads \ {rd}
  /\ shown' = [shown EXCEPT ![rd.thread] = [n |-> rd.n, ok |-> TRUE,
                                            seen |-> rd.seen, had |-> TRUE]]
  /\ UNCHANGED <<me, db, stage, issued, asked>>

\* Mutant: without the catch the list on show stays.
ListFails_Uncaught(rd) == /\ rd \in reads
                          /\ reads' = reads \ {rd}
                          /\ UNCHANGED <<me, db, stage, issued, shown, asked>>

ListFails(rd) == \* no answer, one that is not a list, or one that does not parse
  /\ rd \in reads
  /\ reads' = reads \ {rd}
  /\ shown' = [shown EXCEPT ![rd.thread] = [n |-> rd.n, ok |-> FALSE, seen |-> {},
                                            had |-> shown[rd.thread].had]]
  /\ UNCHANGED <<me, db, stage, issued, asked>>

---------------------------------------------------------------------------
(* Writes.                                                                 *)

\* A new comment or note needs only a reader; an edit or a reaction hangs off
\* an item of the list on show. The dialog that confirms a deletion and the
\* popover of a note stay open when the list they were opened from is gone.
Offered(w) == /\ me = "reader"
              /\ Kind[w] \in {"update", "react"} => shown[Thread(w)].ok
              /\ Kind[w] \in {"delete", "unnote"} => shown[Thread(w)].had

Send(w) == /\ stage[w] = "idle"
           /\ Offered(w)
           /\ stage' = [stage EXCEPT ![w] = "sent"]
           /\ UNCHANGED <<me, db, issued, reads, shown, asked>>

Carry(w) == /\ stage[w] = "sent"
            /\ db' = db \cup {w}
            /\ stage' = [stage EXCEPT ![w] = "done"]
            /\ UNCHANGED <<me, issued, reads, shown, asked>>

Refuse(w) == /\ stage[w] = "sent"
             /\ stage' = [stage EXCEPT ![w] = "refused"]
             /\ UNCHANGED <<me, db, issued, reads, shown, asked>>

\* The request or its answer is lost: fetch rejects and the handler stops.
Lose(w) == /\ stage[w] \in {"sent", "done", "refused"}
           /\ stage' = [stage EXCEPT ![w] = "failed"]
           /\ UNCHANGED <<me, db, issued, reads, shown, asked>>

Refresh(w) == /\ stage' = [stage EXCEPT ![w] = "answered"]
              /\ asked' = [asked EXCEPT ![w] = issued + 1]
              /\ Ask(Thread(w))
              /\ UNCHANGED <<me, db, shown>>

\* Mutant: a note's handler forgets to load the notes again.
Done_NotesStay(w) == /\ stage[w] = "done"
                     /\ IF Thread(w) = "comments" THEN Refresh(w)
                        ELSE /\ stage' = [stage EXCEPT ![w] = "answered"]
                             /\ UNCHANGED <<me, db, issued, reads, shown, asked>>

Done(w) == stage[w] = "done" /\ Refresh(w)

\* Only create looks at the status of its answer. The handlers that parse the
\* answer stop at one that is not JSON.
Refused(w) ==
  /\ stage[w] = "refused"
  /\ \/ Kind[w] # "post" /\ Refresh(w)
     \/ /\ Kind[w] \in {"post", "update", "note"}
        /\ stage' = [stage EXCEPT ![w] = "failed"]
        /\ UNCHANGED <<me, db, issued, reads, shown, asked>>

---------------------------------------------------------------------------
Server(w) == Carry(w) \/ Refuse(w)

Handler(w) == Done(w) \/ Refused(w) \/ Lose(w)

Listing(rd) == Serve(rd) \/ Show(rd) \/ ListFails(rd)

Next == \/ MeIsReader \/ MeIsNobody
        \/ \E w \in Writes : Send(w) \/ Server(w) \/ Handler(w)
        \/ \E rd \in reads : Listing(rd)

\* At most one request for the notes and one for the comments when the page
\* opens, and one for each write.
MaxReads == Cardinality(Writes) + 2

\* Every request settles; the reader need not do anything.
Fairness == /\ \A w \in Writes : WF_vars(Server(w) \/ Handler(w))
            /\ \A n \in 1 .. MaxReads :
                 WF_vars(\E rd \in reads : rd.n = n /\ Listing(rd))

Spec == Init /\ [][Next]_vars /\ Fairness

---------------------------------------------------------------------------
(* Properties.                                                             *)

Settled(w) == stage[w] = "answered" /\ w \in db

\* A write whose answer has arrived is in every list asked for from then on:
\* the answer leads to a request of its own, and a list that answers this
\* request or a later one shows the write. Answers that overtake one another
\* may still put an older list on show; its number then says so.
ReadsYourWrites ==
  \A w \in Writes : Settled(w) =>
    /\ asked[w] > 0
    /\ LET list == shown[Thread(w)] IN
       list.n >= asked[w] /\ list.ok => w \in list.seen

\* The request a write's answer led to does not stay without effect: the page
\* comes to show a list asked for since, and it shows the write, or to show
\* that there was none to be had. (An older list may then replace it.)
OwnWriteShown ==
  \A w \in Writes :
    (w \in db /\ \E rd \in reads : rd.n = asked[w])
      ~> LET list == shown[Thread(w)]
         IN  list.n >= asked[w] /\ (list.ok => w \in list.seen)
===========================================================================
