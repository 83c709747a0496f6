--------------------------- MODULE Account_proofs ---------------------------
(***************************************************************************)
(* Proofs about Account, for any number of readers, browsers, pages, notes *)
(* and requests in flight, whichever statements fail and answers get lost. *)
(***************************************************************************)
EXTENDS Account, FiniteSetTheorems, TLAPS

---------------------------------------------------------------------------
(* The strengthening. A request that has counted its view and not yet       *)
(* added its visitor holds one view in reserve, so what is inductive is    *)
(* that visitors and such requests together fit within the views.          *)

\* Requests between the two statements of RecordView.
Between(page) == {r \in Requests : pc[r] = "visitor" /\ req[r].page = page}

Reserved == \A p \in Pages :
  Cardinality(VisitorsOf(p)) + Cardinality(Between(p)) <= views[p]

\* Only so many things can have happened.
Finite == /\ IsFiniteSet(drawn) /\ IsFiniteSet(visitors)
          /\ IsFiniteSet({r \in Requests : pc[r] = "visitor"})

\* The visitor of the request's view is recorded.
Recorded(r) == RowOf(req[r]) \in visitors

\* What the tables counted before the view was sent they count still.
Grown(q) == /\ q.before.views <= views[q.page]
            /\ q.before.visitors \subseteq VisitorsOf(q.page)

\* And the view itself besides.
Counted(q) == q.before.views + 1 <= views[q.page]

\* The counts of an answer: those of the tables, or the zeros of a failed query.
CountsFit(stats, q) == /\ stats \in Stats /\ stats.visitors <= stats.views
                       /\ stats # Unread => Includes(stats, q)

\* The notes of an answer are its reader's.
ListsOwn(r) == /\ data[r] \in Listing
               /\ \A n \in data[r].notes : n.owner = req[r].user

\* A request holds what its next statement needs, and what it has answered is true.
RequestOK(r) ==
  /\ pc[r] \in {"count", "visitor", "stats"} => req[r] \in ViewReq
  /\ pc[r] \in {"toggle", "untoggle"} => req[r] \in BookmarkReq
  /\ pc[r] = "note" => req[r] \in NoteReq
  /\ pc[r] = "unnote" => req[r] \in UnnoteReq
  /\ pc[r] = "notes" => req[r] \in NotesReq
  /\ req[r] # None /\ Sets(r) => req[r].vid \in AnonId
  /\ pc[r] \in {"count", "visitor", "stats"} => Grown(req[r])
  /\ pc[r] \in {"visitor", "stats"} => Counted(req[r])
  /\ pc[r] = "stats" => Recorded(r)
  /\ Served(r, "view", "OK") =>
       req[r] \in ViewReq /\ Recorded(r) /\ CountsFit(data[r], req[r])
  /\ Served(r, "notes", "OK") => ListsOwn(r)

\* A step that takes nothing from the counts.
Grows == /\ views \in [Pages -> Nat] /\ views' \in [Pages -> Nat]
         /\ \A p \in Pages : views[p] <= views'[p]
         /\ visitors \subseteq visitors' /\ IsFiniteSet(visitors')

IInv == TypeOK /\ Finite /\ Reserved /\ (\A r \in Requests : RequestOK(r))

---------------------------------------------------------------------------
(* How an action moves the request that takes it.                          *)

OthersWait(r) == \A s \in Requests \ {r} :
  pc'[s] = pc[s] /\ req'[s] = req[s] /\ reply'[s] = reply[s] /\ data'[s] = data[s]

LocalTypeOK == /\ pc \in [Requests -> Statements \cup {"idle", "done"}]
               /\ req \in [Requests -> Request \cup {None}]
               /\ reply \in [Requests -> Status \cup {None}]
               /\ data \in [Requests -> Stats \cup Listing \cup {None}]

\* Moving on, accepting, answering and being freed are typed, and none
\* touches another request.
LEMMA GotoMoves ==
  ASSUME LocalTypeOK, NEW r \in Requests, NEW stmt \in Statements, Goto(r, stmt)
  PROVE  /\ LocalTypeOK' /\ OthersWait(r) /\ pc'[r] = stmt
         /\ req' = req /\ pc' = [pc EXCEPT ![r] = stmt]
BY DEF LocalTypeOK, Goto, OthersWait

LEMMA AcceptMoves ==
  ASSUME LocalTypeOK, NEW r \in Requests, NEW stmt \in Statements,
         NEW q \in Request, Accept(r, q, stmt)
  PROVE  /\ LocalTypeOK' /\ OthersWait(r) /\ pc[r] = "idle" /\ pc'[r] = stmt
         /\ req'[r] = q /\ pc' = [pc EXCEPT ![r] = stmt]
BY DEF LocalTypeOK, Accept, OthersWait

LEMMA SayMoves ==
  ASSUME LocalTypeOK, NEW r \in Requests, NEW status \in Status,
         NEW what \in Stats \cup Listing \cup {None}, Say(r, status, what)
  PROVE  /\ LocalTypeOK' /\ OthersWait(r) /\ pc'[r] = "done" /\ req' = req
         /\ reply'[r] = status /\ data'[r] = what /\ pc' = [pc EXCEPT ![r] = "done"]
BY DEF LocalTypeOK, Say, OthersWait

LEMMA ReplyMoves ==
  ASSUME LocalTypeOK, NEW r \in Requests, NEW q \in Request \cup {None},
         NEW status \in Status, NEW what \in Stats \cup Listing \cup {None},
         Reply(r, q, status, what)
  PROVE  /\ LocalTypeOK' /\ OthersWait(r) /\ pc'[r] = "done" /\ req'[r] = q
         /\ reply'[r] = status /\ data'[r] = what /\ pc' = [pc EXCEPT ![r] = "done"]
BY DEF LocalTypeOK, Reply, OthersWait

LEMMA FreeMoves ==
  ASSUME LocalTypeOK, NEW r \in Requests, Free(r)
  PROVE  /\ LocalTypeOK' /\ OthersWait(r) /\ pc'[r] = "idle" /\ req'[r] = None
         /\ pc' = [pc EXCEPT ![r] = "idle"]
BY DEF LocalTypeOK, Free, OthersWait

\* A page's visitors only get more.
LEMMA VisitorsGrow ==
  ASSUME Grows, NEW p \in Pages
  PROVE  /\ VisitorsOf(p) \subseteq VisitorsOf(p)' /\ IsFiniteSet(VisitorsOf(p)')
         /\ IsFiniteSet(VisitorsOf(p))
         /\ Cardinality(VisitorsOf(p)) \in Nat /\ Cardinality(VisitorsOf(p)') \in Nat
         /\ Cardinality(VisitorsOf(p)) <= Cardinality(VisitorsOf(p)')
<1>1. VisitorsOf(p) \subseteq VisitorsOf(p)' /\ VisitorsOf(p)' \subseteq visitors'
  BY DEF Grows, VisitorsOf
<1>2. IsFiniteSet(VisitorsOf(p)')
  BY <1>1, FS_Subset DEF Grows
<1>3. /\ IsFiniteSet(VisitorsOf(p))
      /\ Cardinality(VisitorsOf(p)) <= Cardinality(VisitorsOf(p)')
  BY <1>1, <1>2, FS_Subset
<1> QED BY <1>1, <1>2, <1>3, FS_CardinalityType

\* What a view found, and what it was told, stays true of the counts that grow.
LEMMA CountsStay ==
  ASSUME Grows, NEW q \in ViewReq
  PROVE  /\ Grown(q) => Grown(q)'
         /\ Counted(q) => Counted(q)'
         /\ \A stats : CountsFit(stats, q) => CountsFit(stats, q)'
<1> DEFINE p == q.page
           n == Cardinality(q.before.visitors \cup {RowOf(q)})
           m == Cardinality(VisitorsOf(p))
<1>1. p \in Pages /\ q.before.views \in Nat
  BY DEF ViewReq
<1>2. views[p] \in Nat /\ views'[p] \in Nat /\ views[p] <= views'[p]
  BY <1>1 DEF Grows
<1>3. /\ VisitorsOf(p) \subseteq VisitorsOf(p)'
      /\ m \in Nat /\ m' \in Nat /\ m <= m'
  BY <1>1, VisitorsGrow
<1>4. Grown(q) => Grown(q)'
  BY <1>1, <1>2, <1>3 DEF Grown
<1>5. Counted(q) => Counted(q)'
  BY <1>1, <1>2 DEF Counted
<1>6. ASSUME NEW stats, CountsFit(stats, q) PROVE CountsFit(stats, q)'
  <2>1. stats \in Stats /\ stats.visitors <= stats.views
    BY <1>6 DEF CountsFit
  <2>2. stats.views \in Nat /\ stats.visitors \in Nat
    BY <2>1 DEF Stats
  <2>3. CASE stats = Unread
    BY <2>1, <2>3 DEF CountsFit, Unread
  <2>4. CASE Includes(stats, q)
    <3>1. /\ stats.views \in q.before.views + 1 .. views[p]
          /\ stats.visitors \in n .. m
      BY <2>4 DEF Includes
    <3> HIDE DEF n, m, p
    <3>2. /\ stats.views \in q.before.views + 1 .. views'[p]
          /\ stats.visitors \in n .. m'
      BY <1>1, <1>2, <1>3, <2>2, <3>1
    <3> USE DEF n, m, p
    <3>3. Includes(stats, q)'
      BY <3>2 DEF Includes, RowOf
    <3> QED BY <2>1, <3>3 DEF CountsFit
  <2> QED BY <1>6, <2>3, <2>4 DEF CountsFit
<1> QED BY <1>4, <1>5, <1>6

\* What is true of a waiting request stays true while the counts only grow.
LEMMA OneMoves ==
  ASSUME NEW r \in Requests, \A s \in Requests : RequestOK(s), OthersWait(r),
         RequestOK(r)', Grows
  PROVE  \A s \in Requests : RequestOK(s)'
<1> SUFFICES ASSUME NEW s \in Requests, s # r PROVE RequestOK(s)'
  OBVIOUS
<1>1. /\ pc'[s] = pc[s] /\ req'[s] = req[s] /\ reply'[s] = reply[s]
      /\ data'[s] = data[s] /\ RequestOK(s)
  BY DEF OthersWait
<1>2. Recorded(s) => Recorded(s)'
  BY <1>1 DEF Recorded, Grows, RowOf
<1>3. ListsOwn(s)' = ListsOwn(s)
  BY <1>1 DEF ListsOwn
<1>4. /\ pc[s] \in {"count", "visitor", "stats"} => Grown(req[s])'
      /\ pc[s] \in {"visitor", "stats"} => Counted(req[s])'
      /\ Served(s, "view", "OK") => CountsFit(data[s], req[s])'
  <2>1. ASSUME pc[s] \in {"count", "visitor", "stats"} PROVE req[s] \in ViewReq /\ Grown(req[s])
    BY <1>1, <2>1 DEF RequestOK
  <2>2. ASSUME pc[s] \in {"visitor", "stats"} PROVE Counted(req[s])
    BY <1>1, <2>2 DEF RequestOK
  <2>3. ASSUME Served(s, "view", "OK") PROVE req[s] \in ViewReq /\ CountsFit(data[s], req[s])
    BY <1>1, <2>3 DEF RequestOK
  <2>4. ASSUME NEW q \in ViewReq, q = req[s], NEW stats, stats = data[s]
        PROVE  /\ Grown(req[s]) => Grown(req[s])'
               /\ Counted(req[s]) => Counted(req[s])'
               /\ CountsFit(data[s], req[s]) => CountsFit(data[s], req[s])'
    <3>1. /\ Grown(q) => Grown(q)'
          /\ Counted(q) => Counted(q)'
          /\ CountsFit(stats, q) => CountsFit(stats, q)'
      BY CountsStay
    <3>2. req'[s] = q /\ data'[s] = stats
      BY <1>1, <2>4
    <3>3. Grown(req[s]) => Grown(req[s])'
      BY <2>4, <3>1, <3>2 DEF Grown
    <3>4. Counted(req[s]) => Counted(req[s])'
      BY <2>4, <3>1, <3>2 DEF Counted
    <3>5. CountsFit(data[s], req[s]) => CountsFit(data[s], req[s])'
      BY <2>4, <3>1, <3>2 DEF CountsFit, Includes, RowOf
    <3> QED BY <3>3, <3>4, <3>5
  <2> QED BY <2>1, <2>2, <2>3, <2>4
<1> QED
  BY <1>1, <1>2, <1>3, <1>4 DEF RequestOK, Served, Sets

\* An idle request, and one whose answer promises nothing.
LEMMA IdleOK ==
  ASSUME NEW r \in Requests, pc'[r] = "idle", req'[r] = None
  PROVE  RequestOK(r)'
BY DEF RequestOK, Served, Sets

LEMMA AnsweredOK ==
  ASSUME NEW r \in Requests, RequestOK(r), pc'[r] = "done", req'[r] = req[r],
         reply'[r] # "OK"
  PROVE  RequestOK(r)'
BY DEF RequestOK, Served, Sets

---------------------------------------------------------------------------
(* Reserved when the moving request adds no view and no visitor.           *)

\* Fewer requests between the statements leave the reserve as large.
LEMMA ReserveShrinks ==
  ASSUME TypeOK, Finite, Reserved, UNCHANGED <<views, visitors>>,
         \A p \in Pages : Between(p)' \subseteq Between(p)
  PROVE  Reserved'
<1> SUFFICES ASSUME NEW p \in Pages
             PROVE  Cardinality(VisitorsOf(p)') + Cardinality(Between(p)') <= views'[p]
  BY DEF Reserved
<1>1. VisitorsOf(p)' = VisitorsOf(p) /\ views'[p] = views[p] /\ views[p] \in Nat
  BY DEF VisitorsOf, TypeOK
<1>2. IsFiniteSet(VisitorsOf(p)) /\ IsFiniteSet(Between(p))
  <2>1. VisitorsOf(p) \subseteq visitors
        /\ Between(p) \subseteq {r \in Requests : pc[r] = "visitor"}
    BY DEF VisitorsOf, Between
  <2> QED BY <2>1, FS_Subset DEF Finite
<1>3. /\ Cardinality(VisitorsOf(p)) \in Nat /\ Cardinality(Between(p)) \in Nat
      /\ Cardinality(Between(p)') \in Nat
      /\ Cardinality(Between(p)') <= Cardinality(Between(p))
  BY <1>2, FS_Subset, FS_CardinalityType
<1> QED
  BY <1>1, <1>3 DEF Reserved

\* A request that is not between the statements stays out of the reserve.
LEMMA BetweenShrinks ==
  ASSUME NEW r \in Requests, OthersWait(r), pc'[r] # "visitor"
  PROVE  /\ \A p \in Pages : Between(p)' \subseteq Between(p)
         /\ {s \in Requests : pc[s] = "visitor"}'
              \subseteq {s \in Requests : pc[s] = "visitor"}
BY DEF Between, OthersWait

\* Nothing is drawn, recorded or counted.
LEMMA CountsIdle ==
  ASSUME TypeOK, Finite, Reserved, UNCHANGED <<views, visitors, drawn>>,
         NEW r \in Requests, OthersWait(r), pc'[r] # "visitor"
  PROVE  Finite' /\ Reserved'
<1>1. Reserved'
  BY BetweenShrinks, ReserveShrinks
<1>2. IsFiniteSet({s \in Requests : pc[s] = "visitor"}')
  BY BetweenShrinks, FS_Subset DEF Finite
<1> QED BY <1>1, <1>2 DEF Finite

---------------------------------------------------------------------------
(* The initial states, and one lemma for each group of actions.            *)

\* Nothing is stored, drawn or in flight.
LEMMA InitIInv == Init => IInv
<1> SUFFICES ASSUME Init PROVE IInv
  OBVIOUS
<1>1. TypeOK
  BY AccountAssumption DEF Init, TypeOK
<1>2. {r \in Requests : pc[r] = "visitor"} = {} /\ visitors = {} /\ drawn = {}
  BY DEF Init
<1>3. Finite
  BY <1>2, FS_EmptySet DEF Finite
<1>4. Reserved
  <2> SUFFICES ASSUME NEW p \in Pages
               PROVE  Cardinality(VisitorsOf(p)) + Cardinality(Between(p)) <= views[p]
    BY DEF Reserved
  <2>1. VisitorsOf(p) = {} /\ Between(p) = {} /\ views[p] = 0
    BY <1>2 DEF VisitorsOf, Between, Init
  <2>2. Cardinality({}) = 0
    BY FS_EmptySet
  <2> QED BY <2>1, <2>2
<1>5. \A r \in Requests : RequestOK(r)
  BY DEF Init, RequestOK, Served
<1> QED BY <1>1, <1>3, <1>4, <1>5 DEF IInv

\* A step that changes neither table of the counts.
LEMMA StillGrows ==
  ASSUME IInv, UNCHANGED <<views, visitors>>
  PROVE  Grows
BY DEF IInv, TypeOK, Finite, Grows

\* A statement that changes no count and no visitor and answers.
LEMMA AnswerIInv ==
  ASSUME IInv, NEW r \in Requests, NEW status \in Status \ {"OK"}, Answer(r, status),
         UNCHANGED <<views, visitors, browsers>>,
         bookmarks' \subseteq Users \X Pages, notes' \subseteq Note,
         spent' \subseteq NoteIds
  PROVE  IInv'
<1>1. LocalTypeOK
  BY DEF IInv, TypeOK, LocalTypeOK
<1>2. LocalTypeOK' /\ OthersWait(r) /\ pc'[r] = "done" /\ req' = req /\ reply'[r] = status
  BY <1>1, SayMoves DEF Answer
<1>3. RequestOK(r)'
  BY <1>2, AnsweredOK DEF IInv
<1>4. \A s \in Requests : RequestOK(s)'
  BY <1>2, <1>3, StillGrows, OneMoves DEF IInv
<1>5. Finite' /\ Reserved'
  BY <1>2, CountsIdle DEF IInv, browsers
<1> QED
  BY <1>2, <1>4, <1>5 DEF IInv, TypeOK, LocalTypeOK, browsers

\* Accepting a request; only a view may have drawn a visitor id for it.
LEMMA AcceptIInv ==
  ASSUME IInv, NEW r \in Requests, NEW stmt \in Statements \ {"visitor", "stats"},
         NEW q \in Request, Accept(r, q, stmt), UNCHANGED <<tables, login, cookie>>,
         drawn' \subseteq AnonId, IsFiniteSet(drawn'),
         \/ /\ stmt = "count" /\ q \in ViewReq /\ (q.new => q.vid \in AnonId)
            /\ Grown(q)
         \/ stmt \in {"toggle", "untoggle"} /\ q \in BookmarkReq
         \/ stmt = "note" /\ q \in NoteReq
         \/ stmt = "unnote" /\ q \in UnnoteReq
         \/ stmt = "notes" /\ q \in NotesReq
  PROVE  IInv'
<1>1. LocalTypeOK
  BY DEF IInv, TypeOK, LocalTypeOK
<1>2. LocalTypeOK' /\ OthersWait(r) /\ pc'[r] = stmt /\ req'[r] = q
  BY <1>1, AcceptMoves
<1>3. RequestOK(r)'
  <2>1. Sets(r)' => q.vid \in AnonId
    BY <1>2 DEF Sets, BookmarkReq, NoteReq, UnnoteReq, NotesReq
  <2>2. stmt = "count" => Grown(req[r])'
    BY <1>2 DEF Grown, VisitorsOf, tables
  <2> QED
    BY <1>2, <2>1, <2>2 DEF RequestOK, Served
<1>4. \A s \in Requests : RequestOK(s)'
  BY <1>2, <1>3, StillGrows, OneMoves DEF IInv, tables
<1>5. Reserved'
  BY <1>2, BetweenShrinks, ReserveShrinks DEF IInv, tables
<1>6. Finite'
  <2>1. IsFiniteSet({s \in Requests : pc[s] = "visitor"}')
    BY <1>2, BetweenShrinks, FS_Subset DEF IInv, Finite
  <2> QED BY <2>1 DEF IInv, Finite, tables
<1> QED
  BY <1>2, <1>4, <1>5, <1>6 DEF IInv, TypeOK, LocalTypeOK, tables

\* A request answered without a statement: refused, or an empty list.
LEMMA ReplyIInv ==
  ASSUME IInv, NEW r \in Requests, NEW q \in NotesReq \cup {None}, NEW status \in Status,
         NEW what \in Listing \cup {None}, Reply(r, q, status, what),
         q # None => what = [notes |-> {}],
         UNCHANGED <<tables, browsers>>
  PROVE  IInv'
<1>1. LocalTypeOK
  BY DEF IInv, TypeOK, LocalTypeOK
<1>2. /\ LocalTypeOK' /\ OthersWait(r) /\ pc'[r] = "done" /\ req'[r] = q
      /\ reply'[r] = status /\ data'[r] = what
  BY <1>1, ReplyMoves DEF Request
<1>3. RequestOK(r)'
  BY <1>2 DEF RequestOK, Served, Sets, ListsOwn, NotesReq, Listing
<1>4. \A s \in Requests : RequestOK(s)'
  BY <1>2, <1>3, StillGrows, OneMoves DEF IInv, tables
<1>5. Finite' /\ Reserved'
  BY <1>2, CountsIdle DEF IInv, tables, browsers
<1> QED
  BY <1>2, <1>4, <1>5 DEF IInv, TypeOK, LocalTypeOK, tables, browsers

\* A fresh visitor id is a new one of its browser's.
LEMMA FreshTyped ==
  ASSUME IInv, NEW b \in Browsers
  PROVE  Fresh(b) \in AnonId /\ IsFiniteSet(drawn \cup {Fresh(b)})
<1>1. {v \in drawn : v.browser = b} \subseteq drawn
  OBVIOUS
<1>2. Cardinality({v \in drawn : v.browser = b}) \in Nat
  BY <1>1, FS_Subset, FS_CardinalityType DEF IInv, Finite
<1> QED
  BY <1>2, FS_AddElement DEF Fresh, AnonId, IInv, Finite

\* A call is accepted with what its browser holds, or refused.
LEMMA CallIInv ==
  ASSUME IInv, NEW r \in Requests, NEW b \in Browsers, Call(r, b)
  PROVE  IInv'
<1>1. login[b] # None => login[b] \in Users
  BY DEF IInv, TypeOK
<1>2. drawn \subseteq AnonId /\ IsFiniteSet(drawn)
  BY DEF IInv, TypeOK, Finite
<1>3. CASE NoUser(r, b) \/ Malformed(r)
  <2>1. \E status \in Status : Reply(r, None, status, None) /\ UNCHANGED <<tables, browsers>>
    BY <1>3 DEF NoUser, Malformed, Refuse, Status
  <2> QED BY <2>1, ReplyIInv
<1>4. ASSUME NEW page \in Pages, View(r, b, page) PROVE IInv'
  <2> DEFINE q == [op |-> "view", browser |-> b, page |-> page,
                   vid |-> VisitorID(b), new |-> Unknown(b),
                   before |-> [views |-> views[page], visitors |-> VisitorsOf(page)]]
  <2>1. VisitorID(b) \in Visitor /\ (Unknown(b) => VisitorID(b) \in AnonId)
    BY <1>1, FreshTyped DEF VisitorID, Unknown, Visitor, IInv, TypeOK
  <2>2. q \in ViewReq /\ (q.new => q.vid \in AnonId) /\ Grown(q)
    <3>1. views[page] \in Nat /\ VisitorsOf(page) \in SUBSET Rows
      BY DEF IInv, TypeOK, VisitorsOf
    <3>2. q \in ViewReq /\ (q.new => q.vid \in AnonId)
      BY <2>1, <3>1 DEF ViewReq, Unknown
    <3>3. Grown(q)
      BY <3>1 DEF Grown
    <3> QED BY <3>2, <3>3
  <2>3. drawn' \subseteq AnonId /\ IsFiniteSet(drawn')
    BY <1>2, <1>4, FreshTyped DEF View
  <2>4. Accept(r, q, "count") /\ UNCHANGED <<tables, login, cookie>>
    BY <1>4 DEF View
  <2> HIDE DEF q
  <2> QED BY <2>2, <2>3, <2>4, AcceptIInv DEF Statements, Request
<1>5. ASSUME NEW page \in Pages, Bookmark(r, b, page) PROVE IInv'
  <2>1. [op |-> "bookmark", browser |-> b, user |-> login[b], page |-> page] \in BookmarkReq
    BY <1>1, <1>5 DEF Bookmark, BookmarkReq
  <2> QED
    BY <1>2, <1>5, <2>1, AcceptIInv DEF Bookmark, Statements, Request, browsers
<1>6. ASSUME NEW page \in Pages, WriteNote(r, b, page) PROVE IInv'
  <2>1. [op |-> "note", browser |-> b, user |-> login[b], page |-> page] \in NoteReq
    BY <1>1, <1>6 DEF WriteNote, NoteReq
  <2> QED
    BY <1>2, <1>6, <2>1, AcceptIInv DEF WriteNote, Statements, Request, browsers
<1>7. ASSUME NEW page \in Pages, ReadNotes(r, b, page) PROVE IInv'
  <2>1. [op |-> "notes", browser |-> b, user |-> login[b], page |-> page] \in NotesReq
    BY <1>1, <1>7 DEF ReadNotes, NotesReq
  <2> QED
    BY <1>2, <1>7, <2>1, AcceptIInv DEF ReadNotes, Statements, Request, browsers
<1>8. ASSUME NEW page \in Pages, ReadNoNotes(r, b, page) PROVE IInv'
  <2> DEFINE q == [op |-> "notes", browser |-> b, user |-> None, page |-> page]
  <2>1. q \in NotesReq /\ [notes |-> {}] \in Listing /\ "OK" \in Status
    BY DEF NotesReq, Listing, Status
  <2>2. Reply(r, q, "OK", [notes |-> {}]) /\ UNCHANGED <<tables, browsers>>
    BY <1>8 DEF ReadNoNotes
  <2> HIDE DEF q
  <2> QED BY <2>1, <2>2, ReplyIInv
<1>9. ASSUME NEW i \in NoteIds, EraseNote(r, b, i) PROVE IInv'
  <2>1. [op |-> "unnote", browser |-> b, user |-> login[b], id |-> i] \in UnnoteReq
    BY <1>1, <1>9 DEF EraseNote, UnnoteReq
  <2> QED
    BY <1>2, <1>9, <2>1, AcceptIInv DEF EraseNote, Statements, Request, browsers
<1> QED
  BY <1>3, <1>4, <1>5, <1>6, <1>7, <1>9, <1>8 DEF Call

\* One element more is at most one more to count.
LEMMA AddsOne ==
  ASSUME NEW S, NEW x, IsFiniteSet(S)
  PROVE  IsFiniteSet(S \cup {x}) /\ Cardinality(S \cup {x}) <= Cardinality(S) + 1
<1>1. Cardinality(S) \in Nat
  BY FS_CardinalityType
<1>2. /\ IsFiniteSet(S \cup {x})
      /\ Cardinality(S \cup {x}) = IF x \in S THEN Cardinality(S) ELSE Cardinality(S) + 1
  BY FS_AddElement
<1> QED BY <1>1, <1>2

\* A page counted once more holds one reader more in reserve at most.
LEMMA CountReserves ==
  ASSUME IInv, NEW r \in Requests, CountView(r)
  PROVE  Reserved'
<1> SUFFICES ASSUME NEW p \in Pages
             PROVE  Cardinality(VisitorsOf(p)') + Cardinality(Between(p)') <= views'[p]
  BY DEF Reserved
<1> DEFINE V == Cardinality(VisitorsOf(p))
           B == Cardinality(Between(p))
<1>1. pc[r] = "count" /\ req[r].page \in Pages
  BY DEF CountView, IInv, RequestOK, ViewReq
<1>2. VisitorsOf(p)' = VisitorsOf(p)
      /\ views'[p] = IF req[r].page = p THEN views[p] + 1 ELSE views[p]
  BY <1>1 DEF CountView, VisitorsOf, IInv, TypeOK
<1>3. Between(p)' \subseteq IF req[r].page = p THEN Between(p) \cup {r} ELSE Between(p)
  BY DEF CountView, Goto, Answer, Say, Between, IInv, TypeOK
<1>4. IsFiniteSet(VisitorsOf(p)) /\ IsFiniteSet(Between(p))
  <2>1. VisitorsOf(p) \subseteq visitors
        /\ Between(p) \subseteq {s \in Requests : pc[s] = "visitor"}
    BY DEF VisitorsOf, Between
  <2> QED BY <2>1, FS_Subset DEF IInv, Finite
<1>5. V \in Nat /\ B \in Nat /\ views[p] \in Nat /\ V + B <= views[p]
  BY <1>4, FS_CardinalityType DEF IInv, TypeOK, Reserved
<1>6. CASE req[r].page = p
  <2>1. IsFiniteSet(Between(p) \cup {r}) /\ Cardinality(Between(p) \cup {r}) <= B + 1
    BY <1>4, AddsOne
  <2>2. Cardinality(Between(p)') <= B + 1 /\ Cardinality(Between(p)') \in Nat
    <3>1. Between(p)' \subseteq Between(p) \cup {r}
      BY <1>3, <1>6
    <3> QED BY <1>5, <2>1, <3>1, FS_Subset, FS_CardinalityType
  <2> QED BY <1>2, <1>5, <1>6, <2>2
<1>7. CASE req[r].page # p
  <2>1. Cardinality(Between(p)') <= B /\ Cardinality(Between(p)') \in Nat
    <3>1. Between(p)' \subseteq Between(p)
      BY <1>3, <1>7
    <3> QED BY <1>4, <3>1, FS_Subset, FS_CardinalityType
  <2> QED BY <1>2, <1>5, <1>7, <2>1
<1> QED BY <1>6, <1>7

\* The view counted first.
LEMMA CountIInv ==
  ASSUME IInv, NEW r \in Requests, CountView(r)
  PROVE  IInv'
<1>1. LocalTypeOK
  BY DEF IInv, TypeOK, LocalTypeOK
<1>2. pc[r] = "count" /\ req[r] \in ViewReq
  BY DEF CountView, IInv, RequestOK
<1>3. Goto(r, "visitor") \/ Answer(r, "ServerError")
  BY DEF CountView
<1>4. Grows
  BY <1>2, FS_CardinalityType DEF CountView, Grows, ViewReq, IInv, TypeOK, Finite
<1>5. Grown(req[r]) /\ req[r].before.views \in Nat /\ req[r].page \in Pages
  BY <1>2 DEF IInv, RequestOK, ViewReq
<1>6. (Grown(req[r])' /\ Counted(req[r])') \/ req'[r] # req[r]
  <2>1. views[req[r].page] \in Nat
    BY <1>5 DEF IInv, TypeOK
  <2>2. req'[r] = req[r] =>
          /\ views'[req'[r].page] = views[req[r].page] + 1
          /\ VisitorsOf(req[r].page)' = VisitorsOf(req[r].page)
    BY <1>5 DEF CountView, VisitorsOf, IInv, TypeOK
  <2> QED BY <1>5, <2>1, <2>2 DEF Grown, Counted
<1>7. LocalTypeOK' /\ OthersWait(r) /\ RequestOK(r)'
  <2>1. CASE Goto(r, "visitor")
    <3>1. LocalTypeOK' /\ OthersWait(r) /\ pc'[r] = "visitor" /\ req' = req
      BY <1>1, <2>1, GotoMoves DEF Statements
    <3> QED BY <1>2, <1>6, <3>1 DEF RequestOK, Served, Sets, IInv
  <2>2. CASE Answer(r, "ServerError")
    <3>1. /\ LocalTypeOK' /\ OthersWait(r) /\ pc'[r] = "done"
          /\ req' = req /\ reply'[r] = "ServerError"
      BY <1>1, <2>2, SayMoves DEF Answer, Status
    <3> QED BY <3>1, AnsweredOK DEF IInv
  <2> QED BY <1>3, <2>1, <2>2
<1>8. /\ views' \in [Pages -> Nat]
      /\ UNCHANGED <<bookmarks, notes, spent, visitors, browsers>>
  <2>1. req[r].page \in Pages /\ views \in [Pages -> Nat]
    BY <1>2 DEF ViewReq, IInv, TypeOK
  <2>2. views' = [views EXCEPT ![req[r].page] = @ + 1]
    BY DEF CountView
  <2>3. views' \in [Pages -> Nat]
    BY <2>1, <2>2
  <2> QED BY <2>3 DEF CountView
<1>9. \A s \in Requests : RequestOK(s)'
  BY <1>7, <1>4, OneMoves DEF IInv
<1>10. Finite'
  <2> DEFINE B == {s \in Requests : pc[s] = "visitor"}
  <2>1. B' \subseteq B \cup {r}
    BY <1>7 DEF OthersWait
  <2>2. IsFiniteSet(B \cup {r})
    BY FS_AddElement DEF IInv, Finite
  <2> HIDE DEF B
  <2>3. IsFiniteSet(B')
    BY <2>1, <2>2, FS_Subset
  <2> QED BY <1>8, <2>3 DEF B, IInv, Finite, browsers
<1> QED
  BY <1>7, <1>8, <1>9, <1>10, CountReserves DEF IInv, TypeOK, LocalTypeOK, browsers

\* The visitor takes the place that its request held in reserve.
LEMMA VisitorReserves ==
  ASSUME IInv, NEW r \in Requests, AddVisitor(r)
  PROVE  Reserved'
<1> SUFFICES ASSUME NEW p \in Pages
             PROVE  Cardinality(VisitorsOf(p)') + Cardinality(Between(p)') <= views'[p]
  BY DEF Reserved
<1> DEFINE V == Cardinality(VisitorsOf(p))
           B == Cardinality(Between(p))
           v == <<req[r].page, req[r].vid>>
<1>1. pc[r] = "visitor" /\ req[r].page \in Pages
  BY DEF AddVisitor, IInv, RequestOK, ViewReq
<1>2. views'[p] = views[p] /\ visitors' = visitors \cup {v}
  BY DEF AddVisitor
<1>3. Between(p)' = Between(p) \ {r}
  BY DEF AddVisitor, Goto, Answer, Say, Between, IInv, TypeOK
<1>4. IsFiniteSet(VisitorsOf(p)) /\ IsFiniteSet(Between(p))
  <2>1. VisitorsOf(p) \subseteq visitors
        /\ Between(p) \subseteq {s \in Requests : pc[s] = "visitor"}
    BY DEF VisitorsOf, Between
  <2> QED BY <2>1, FS_Subset DEF IInv, Finite
<1>5. V \in Nat /\ B \in Nat /\ views[p] \in Nat /\ V + B <= views[p]
  BY <1>4, FS_CardinalityType DEF IInv, TypeOK, Reserved
<1>6. CASE req[r].page = p
  <2>1. r \in Between(p)
    BY <1>1, <1>6 DEF Between
  <2>2. Cardinality(Between(p) \ {r}) = B - 1
    BY <1>4, <2>1, FS_RemoveElement, Zenon
  <2>3. VisitorsOf(p)' \subseteq VisitorsOf(p) \cup {v}
    BY <1>2 DEF VisitorsOf
  <2>4. IsFiniteSet(VisitorsOf(p) \cup {v}) /\ Cardinality(VisitorsOf(p) \cup {v}) <= V + 1
    BY <1>4, AddsOne
  <2>5. Cardinality(VisitorsOf(p)') <= V + 1 /\ Cardinality(VisitorsOf(p)') \in Nat
    BY <1>5, <2>3, <2>4, FS_Subset, FS_CardinalityType
  <2> QED BY <1>2, <1>3, <1>5, <2>2, <2>5
<1>7. CASE req[r].page # p
  <2>1. VisitorsOf(p)' = VisitorsOf(p)
    BY <1>2, <1>7 DEF VisitorsOf
  <2>2. Between(p)' = Between(p)
    BY <1>3, <1>7 DEF Between
  <2> QED BY <1>2, <1>5, <2>1, <2>2
<1> QED BY <1>6, <1>7

\* The visitor added second.
LEMMA VisitorIInv ==
  ASSUME IInv, NEW r \in Requests, AddVisitor(r)
  PROVE  IInv'
<1>1. LocalTypeOK
  BY DEF IInv, TypeOK, LocalTypeOK
<1>2. pc[r] = "visitor" /\ req[r] \in ViewReq
  BY DEF AddVisitor, IInv, RequestOK
<1>3. Goto(r, "stats") \/ Answer(r, "ServerError")
  BY DEF AddVisitor
<1>4. /\ visitors' = visitors \cup {<<req[r].page, req[r].vid>>}
      /\ UNCHANGED <<bookmarks, notes, spent, views, browsers>>
      /\ <<req[r].page, req[r].vid>> \in Rows
  BY <1>2 DEF AddVisitor, ViewReq, Rows
<1>5. Grows
  <2>1. IsFiniteSet(visitors) /\ views \in [Pages -> Nat]
    BY DEF IInv, TypeOK, Finite
  <2>2. IsFiniteSet(visitors \cup {<<req[r].page, req[r].vid>>})
    BY <2>1, FS_AddElement, Zenon
  <2>3. visitors \subseteq visitors' /\ IsFiniteSet(visitors')
    BY <1>4, <2>2, Zenon
  <2> QED BY <1>4, <2>1, <2>3 DEF Grows
<1>6. (Grown(req[r])' /\ Counted(req[r])') \/ req'[r] # req[r]
  <2>1. Grown(req[r]) /\ Counted(req[r])
    BY <1>2 DEF IInv, RequestOK
  <2>2. ASSUME NEW q \in ViewReq, q = req[r], req'[r] = req[r]
        PROVE  Grown(req[r])' /\ Counted(req[r])'
    <3>1. Grown(q)' /\ Counted(q)'
      BY <1>5, <2>1, <2>2, CountsStay
    <3> QED BY <2>2, <3>1 DEF Grown, Counted
  <2> QED BY <1>2, <2>2
<1>7. LocalTypeOK' /\ OthersWait(r) /\ pc'[r] # "visitor" /\ RequestOK(r)'
  <2>1. CASE Goto(r, "stats")
    <3>1. LocalTypeOK' /\ OthersWait(r) /\ pc'[r] = "stats" /\ req' = req
      BY <1>1, <2>1, GotoMoves DEF Statements
    <3> QED BY <1>2, <1>4, <1>6, <3>1 DEF RequestOK, Served, Sets, Recorded, RowOf, IInv
  <2>2. CASE Answer(r, "ServerError")
    <3>1. /\ LocalTypeOK' /\ OthersWait(r) /\ pc'[r] = "done"
          /\ req' = req /\ reply'[r] = "ServerError"
      BY <1>1, <2>2, SayMoves DEF Answer, Status
    <3> QED BY <3>1, AnsweredOK DEF IInv
  <2> QED BY <1>3, <2>1, <2>2
<1>8. \A s \in Requests : RequestOK(s)'
  BY <1>7, <1>5, OneMoves DEF IInv
<1>9. Finite'
  <2>1. IsFiniteSet({s \in Requests : pc[s] = "visitor"}')
    BY <1>7, BetweenShrinks, FS_Subset DEF IInv, Finite
  <2>2. IsFiniteSet(visitors')
    BY <1>4, FS_AddElement DEF IInv, Finite
  <2> QED BY <1>4, <2>1, <2>2 DEF IInv, Finite, browsers
<1>10. visitors' \subseteq Rows
  BY <1>4 DEF IInv, TypeOK
<1> QED
  BY <1>4, <1>7, <1>8, <1>9, <1>10, VisitorReserves
     DEF IInv, TypeOK, LocalTypeOK, browsers

\* The statistics of a page whose visitor was recorded count what the view
\* found, the view and the visitor.
LEMMA StatsFit ==
  ASSUME IInv, NEW r \in Requests, pc[r] = "stats"
  PROVE  CountsFit(PageStats(req[r].page), req[r]) /\ CountsFit(Unread, req[r])
<1> DEFINE p == req[r].page
           own == req[r].before.visitors \cup {RowOf(req[r])}
<1>1. /\ p \in Pages /\ req[r].before.views \in Nat
      /\ Grown(req[r]) /\ Counted(req[r]) /\ RowOf(req[r]) \in visitors
  BY DEF IInv, RequestOK, Recorded, ViewReq
<1>2. /\ IsFiniteSet(VisitorsOf(p)) /\ IsFiniteSet(Between(p))
      /\ own \subseteq VisitorsOf(p)
  <2>1. VisitorsOf(p) \subseteq visitors
        /\ Between(p) \subseteq {s \in Requests : pc[s] = "visitor"}
    BY DEF VisitorsOf, Between
  <2>2. own \subseteq VisitorsOf(p)
    BY <1>1 DEF VisitorsOf, Grown, RowOf
  <2> QED BY <2>1, <2>2, FS_Subset DEF IInv, Finite
<1>3. /\ Cardinality(VisitorsOf(p)) \in Nat /\ Cardinality(own) \in Nat
      /\ Cardinality(own) <= Cardinality(VisitorsOf(p))
      /\ Cardinality(Between(p)) \in Nat
  BY <1>2, FS_Subset, FS_CardinalityType
<1>4. views[p] \in Nat
      /\ Cardinality(VisitorsOf(p)) + Cardinality(Between(p)) <= views[p]
  BY <1>1 DEF IInv, TypeOK, Reserved
<1>5. CountsFit(PageStats(p), req[r])
  <2>1. req[r].before.views + 1 <= views[p]
    BY <1>1 DEF Counted
  <2>2. /\ req[r].before.views + 1 .. views[p] = req[r].before.views + 1 .. views[req[r].page]
        /\ Cardinality(own) = Cardinality(req[r].before.visitors \cup {RowOf(req[r])})
    OBVIOUS
  <2>3. PageStats(p).visitors = Cardinality(VisitorsOf(p)) /\ PageStats(p).views = views[p]
        /\ PageStats(p) \in Stats
    BY <1>3, <1>4 DEF PageStats, Stats
  <2>4. /\ views[p] \in req[r].before.views + 1 .. views[p]
        /\ Cardinality(VisitorsOf(p)) \in Cardinality(own) .. Cardinality(VisitorsOf(p))
    <3> HIDE DEF p, own
    <3> QED BY <1>1, <1>3, <1>4, <2>1
  <2>5. Includes(PageStats(p), req[r])
    BY <2>3, <2>4 DEF Includes
  <2>6. PageStats(p).visitors <= PageStats(p).views
    <3> HIDE DEF p
    <3> QED BY <1>3, <1>4, <2>3
  <2> QED BY <2>3, <2>5, <2>6 DEF CountsFit
<1>6. CountsFit(Unread, req[r])
  BY DEF CountsFit, Unread, Stats
<1> QED BY <1>5, <1>6

\* Answers that carry data.
LEMMA ReadIInv ==
  ASSUME IInv, NEW r \in Requests, ReadStats(r) \/ ListNotes(r)
  PROVE  IInv'
<1>1. LocalTypeOK
  BY DEF IInv, TypeOK, LocalTypeOK
<1>2. PICK what \in Stats \cup Listing :
        /\ Say(r, "OK", what) /\ UNCHANGED <<tables, browsers>>
        /\ \/ req[r] \in ViewReq /\ Recorded(r) /\ CountsFit(what, req[r])
           \/ /\ req[r] \in NotesReq /\ what \in Listing
              /\ \A n \in what.notes : n.owner = req[r].user
  <2>1. CASE ReadStats(r)
    <3>1. pc[r] = "stats" /\ req[r] \in ViewReq /\ Recorded(r)
      BY <2>1 DEF ReadStats, IInv, RequestOK
    <3>2. CountsFit(PageStats(req[r].page), req[r]) /\ CountsFit(Unread, req[r])
      BY <3>1, StatsFit
    <3>3. PageStats(req[r].page) \in Stats /\ Unread \in Stats
      BY <3>2 DEF CountsFit
    <3> QED BY <2>1, <3>1, <3>2, <3>3 DEF ReadStats
  <2>2. CASE ListNotes(r)
    <3>1. [notes |-> NotesFor(req[r])] \in Listing
      BY DEF NotesFor, Listing, IInv, TypeOK
    <3>2. req[r] \in NotesReq
      BY <2>2 DEF ListNotes, IInv, RequestOK
    <3>3. \A n \in NotesFor(req[r]) : n.owner = req[r].user
      BY DEF NotesFor
    <3> QED BY <2>2, <3>1, <3>2, <3>3 DEF ListNotes
  <2> QED BY <2>1, <2>2
<1>3. /\ LocalTypeOK' /\ OthersWait(r) /\ pc'[r] = "done" /\ req' = req
      /\ reply'[r] = "OK" /\ data'[r] = what
  BY <1>1, <1>2, SayMoves DEF Status
<1>4. RequestOK(r)'
  <2>1. req'[r] # None /\ Sets(r)' => req'[r].vid \in AnonId
    BY <1>3 DEF Sets, IInv, RequestOK
  <2>2. Served(r, "view", "OK")' =>
          req'[r] \in ViewReq /\ Recorded(r)' /\ CountsFit(data[r], req[r])'
    <3>1. Served(r, "view", "OK")' =>
            req[r] \in ViewReq /\ Recorded(r) /\ CountsFit(what, req[r])
      BY <1>2, <1>3 DEF Served, NotesReq
    <3>2. UNCHANGED <<views, visitors>> /\ req'[r] = req[r] /\ data'[r] = what
      BY <1>2, <1>3 DEF tables
    <3>3. Recorded(r) => Recorded(r)'
      BY <3>2 DEF Recorded, RowOf
    <3>4. CountsFit(what, req[r]) => CountsFit(data[r], req[r])'
      BY <3>2 DEF CountsFit, Includes, RowOf, VisitorsOf
    <3> QED BY <3>1, <3>2, <3>3, <3>4
  <2>3. Served(r, "notes", "OK")' => ListsOwn(r)'
    BY <1>2, <1>3 DEF Served, ListsOwn, ViewReq, NotesReq
  <2> QED BY <1>3, <2>1, <2>2, <2>3 DEF RequestOK
<1>5. \A s \in Requests : RequestOK(s)'
  BY <1>2, <1>3, <1>4, StillGrows, OneMoves DEF IInv, tables
<1>6. Finite' /\ Reserved'
  BY <1>2, <1>3, CountsIdle DEF IInv, tables, browsers
<1> QED
  BY <1>2, <1>3, <1>5, <1>6 DEF IInv, TypeOK, LocalTypeOK, tables, browsers

\* Bookmarks, notes and statements that fail.
LEMMA RecordIInv ==
  ASSUME IInv, NEW r \in Requests,
         \/ ToggleOn(r) \/ ToggleOff(r) \/ CreateNote(r) \/ DeleteNote(r)
         \/ StatementFails(r)
  PROVE  IInv'
<1>1. bookmarks \subseteq Users \X Pages /\ notes \subseteq Note /\ spent \subseteq NoteIds
  BY DEF IInv, TypeOK
<1>2. CASE StatementFails(r)
  BY <1>1, <1>2, AnswerIInv DEF StatementFails, Status, tables
<1>3. CASE ToggleOn(r)
  <2>1. pc[r] = "toggle" /\ req[r] \in BookmarkReq /\ Key(req[r]) \in Users \X Pages
    BY <1>3 DEF ToggleOn, IInv, RequestOK, BookmarkReq, Key
  <2>2. CASE Key(req[r]) \notin bookmarks
    <3>1. bookmarks' \subseteq Users \X Pages
      BY <1>1, <1>3, <2>1, <2>2 DEF ToggleOn
    <3>2. \E status \in Status \ {"OK"} : Answer(r, status)
      BY <1>3, <2>2 DEF ToggleOn, Outcome, Status
    <3> QED BY <1>1, <1>3, <3>1, <3>2, AnswerIInv DEF ToggleOn
  <2>3. CASE Key(req[r]) \in bookmarks
    <3>1. LocalTypeOK
      BY DEF IInv, TypeOK, LocalTypeOK
    <3>2. Goto(r, "untoggle") /\ UNCHANGED <<tables, browsers>>
      BY <1>3, <2>3 DEF ToggleOn, tables
    <3>3. LocalTypeOK' /\ OthersWait(r) /\ pc'[r] = "untoggle" /\ req' = req
      BY <3>1, <3>2, GotoMoves DEF Statements
    <3>4. RequestOK(r)'
      BY <2>1, <3>3 DEF RequestOK, Served, Sets, BookmarkReq
    <3>5. \A s \in Requests : RequestOK(s)'
      BY <3>2, <3>3, <3>4, StillGrows, OneMoves DEF IInv, tables
    <3>6. Finite' /\ Reserved'
      BY <3>2, <3>3, CountsIdle DEF IInv, tables, browsers
    <3> QED
      BY <3>2, <3>3, <3>5, <3>6 DEF IInv, TypeOK, LocalTypeOK, tables, browsers
  <2> QED BY <2>2, <2>3
<1>4. CASE ToggleOff(r)
  <2>1. \E status \in Status \ {"OK"} : Answer(r, status)
    BY <1>4 DEF ToggleOff, Outcome, Status
  <2> QED BY <1>1, <1>4, <2>1, AnswerIInv DEF ToggleOff
<1>5. CASE CreateNote(r)
  <2>1. req[r] \in NoteReq
    BY <1>5 DEF CreateNote, IInv, RequestOK
  <2>2. notes' \subseteq Note /\ spent' \subseteq NoteIds
        /\ \E status \in Status \ {"OK"} : Answer(r, status)
    BY <1>1, <1>5, <2>1 DEF CreateNote, Outcome, Status, Note, NoteReq
  <2> QED BY <1>1, <1>5, <2>2, AnswerIInv DEF CreateNote
<1>6. CASE DeleteNote(r)
  <2>1. notes' \subseteq Note /\ \E status \in Status \ {"OK"} : Answer(r, status)
    BY <1>1, <1>6 DEF DeleteNote, Outcome, Status
  <2> QED BY <1>1, <1>6, <2>1, AnswerIInv DEF DeleteNote
<1> QED BY <1>2, <1>3, <1>4, <1>5, <1>6

\* An answer that reaches its browser, with the cookie it sets, or is lost.
LEMMA FreeIInv ==
  ASSUME IInv, NEW r \in Requests, Deliver(r) \/ Lose(r)
  PROVE  IInv'
<1>1. LocalTypeOK
  BY DEF IInv, TypeOK, LocalTypeOK
<1>2. Free(r) /\ UNCHANGED <<tables, drawn, login>>
  BY DEF Deliver, Lose, browsers
<1>3. LocalTypeOK' /\ OthersWait(r) /\ pc'[r] = "idle" /\ req'[r] = None
  BY <1>1, <1>2, FreeMoves
<1>4. cookie' \in [Browsers -> AnonId \cup {None}]
  BY DEF Deliver, Lose, IInv, TypeOK, RequestOK, browsers
<1>5. \A s \in Requests : RequestOK(s)'
  BY <1>2, <1>3, IdleOK, StillGrows, OneMoves DEF IInv, tables
<1>6. Finite' /\ Reserved'
  BY <1>2, <1>3, CountsIdle DEF IInv, tables
<1> QED
  BY <1>2, <1>3, <1>4, <1>5, <1>6 DEF IInv, TypeOK, LocalTypeOK, tables

\* A reader logs in or out, or nothing happens; requests keep whom they began as.
LEMMA SessionIInv ==
  ASSUME IInv, \/ \E b \in Browsers : LogOut(b) \/ \E u \in Users : LogIn(b, u)
               \/ UNCHANGED vars
  PROVE  IInv'
<1>1. UNCHANGED <<tables, local, drawn, cookie>>
      /\ login' \in [Browsers -> Users \cup {None}]
  BY DEF LogIn, LogOut, vars, browsers, IInv, TypeOK
<1>2. \A r \in Requests : RequestOK(r)'
  <2> SUFFICES ASSUME NEW r \in Requests PROVE RequestOK(r)'
    OBVIOUS
  <2>1. RequestOK(r) /\ UNCHANGED <<views, visitors, pc, req, reply, data>>
    BY <1>1 DEF IInv, tables, local
  <2>2. /\ Recorded(r)' = Recorded(r) /\ ListsOwn(r)' = ListsOwn(r)
        /\ CountsFit(data[r], req[r])' = CountsFit(data[r], req[r])
        /\ Grown(req[r])' = Grown(req[r]) /\ Counted(req[r])' = Counted(req[r])
    BY <2>1 DEF Recorded, ListsOwn, CountsFit, Includes, RowOf, VisitorsOf, Grown, Counted
  <2> QED BY <2>1, <2>2 DEF RequestOK, Served, Sets
<1>3. Finite' /\ Reserved'
  BY <1>1 DEF IInv, Finite, Reserved, VisitorsOf, Between, tables, local
<1> QED
  BY <1>1, <1>2, <1>3 DEF IInv, TypeOK, tables, local

\* Every step of the account routes preserves the inductive invariant.
LEMMA NextIInv == IInv /\ [Next]_vars => IInv'
BY CallIInv, CountIInv, VisitorIInv, ReadIInv, RecordIInv, FreeIInv, SessionIInv
   DEF Next, Step

THEOREM Invariance == Spec => []IInv
BY InitIInv, NextIInv, PTL DEF Spec

---------------------------------------------------------------------------
(* Tables, cookies and requests keep their types: no statement lacks a     *)
(* field it binds, and no cookie holds anything but an anonymous id.       *)
THEOREM TypeCorrect == Spec => []TypeOK
<1>1. IInv => TypeOK
  BY DEF IInv
<1> QED BY <1>1, Invariance, PTL

(* Whatever fails and however views interleave, a page never has more      *)
(* distinct readers than views, in its tables and in every answer.         *)
THEOREM VisitorsStayWithinViews == Spec => []VisitorsWithinViews
<1>1. ASSUME IInv PROVE VisitorsWithinViews
  <2>1. ASSUME NEW p \in Pages PROVE Cardinality(VisitorsOf(p)) <= views[p]
    <3>1. IsFiniteSet(VisitorsOf(p)) /\ IsFiniteSet(Between(p))
      <4>1. VisitorsOf(p) \subseteq visitors
            /\ Between(p) \subseteq {s \in Requests : pc[s] = "visitor"}
        BY DEF VisitorsOf, Between
      <4> QED BY <1>1, <4>1, FS_Subset DEF IInv, Finite
    <3>2. Cardinality(VisitorsOf(p)) \in Nat /\ Cardinality(Between(p)) \in Nat
      BY <3>1, FS_CardinalityType
    <3> QED BY <1>1, <3>2 DEF IInv, TypeOK, Reserved
  <2>2. ASSUME NEW r \in Requests, Served(r, "view", "OK")
        PROVE  data[r].visitors <= data[r].views
    BY <1>1, <2>2 DEF IInv, RequestOK, CountsFit
  <2> QED BY <2>1, <2>2 DEF VisitorsWithinViews
<1> QED BY <1>1, Invariance, PTL

(* The counts a reader gets back from recording a view are at least those  *)
(* the page had when it was sent with that view and its visitor added, and *)
(* at most those of the tables, or they are the zeros of a failed query;   *)
(* the visitor is stored.                                                  *)
THEOREM ReadersCountThemselves == Spec => []SelfCounted
<1>1. ASSUME IInv PROVE SelfCounted
  <2> SUFFICES ASSUME NEW r \in Requests, Served(r, "view", "OK")
               PROVE  /\ RowOf(req[r]) \in visitors
                      /\ data[r] # Unread => Includes(data[r], req[r])
    BY DEF SelfCounted
  <2>1. Recorded(r) /\ CountsFit(data[r], req[r])
    BY <1>1 DEF IInv, RequestOK
  <2> QED BY <2>1 DEF Recorded, CountsFit
<1> QED BY <1>1, Invariance, PTL

---------------------------------------------------------------------------
(* What no step does to somebody else's records.                           *)

NotesKeptPrivate ==
  /\ \A r \in Requests : Served(r, "notes", "OK")' =>
       \A n \in data'[r].notes : n.owner = req'[r].user
  /\ \A n \in notes \ notes' : \E r \in Requests :
       /\ pc[r] = "unnote" /\ pc'[r] = "done"
       /\ req[r].user = n.owner /\ req[r].id = n.id

\* Only a deletion takes a note away.
LEMMA NoteErasers ==
  ASSUME [Next]_vars
  PROVE  notes \subseteq notes' \/ \E r \in Requests : DeleteNote(r)
<1>1. ASSUME NEW r \in Requests, NEW b \in Browsers, Call(r, b) PROVE UNCHANGED notes
  BY <1>1 DEF Call, NoUser, Malformed, Refuse, View, Bookmark, WriteNote, ReadNotes,
              ReadNoNotes, EraseNote, tables
<1>2. ASSUME NEW r \in Requests, Step(r) PROVE notes \subseteq notes' \/ DeleteNote(r)
  BY <1>2 DEF Step, CountView, AddVisitor, ReadStats, ToggleOn, ToggleOff, CreateNote,
              ListNotes, StatementFails, tables
<1>3. ASSUME NEW r \in Requests, Deliver(r) \/ Lose(r) PROVE UNCHANGED notes
  BY <1>3 DEF Deliver, Lose, tables
<1> QED
  BY <1>1, <1>2, <1>3 DEF Next, LogIn, LogOut, tables, vars

(* A private note is listed to its author only, and only a request of its  *)
(* author removes it.                                                      *)
THEOREM NotesStayPrivate == Spec => NotesPrivate
<1>1. ASSUME IInv, IInv', [Next]_vars PROVE NotesKeptPrivate
  <2>1. ASSUME NEW r \in Requests, Served(r, "notes", "OK")'
        PROVE  \A n \in data'[r].notes : n.owner = req'[r].user
    BY <1>1, <2>1 DEF IInv, RequestOK, ListsOwn
  <2>2. ASSUME NEW n \in notes \ notes'
        PROVE  \E r \in Requests : /\ pc[r] = "unnote" /\ pc'[r] = "done"
                                   /\ req[r].user = n.owner /\ req[r].id = n.id
    <3>1. PICK r \in Requests : DeleteNote(r)
      BY <1>1, <2>2, NoteErasers
    <3>2. pc[r] = "unnote" /\ n \in Erasable(req[r])
      BY <2>2, <3>1 DEF DeleteNote
    <3>3. pc'[r] = "done"
      BY <1>1, <3>1 DEF DeleteNote, Answer, Say, IInv, TypeOK
    <3> QED BY <3>2, <3>3 DEF Erasable
  <2> QED BY <2>1, <2>2 DEF NotesKeptPrivate
<1> QED
  BY <1>1, Invariance, PTL DEF Spec, NotesPrivate, NotesKeptPrivate

BookmarksChangedByReader ==
  \A key \in (bookmarks \ bookmarks') \cup (bookmarks' \ bookmarks) :
    \E r \in Requests :
      /\ pc[r] \in {"toggle", "untoggle"} /\ pc'[r] = "done"
      /\ Key(req[r]) = key
      /\ reply'[r] \in {"ServerError",
                        IF key \in bookmarks' THEN "Added" ELSE "Removed"}

\* The bookmarks table is written by the two statements of a toggle only.
LEMMA BookmarkWriters ==
  ASSUME [Next]_vars
  PROVE  UNCHANGED bookmarks \/ \E r \in Requests : ToggleOn(r) \/ ToggleOff(r)
<1>1. ASSUME NEW r \in Requests, NEW b \in Browsers, Call(r, b)
      PROVE  UNCHANGED bookmarks
  BY <1>1 DEF Call, NoUser, Malformed, Refuse, View, Bookmark, WriteNote, ReadNotes,
              ReadNoNotes, EraseNote, tables
<1>2. ASSUME NEW r \in Requests, Step(r)
      PROVE  UNCHANGED bookmarks \/ ToggleOn(r) \/ ToggleOff(r)
  BY <1>2 DEF Step, CountView, AddVisitor, ReadStats, CreateNote, DeleteNote,
              ListNotes, StatementFails, tables
<1>3. ASSUME NEW r \in Requests, Deliver(r) \/ Lose(r) PROVE UNCHANGED bookmarks
  BY <1>3 DEF Deliver, Lose, tables
<1> QED
  BY <1>1, <1>2, <1>3 DEF Next, LogIn, LogOut, tables, vars

(* A bookmark appears or disappears only by a toggle its reader sent, and  *)
(* the answer, unless it is an error, says which of the two happened.      *)
THEOREM BookmarksOfTheirReaders == Spec => BookmarksByReader
<1>1. ASSUME IInv, [Next]_vars PROVE BookmarksChangedByReader
  <2>1. CASE UNCHANGED bookmarks
    BY <2>1 DEF BookmarksChangedByReader
  <2>2. ASSUME NEW r \in Requests, ToggleOn(r) PROVE BookmarksChangedByReader
    BY <1>1, <2>2 DEF ToggleOn, Answer, Say, Goto, Outcome, IInv, TypeOK,
                      BookmarksChangedByReader
  <2>3. ASSUME NEW r \in Requests, ToggleOff(r) PROVE BookmarksChangedByReader
    BY <1>1, <2>3 DEF ToggleOff, Answer, Say, Outcome, IInv, TypeOK,
                      BookmarksChangedByReader
  <2> QED BY <1>1, <2>1, <2>2, <2>3, BookmarkWriters
<1> QED
  BY <1>1, Invariance, PTL DEF Spec, BookmarksByReader, BookmarksChangedByReader
===========================================================================
