------------------------------ MODULE Account ------------------------------
(***************************************************************************)
(* The per-reader account routes (src/internal/api/account.go) over the    *)
(* bookmarks, notes, page_stats and page_visitors tables                   *)
(* (src/internal/store/account.go): bookmarks toggled by two statements,   *)
(* private notes, and page views counted by two statements and read by a   *)
(* third. As in CommentsAPI one action is one SQL statement, and the       *)
(* statements of concurrent requests interleave.                           *)
(*                                                                         *)
(* The browsers are part of the model because the anonymous visitor id is  *)
(* a cookie: a request carries the cookie its browser had when it was      *)
(* sent, and a new one takes effect only when the answer arrives.          *)
(***************************************************************************)
EXTENDS Naturals, FiniteSets

CONSTANTS Browsers, Users, Pages, NoteIds, Requests,
          Ops,       \* the routes used in this instance
          Faults,    \* statements the database may fail
          Lossy,     \* whether an answer may be lost on its way to the browser
          MaxViews,  \* bound on the views of one page
          MaxIds,    \* bound on the visitor ids drawn
          None

VARIABLES bookmarks, \* primary keys <<user, page>>
          notes,     \* [id, owner, page]
          spent,     \* note ids ever drawn
          views,     \* page_stats
          visitors,  \* primary keys <<page, visitor id>>
          drawn,     \* anonymous visitor ids ever drawn
          login,     \* browser -> session's user, None when logged out
          cookie,    \* browser -> its aaai-vid cookie
          pc, req, reply,
          data       \* what the answer says beyond its status

tables   == <<bookmarks, notes, spent, views, visitors>>
browsers == <<drawn, login, cookie>>
local    == <<pc, req, reply, data>>
vars     == <<tables, browsers, local>>

Note    == [id: NoteIds, owner: Users, page: Pages]
AnonId  == [browser: Browsers, n: Nat]
Visitor == [sub: Users] \cup AnonId

Rows    == Pages \X Visitor

\* "before" is not in the code: what the tables counted of the page when the
\* view was sent, kept so that a property can compare the answer with it.
ViewReq     == [op: {"view"}, browser: Browsers, page: Pages,
                vid: Visitor, new: BOOLEAN,
                before: [views: Nat, visitors: SUBSET Rows]]
BookmarkReq == [op: {"bookmark"}, browser: Browsers, user: Users, page: Pages]
NoteReq     == [op: {"note"}, browser: Browsers, user: Users, page: Pages]
UnnoteReq   == [op: {"unnote"}, browser: Browsers, user: Users, id: NoteIds]
NotesReq    == [op: {"notes"}, browser: Browsers, user: Users \cup {None}, page: Pages]

Request == ViewReq \cup BookmarkReq \cup NoteReq \cup UnnoteReq \cup NotesReq

Statements == {"count", "visitor", "stats", "toggle", "untoggle",
               "note", "unnote", "notes"}

Status == {"OK", "Created", "NoContent", "Added", "Removed", "NotFound",
           "BadRequest", "Unauthorized", "Forbidden", "ServerError"}

Stats   == [views: Nat, visitors: Nat]
Listing == [notes: SUBSET Note]

ASSUME AccountAssumption == /\ None \notin Users
                            /\ None \notin AnonId
                            /\ Faults \subseteq Statements
                            /\ MaxViews \in Nat /\ MaxIds \in Nat
                            /\ Lossy \in BOOLEAN

TypeOK == /\ bookmarks \subseteq Users \X Pages
          /\ notes \subseteq Note /\ spent \subseteq NoteIds
          /\ views \in [Pages -> Nat]
          /\ visitors \subseteq Rows
          /\ drawn \subseteq AnonId
          /\ login \in [Browsers -> Users \cup {None}]
          /\ cookie \in [Browsers -> AnonId \cup {None}]
          /\ pc \in [Requests -> Statements \cup {"idle", "done"}]
          /\ req \in [Requests -> Request \cup {None}]
          /\ reply \in [Requests -> Status \cup {None}]
          /\ data \in [Requests -> Stats \cup Listing \cup {None}]

Init == /\ bookmarks = {} /\ notes = {} /\ spent = {}
        /\ views = [p \in Pages |-> 0]
        /\ visitors = {} /\ drawn = {}
        /\ login = [b \in Browsers |-> None]
        /\ cookie = [b \in Browsers |-> None]
        /\ pc = [r \in Requests |-> "idle"]
        /\ req = [r \in Requests |-> None]
        /\ reply = [r \in Requests |-> None]
        /\ data = [r \in Requests |-> None]

---------------------------------------------------------------------------
Goto(r, stmt) == pc' = [pc EXCEPT ![r] = stmt] /\ UNCHANGED <<req, reply, data>>

Accept(r, q, stmt) == /\ pc[r] = "idle"
                      /\ pc' = [pc EXCEPT ![r] = stmt]
                      /\ req' = [req EXCEPT ![r] = q]
                      /\ UNCHANGED <<reply, data>>

Say(r, status, what) == /\ pc' = [pc EXCEPT ![r] = "done"]
                        /\ reply' = [reply EXCEPT ![r] = status]
                        /\ data' = [data EXCEPT ![r] = what]
                        /\ UNCHANGED req

Answer(r, status) == Say(r, status, None)

\* A request answered without a statement.
Reply(r, q, status, what) == /\ pc[r] = "idle"
                             /\ pc' = [pc EXCEPT ![r] = "done"]
                             /\ req' = [req EXCEPT ![r] = q]
                             /\ reply' = [reply EXCEPT ![r] = status]
                             /\ data' = [data EXCEPT ![r] = what]

\* The statement may have committed although its error is what the handler sees.
Outcome(stmt, status) ==
  {status} \cup (IF stmt \in Faults THEN {"ServerError"} ELSE {})

StatementFails(r) == /\ pc[r] \in Faults \ {"stats"}
                     /\ Answer(r, "ServerError")
                     /\ UNCHANGED <<tables, browsers>>

---------------------------------------------------------------------------
(* Views: recordView, visitorID, RecordView, PageStats.                    *)

VisitorsOf(page) == {v \in visitors : v[1] = page}

Viewing(page) == {r \in Requests : /\ req[r] # None /\ req[r].op = "view"
                                   /\ req[r].page = page /\ pc[r] = "count"}

\* visitorID: the session's subject, else the cookie, else an id drawn now.
Unknown(b) == login[b] = None /\ cookie[b] = None
Fresh(b) == [browser |-> b, n |-> Cardinality({v \in drawn : v.browser = b})]

VisitorID(b) == IF login[b] # None THEN [sub |-> login[b]]
                ELSE IF cookie[b] # None THEN cookie[b]
                ELSE Fresh(b)

View(r, b, page) ==
  /\ views[page] + Cardinality(Viewing(page)) < MaxViews
  /\ Unknown(b) => Cardinality(drawn) < MaxIds
  /\ Accept(r, [op |-> "view", browser |-> b, page |-> page,
                vid |-> VisitorID(b), new |-> Unknown(b),
                before |-> [views |-> views[page], visitors |-> VisitorsOf(page)]],
            "count")
  /\ drawn' = IF Unknown(b) THEN drawn \cup {Fresh(b)} ELSE drawn
  /\ UNCHANGED <<tables, login, cookie>>

\* Mutant: an error of the upsert is ignored and the visitor still recorded.
CountView_IgnoresError(r) ==
  /\ pc[r] = "count"
  /\ \/ views' = [views EXCEPT ![req[r].page] = @ + 1]
     \/ "count" \in Faults /\ UNCHANGED views
  /\ Goto(r, "visitor")
  /\ UNCHANGED <<bookmarks, notes, spent, visitors, browsers>>

CountView(r) ==
  /\ pc[r] = "count"
  /\ views' = [views EXCEPT ![req[r].page] = @ + 1]
  /\ \/ Goto(r, "visitor")
     \/ "count" \in Faults /\ Answer(r, "ServerError")
  /\ UNCHANGED <<bookmarks, notes, spent, visitors, browsers>>

\* Mutant: an error of the visitor's insert is ignored.
AddVisitor_IgnoresError(r) ==
  /\ pc[r] = "visitor"
  /\ \/ visitors' = visitors \cup {<<req[r].page, req[r].vid>>}
     \/ "visitor" \in Faults /\ UNCHANGED visitors
  /\ Goto(r, "stats")
  /\ UNCHANGED <<bookmarks, notes, spent, views, browsers>>

AddVisitor(r) == \* on conflict do nothing
  /\ pc[r] = "visitor"
  /\ visitors' = visitors \cup {<<req[r].page, req[r].vid>>}
  /\ \/ Goto(r, "stats")
     \/ "visitor" \in Faults /\ Answer(r, "ServerError")
  /\ UNCHANGED <<bookmarks, notes, spent, views, browsers>>

PageStats(page) == [views |-> views[page],
                    visitors |-> Cardinality(VisitorsOf(page))]

Unread == [views |-> 0, visitors |-> 0] \* the Stats of a query that failed

ReadStats(r) == \* the error is dropped: st, _ := PageStats(...)
  /\ pc[r] = "stats"
  /\ \/ Say(r, "OK", PageStats(req[r].page))
     \/ "stats" \in Faults /\ Say(r, "OK", Unread)
  /\ UNCHANGED <<tables, browsers>>

---------------------------------------------------------------------------
(* Bookmarks.                                                              *)

Bookmark(r, b, page) ==
  /\ login[b] # None
  /\ Accept(r, [op |-> "bookmark", browser |-> b, user |-> login[b],
                page |-> page], "toggle")
  /\ UNCHANGED <<tables, browsers>>

Key(q) == <<q.user, q.page>>

ToggleOn(r) ==
  /\ pc[r] = "toggle"
  /\ \/ /\ Key(req[r]) \notin bookmarks
        /\ bookmarks' = bookmarks \cup {Key(req[r])}
        /\ \E status \in Outcome("toggle", "Added") : Answer(r, status)
     \/ /\ Key(req[r]) \in bookmarks
        /\ Goto(r, "untoggle")
        /\ UNCHANGED bookmarks
  /\ UNCHANGED <<notes, spent, views, visitors, browsers>>

\* Mutant: the user is missing from the where clause.
ToggleOff_AllReaders(r) ==
  /\ pc[r] = "untoggle"
  /\ bookmarks' = {k \in bookmarks : k[2] # req[r].page}
  /\ \E status \in Outcome("untoggle", "Removed") : Answer(r, status)
  /\ UNCHANGED <<notes, spent, views, visitors, browsers>>

ToggleOff(r) ==
  /\ pc[r] = "untoggle"
  /\ bookmarks' = bookmarks \ {Key(req[r])}
  /\ \E status \in Outcome("untoggle", "Removed") : Answer(r, status)
  /\ UNCHANGED <<notes, spent, views, visitors, browsers>>

---------------------------------------------------------------------------
(* Private notes.                                                          *)

\* Bound of the model: a note is written only while an id is left for it.
NoteRoom == Cardinality(NoteIds \ spent) > Cardinality({r \in Requests : pc[r] = "note"})

WriteNote(r, b, page) ==
  /\ NoteRoom
  /\ login[b] # None
  /\ Accept(r, [op |-> "note", browser |-> b, user |-> login[b],
                page |-> page], "note")
  /\ UNCHANGED <<tables, browsers>>

CreateNote(r) ==
  /\ pc[r] = "note"
  /\ \E i \in NoteIds \ spent, status \in Outcome("note", "Created") :
       /\ notes' = notes \cup {[id |-> i, owner |-> req[r].user,
                                page |-> req[r].page]}
       /\ spent' = spent \cup {i}
       /\ Answer(r, status)
  /\ UNCHANGED <<bookmarks, views, visitors, browsers>>

EraseNote(r, b, i) ==
  /\ login[b] # None
  /\ Accept(r, [op |-> "unnote", browser |-> b, user |-> login[b],
                id |-> i], "unnote")
  /\ UNCHANGED <<tables, browsers>>

\* Mutant: the user is missing from the where clause.
Erasable_AnyOwner(q) == {n \in notes : n.id = q.id}

Erasable(q) == {n \in notes : n.id = q.id /\ n.owner = q.user}

DeleteNote(r) ==
  /\ pc[r] = "unnote"
  /\ notes' = notes \ Erasable(req[r])
  /\ IF Erasable(req[r]) = {}
     THEN Answer(r, "NotFound")
     ELSE \E status \in Outcome("unnote", "NoContent") : Answer(r, status)
  /\ UNCHANGED <<bookmarks, spent, views, visitors, browsers>>

ReadNotes(r, b, page) ==
  /\ login[b] # None
  /\ Accept(r, [op |-> "notes", browser |-> b, user |-> login[b],
                page |-> page], "notes")
  /\ UNCHANGED <<tables, browsers>>

\* "anonymous: no notes, not an error": an empty list, without a query.
ReadNoNotes(r, b, page) ==
  /\ login[b] = None
  /\ Reply(r, [op |-> "notes", browser |-> b, user |-> None, page |-> page],
           "OK", [notes |-> {}])
  /\ UNCHANGED <<tables, browsers>>

NotesFor(q) == {n \in notes : n.owner = q.user /\ n.page = q.page}

ListNotes(r) ==
  /\ pc[r] = "notes"
  /\ Say(r, "OK", [notes |-> NotesFor(req[r])])
  /\ UNCHANGED <<tables, browsers>>

---------------------------------------------------------------------------
(* Answers on their way back, and sessions.                                *)

Free(r) == /\ pc' = [pc EXCEPT ![r] = "idle"]
           /\ req' = [req EXCEPT ![r] = None]
           /\ reply' = [reply EXCEPT ![r] = None]
           /\ data' = [data EXCEPT ![r] = None]

\* Set-Cookie travels on every answer to a view that drew an id, errors too.
Sets(r) == req[r].op = "view" /\ req[r].new

Deliver(r) ==
  /\ pc[r] = "done"
  /\ cookie' = IF req[r] # None /\ Sets(r)
               THEN [cookie EXCEPT ![req[r].browser] = req[r].vid] ELSE cookie
  /\ Free(r)
  /\ UNCHANGED <<tables, drawn, login>>

Lose(r) == /\ Lossy /\ pc[r] = "done"
           /\ Free(r)
           /\ UNCHANGED <<tables, browsers>>

Refuse(r, status) == /\ Reply(r, None, status, None)
                     /\ UNCHANGED <<tables, browsers>>

\* requireUser, before every write but a view: no session, or a bad CSRF token.
NoUser(r, b) == Refuse(r, IF login[b] = None THEN "Unauthorized" ELSE "Forbidden")

\* A body that cannot be decoded, an unknown language, an empty or too long note.
Malformed(r) == Refuse(r, "BadRequest")

LogIn(b, u) == /\ login[b] = None
               /\ login' = [login EXCEPT ![b] = u]
               /\ UNCHANGED <<tables, local, drawn, cookie>>

LogOut(b) == /\ login[b] # None
             /\ login' = [login EXCEPT ![b] = None]
             /\ UNCHANGED <<tables, local, drawn, cookie>>

Call(r, b) ==
  \/ NoUser(r, b) \/ Malformed(r)
  \/ \E page \in Pages : \/ "view" \in Ops /\ View(r, b, page)
                         \/ "bookmark" \in Ops /\ Bookmark(r, b, page)
                         \/ "note" \in Ops /\ WriteNote(r, b, page)
                         \/ "note" \in Ops /\ ReadNotes(r, b, page)
                         \/ "note" \in Ops /\ ReadNoNotes(r, b, page)
  \/ \E i \in NoteIds : "note" \in Ops /\ EraseNote(r, b, i)

Step(r) == \/ CountView(r) \/ AddVisitor(r) \/ ReadStats(r)
           \/ ToggleOn(r) \/ ToggleOff(r)
           \/ CreateNote(r) \/ DeleteNote(r) \/ ListNotes(r)
           \/ StatementFails(r)

Next == \/ \E r \in Requests : \/ \E b \in Browsers : Call(r, b)
                               \/ Step(r) \/ Deliver(r) \/ Lose(r)
        \/ \E b \in Browsers : LogOut(b) \/ \E u \in Users : LogIn(b, u)

Spec == Init /\ [][Next]_vars

---------------------------------------------------------------------------
(* What the account routes promise.                                        *)

Served(r, op, status) == /\ pc[r] = "done" /\ reply[r] = status
                         /\ req[r] # None /\ req[r].op = op

(* A page never has more distinct readers than views, in its tables or in  *)
(* an answer: RecordView counts the view before it adds the visitor, and a *)
(* request that fails between the two leaves the counts in that order.     *)
VisitorsWithinViews ==
  /\ \A p \in Pages : Cardinality(VisitorsOf(p)) <= views[p]
  /\ \A r \in Requests : Served(r, "view", "OK") => data[r].visitors <= data[r].views

\* The row of page_visitors that a view is recorded in.
RowOf(q) == <<q.page, q.vid>>

\* The counts that an answer to the view q may tell: those of before it was
\* sent with the view itself and its visitor at least, those of now at most.
Includes(stats, q) ==
  /\ stats.views \in q.before.views + 1 .. views[q.page]
  /\ stats.visitors \in Cardinality(q.before.visitors \cup {RowOf(q)})
                          .. Cardinality(VisitorsOf(q.page))

(* The counts a reader gets back from recording a view are those the page  *)
(* had when it was sent and, besides, that view, and its visitor if new to *)
(* the page; of the views recorded meanwhile they may include some, and    *)
(* nothing that is not in the tables. Or they are the zeros of a query     *)
(* that failed. The visitor is in the tables in either case.               *)
SelfCounted ==
  \A r \in Requests : Served(r, "view", "OK") =>
    /\ RowOf(req[r]) \in visitors
    /\ data[r] # Unread => Includes(data[r], req[r])

IdsOf(b) == {v \in drawn : v.browser = b}

(* "a persistent anonymous cookie, so unique visitors are deduplicated"    *)
(* (account.go:44-45): an anonymous browser is one visitor of a page.      *)
CountedOnce ==
  \A b \in Browsers, p \in Pages :
    Cardinality({v \in IdsOf(b) : <<p, v>> \in visitors}) <= 1

(* A private note is shown to its author only, and only a request of its   *)
(* author removes it.                                                      *)
NotesPrivate ==
  [][/\ \A r \in Requests : Served(r, "notes", "OK")' =>
          \A n \in data'[r].notes : n.owner = req'[r].user
     /\ \A n \in notes \ notes' : \E r \in Requests :
          /\ pc[r] = "unnote" /\ pc'[r] = "done"
          /\ req[r].user = n.owner /\ req[r].id = n.id]_vars

(* A bookmark appears or disappears only by a toggle its reader sent, and  *)
(* the answer reports which of the two happened.                           *)
BookmarksByReader ==
  [][\A key \in (bookmarks \ bookmarks') \cup (bookmarks' \ bookmarks) :
       \E r \in Requests :
         /\ pc[r] \in {"toggle", "untoggle"} /\ pc'[r] = "done"
         /\ Key(req[r]) = key
         /\ reply'[r] \in {"ServerError",
                           IF key \in bookmarks' THEN "Added" ELSE "Removed"}]_vars
===========================================================================
