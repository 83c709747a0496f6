---------------------------- MODULE CommentsAPI ----------------------------
(***************************************************************************)
(* The comment handlers of src/internal/api/api.go and the comments and    *)
(* reactions tables of their store (src/internal/store/comments.go over    *)
(* src/migrations/0001_comments). A SQL statement runs in one step,        *)
(* because PostgreSQL executes it in one implicit transaction: there is    *)
(* one definition per statement. net/http serves each request in a         *)
(* goroutine of its own, and a handler issues its statements one after     *)
(* another with no transaction around them, so the statements of           *)
(* concurrent requests interleave: one action per statement, from the      *)
(* handler's first line to the answer it writes.                           *)
(*                                                                         *)
(* pc[r] names the statement request slot r is about to issue. The handler *)
(* keeps in req[r] what the client sent and in seen[r], marks[r] what      *)
(* ListByPage has read; reply[r] is the answer until the client takes it.  *)
(*                                                                         *)
(* Abstracted: names, avatars and anchors are immutable columns that no    *)
(* statement's outcome depends on; (lang, path) is one page; updated_at is *)
(* only displayed.                                                         *)
(***************************************************************************)
EXTENDS Naturals, FiniteSets

CONSTANTS Ids,       \* the uuids gen_random_uuid() may draw
          Pages,     \* the (lang, path) pairs readers comment on
          Users,     \* subjects of logged-in readers
          Bodies,    \* comment bodies the API accepts
          Emoji,     \* the reaction allowlist
          None       \* SQL null, Go nil, and "no such row"

VARIABLES rows,      \* comments: id -> its row, None before the insert
          reactions, \* the primary keys <<comment, author, emoji>> present
          now        \* the database clock

store == <<rows, reactions, now>>

Row == [page: Pages, parent: Ids \cup {None}, author: Users, body: Bodies,
        created: Nat, deleted: BOOLEAN]

ASSUME NoneIsNoValue == /\ None \notin Row
                        /\ None \notin Ids
                        /\ None \notin Bodies

StoreTypeOK == /\ rows \in [Ids -> Row \cup {None}]
               /\ reactions \subseteq Ids \X Users \X Emoji
               /\ now \in Nat

StoreInit == /\ rows = [i \in Ids |-> None]
             /\ reactions = {}
             /\ now = 0

---------------------------------------------------------------------------
(* What a row says. Rows are never removed: deletion is soft.              *)

Exists(i) == rows[i] # None

Live(i) == Exists(i) /\ ~rows[i].deleted

CanParent(i, page) == \* the parent a new reply may name
  /\ Exists(i)
  /\ rows[i].parent = None
  /\ rows[i].page = page

\* Mutant: a deleted comment no longer counts against its author.
RecentBy_LiveOnly(u, window) ==
  {i \in Ids : Live(i) /\ rows[i].author = u /\ rows[i].created + window >= now}

RecentBy(u, window) == \* CountRecentByAuthor counts these, deleted or not
  {i \in Ids : Exists(i) /\ rows[i].author = u /\ rows[i].created + window >= now}

---------------------------------------------------------------------------
(* The statements.                                                         *)

InsertComment(i, page, parent, author, body) ==
  /\ ~Exists(i)
  /\ rows' = [rows EXCEPT ![i] = [page |-> page, parent |-> parent,
                                  author |-> author, body |-> body,
                                  created |-> now, deleted |-> FALSE]]
  /\ UNCHANGED <<reactions, now>>

UpdateBody(i, body) == \* ... where id = $2 and deleted_at is null
  /\ Live(i)
  /\ rows' = [rows EXCEPT ![i].body = body]
  /\ UNCHANGED <<reactions, now>>

\* Mutant: the write no longer asks that deleted_at is null.
SoftDelete_Always(i) ==
  /\ Exists(i)
  /\ rows' = [rows EXCEPT ![i].deleted = TRUE]
  /\ UNCHANGED <<reactions, now>>

SoftDelete(i) == \* ... where id = $1 and deleted_at is null
  /\ Live(i)
  /\ rows' = [rows EXCEPT ![i].deleted = TRUE]
  /\ UNCHANGED <<reactions, now>>

InsertReaction(key) == \* one row affected: the key was absent
  /\ key \notin reactions
  /\ reactions' = reactions \cup {key}
  /\ UNCHANGED <<rows, now>>

\* Mutant: the author is missing from the where clause.
DeleteReaction_AllReaders(key) ==
  /\ reactions' = {k \in reactions : k[1] # key[1] \/ k[3] # key[3]}
  /\ UNCHANGED <<rows, now>>

DeleteReaction(key) == \* whether or not a row is there
  /\ reactions' = reactions \ {key}
  /\ UNCHANGED <<rows, now>>

---------------------------------------------------------------------------
(* The two queries of ListByPage and the tree it builds from their answers.*)

PageRows(page) == \* select ... from comments where lang and path
  [i \in Ids |-> IF Exists(i) /\ rows[i].page = page THEN rows[i] ELSE None]

ReactionsOn(seen) == \* attachReactions: only of the comments just read
  {key \in reactions : seen[key[1]] # None}

RepliesIn(seen, i) == \* deleted replies are dropped
  {j \in Ids : seen[j] # None /\ seen[j].parent = i /\ ~seen[j].deleted}

\* Mutant: every deleted top-level comment is dropped, with its replies.
ListByPage_NoTombstones(seen, marks) ==
  LET top == {i \in Ids : /\ seen[i] # None
                          /\ seen[i].parent = None
                          /\ ~seen[i].deleted}
  IN  [top |-> top,
       replies |-> [i \in top |-> RepliesIn(seen, i)],
       body |-> [i \in top |-> seen[i].body],
       marks |-> [i \in top |-> {key \in marks : key[1] = i}]]

ListByPage(seen, marks) ==
  LET top == {i \in Ids : /\ seen[i] # None
                          /\ seen[i].parent = None
                          /\ seen[i].deleted => RepliesIn(seen, i) # {}}
      blank(i) == seen[i].deleted
  IN  [top |-> top,
       replies |-> [i \in top |-> RepliesIn(seen, i)],
       body |-> [i \in top |-> IF blank(i) THEN None ELSE seen[i].body],
       marks |-> [i \in top |-> IF blank(i) THEN {}
                                ELSE {key \in marks : key[1] = i}]]

---------------------------------------------------------------------------
(* Every comment row is either top-level or a reply to a top-level comment *)
(* of its own page ("parent_id uuid -- one-level reply"). It is the        *)
(* handler that keeps this, by a look-up made before the insert: the       *)
(* schema only says that the parent is some comment.                       *)
OneLevelReplies ==
  \A i \in Ids : Exists(i) /\ rows[i].parent # None
                   => /\ CanParent(rows[i].parent, rows[i].page)
                      /\ rows[i].created >= rows[rows[i].parent].created

---------------------------------------------------------------------------
(* The handlers.                                                           *)

CONSTANTS Requests,  \* slots for requests in flight
          Admins,    \* subjects with RolePlatformAdmin
          Ops,       \* the routes clients use in this instance
          BadBody,   \* a body that is empty or over maxBodyLen
          Anonymous, \* no session
          RateMax, RateWindow,
          MaxTime,   \* bound on the clock
          Faults     \* statements the database may fail

VARIABLES pc, req, seen, marks, reply

local == <<pc, req, seen, marks, reply>>
vars  == <<store, local>>

CreateReq == [op: {"create"}, user: Users, page: Pages,
              id: Ids \cup {None}, body: Bodies]
UpdateReq == [op: {"update"}, user: Users, id: Ids, body: Bodies \cup {BadBody}]
DeleteReq == [op: {"delete"}, user: Users, id: Ids]
ReactReq  == [op: {"react"}, user: Users, id: Ids, emoji: Emoji]
ListReq   == [op: {"list"}, page: Pages]

Request == CreateReq \cup UpdateReq \cup DeleteReq \cup ReactReq \cup ListReq

Statements == {"parent", "count", "insert", "owned", "write",
               "toggle", "untoggle", "rows", "reactions"}

Status == {"OK", "Created", "NoContent", "Added", "Removed", "BadRequest",
           "Unauthorized", "Forbidden", "NotFound", "TooManyRequests",
           "ServerError"}

ASSUME ApiAssumption ==
  /\ Admins \subseteq Users
  /\ Anonymous \notin Users
  /\ BadBody \notin Bodies
  /\ None \notin Request
  /\ RateMax \in Nat \ {0} /\ RateWindow \in Nat /\ MaxTime \in Nat
  /\ Faults \subseteq Statements

TypeOK == /\ StoreTypeOK
          /\ pc \in [Requests -> Statements \cup {"idle", "done"}]
          /\ req \in [Requests -> Request \cup {None}]
          /\ seen \in [Requests -> [Ids -> Row \cup {None}]]
          /\ marks \in [Requests -> SUBSET (Ids \X Users \X Emoji)]
          /\ reply \in [Requests -> Status \cup {None}]

NothingSeen == [i \in Ids |-> None]

Init == /\ StoreInit
        /\ pc = [r \in Requests |-> "idle"]
        /\ req = [r \in Requests |-> None]
        /\ seen = [r \in Requests |-> NothingSeen]
        /\ marks = [r \in Requests |-> {}]
        /\ reply = [r \in Requests |-> None]

---------------------------------------------------------------------------
(* Control of one request.                                                 *)

Goto(r, stmt) == /\ pc' = [pc EXCEPT ![r] = stmt]
                 /\ UNCHANGED <<req, seen, marks, reply>>

Accept(r, q, stmt) == /\ pc' = [pc EXCEPT ![r] = stmt]
                      /\ req' = [req EXCEPT ![r] = q]
                      /\ UNCHANGED <<seen, marks, reply>>

Answer(r, status) == /\ pc' = [pc EXCEPT ![r] = "done"]
                     /\ reply' = [reply EXCEPT ![r] = status]
                     /\ UNCHANGED <<req, seen, marks>>

At(r, op, stmt) == pc[r] = stmt /\ req[r].op = op

\* A statement whose failure reaches the client after it was committed: the
\* handler cannot tell it from one that was not.
Outcome(stmt, status) ==
  {status} \cup (IF stmt \in Faults THEN {"ServerError"} ELSE {})

---------------------------------------------------------------------------
(* The handlers' first lines, up to the first statement.                   *)

\* requireUser, with the client's session and CSRF token as chosen.
Refusal(user, csrf) == CASE user = Anonymous -> "Unauthorized"
                         [] user # Anonymous /\ ~csrf -> "Forbidden"
                         [] OTHER -> "OK"

Refuse(r) == \* answered before the body is read
  /\ pc[r] = "idle"
  /\ \E user \in Users \cup {Anonymous}, csrf \in BOOLEAN :
       /\ Refusal(user, csrf) # "OK"
       /\ Answer(r, Refusal(user, csrf))
  /\ UNCHANGED store

RejectInput(r) == \* decode, validLang, the body's length, reactionEmoji
  /\ pc[r] = "idle"
  /\ Answer(r, "BadRequest")
  /\ UNCHANGED store

\* Bound of the model: a create starts only while an unused id is left for it.
HasRoom == LET free     == {i \in Ids : ~Exists(i)}
               creating == {r \in Requests : pc[r] \in {"parent", "count", "insert"}}
           IN  Cardinality(free) > Cardinality(creating)

Create(r) == /\ pc[r] = "idle"
             /\ HasRoom
             /\ \E q \in CreateReq :
                  Accept(r, q, IF q.id # None THEN "parent" ELSE "count")
             /\ UNCHANGED store

Update(r) == /\ pc[r] = "idle"
             /\ \E q \in UpdateReq : Accept(r, q, "owned")
             /\ UNCHANGED store

Delete(r) == /\ pc[r] = "idle"
             /\ \E q \in DeleteReq : Accept(r, q, "owned")
             /\ UNCHANGED store

React(r) == /\ pc[r] = "idle"
            /\ \E q \in ReactReq : Accept(r, q, "toggle")
            /\ UNCHANGED store

List(r) == /\ pc[r] = "idle"
           /\ \E q \in ListReq : Accept(r, q, "rows")
           /\ UNCHANGED store

---------------------------------------------------------------------------
(* create: look the parent up, count, insert.                              *)

\* Mutants: a reply may hang off a reply; the parent may be on another page.
ValidParent_AnyDepth(q) == Exists(q.id) /\ rows[q.id].page = q.page

ValidParent_AnyPage(q) == Exists(q.id) /\ rows[q.id].parent = None

ValidParent(q) == CanParent(q.id, q.page)

CheckParent(r) ==
  /\ At(r, "create", "parent")
  /\ IF ValidParent(req[r]) THEN Goto(r, "count") ELSE Answer(r, "BadRequest")
  /\ UNCHANGED store

OverLimit(u) == Cardinality(RecentBy(u, RateWindow)) >= RateMax

CheckRate(r) ==
  /\ At(r, "create", "count")
  /\ IF OverLimit(req[r].user)
     THEN Answer(r, "TooManyRequests")
     ELSE Goto(r, "insert")
  /\ UNCHANGED store

RateUnknown(r) == \* err == nil && n >= rateMax: the count's error is ignored
  /\ At(r, "create", "count")
  /\ "count" \in Faults
  /\ Goto(r, "insert")
  /\ UNCHANGED store

Insert(r) ==
  /\ At(r, "create", "insert")
  /\ \E i \in Ids, status \in Outcome("insert", "Created") :
       /\ InsertComment(i, req[r].page, req[r].id, req[r].user, req[r].body)
       /\ Answer(r, status)

---------------------------------------------------------------------------
(* update and delete: ownedComment, then one conditional write. A comment  *)
(* deleted in between makes the write affect no row, which the handler     *)
(* answers like a failed statement.                                        *)

\* Mutant: allowAdmin is passed for updates too.
MayModify_AdminEdits(q) == rows[q.id].author = q.user \/ q.user \in Admins

MayModify(q) ==
  \/ rows[q.id].author = q.user
  \/ q.op = "delete" /\ q.user \in Admins \* allowAdmin

OwnedComment(r) ==
  LET q == req[r] IN
  /\ pc[r] = "owned"
  /\ \/ ~Exists(q.id) /\ Answer(r, "NotFound")
     \/ Exists(q.id) /\ ~MayModify(q) /\ Answer(r, "Forbidden")
     \/ /\ Exists(q.id) /\ MayModify(q)
        /\ IF q.op = "update" /\ q.body = BadBody
           THEN Answer(r, "BadRequest")
           ELSE Goto(r, "write")
  /\ UNCHANGED store

WriteBody(r) ==
  /\ At(r, "update", "write")
  /\ \E status \in Outcome("write", "OK") :
       UpdateBody(req[r].id, req[r].body) /\ Answer(r, status)

MarkDeleted(r) ==
  /\ At(r, "delete", "write")
  /\ \E status \in Outcome("write", "NoContent") :
       SoftDelete(req[r].id) /\ Answer(r, status)

WriteMisses(r) == \* RowsAffected() == 0
  /\ pc[r] = "write"
  /\ ~Live(req[r].id)
  /\ Answer(r, "ServerError")
  /\ UNCHANGED store

---------------------------------------------------------------------------
(* react: ToggleReaction is an insert and, when that affects no row, a     *)
(* separate delete.                                                        *)

Key(q) == <<q.id, q.user, q.emoji>>

ToggleOn(r) ==
  LET key == Key(req[r]) IN
  /\ At(r, "react", "toggle")
  /\ \/ /\ Exists(req[r].id)
        /\ InsertReaction(key)
        /\ \E status \in Outcome("toggle", "Added") : Answer(r, status)
     \/ /\ key \in reactions \* on conflict do nothing
        /\ Goto(r, "untoggle")
        /\ UNCHANGED store
     \/ /\ ~Exists(req[r].id) \* the foreign key fails the insert
        /\ Answer(r, "ServerError")
        /\ UNCHANGED store

ToggleOff(r) ==
  /\ At(r, "react", "untoggle")
  /\ \E status \in Outcome("untoggle", "Removed") :
       DeleteReaction(Key(req[r])) /\ Answer(r, status)

---------------------------------------------------------------------------
(* list: two queries that need not see the same state.                     *)

ReadRows(r) ==
  LET found == PageRows(req[r].page) IN
  /\ At(r, "list", "rows")
  /\ seen' = [seen EXCEPT ![r] = found]
  /\ IF found = NothingSeen \* attachReactions returns at once
     THEN /\ pc' = [pc EXCEPT ![r] = "done"]
          /\ reply' = [reply EXCEPT ![r] = "OK"]
     ELSE /\ pc' = [pc EXCEPT ![r] = "reactions"]
          /\ UNCHANGED reply
  /\ UNCHANGED <<req, marks, store>>

ReadReactions(r) ==
  /\ At(r, "list", "reactions")
  /\ marks' = [marks EXCEPT ![r] = ReactionsOn(seen[r])]
  /\ pc' = [pc EXCEPT ![r] = "done"]
  /\ reply' = [reply EXCEPT ![r] = "OK"]
  /\ UNCHANGED <<req, seen, store>>

---------------------------------------------------------------------------
(* A statement that fails without effect, the client taking its answer,    *)
(* and time.                                                               *)

StatementFails(r) ==
  /\ pc[r] \in Faults \ {"count"}
  /\ Answer(r, "ServerError")
  /\ UNCHANGED store

Deliver(r) ==
  /\ pc[r] = "done"
  /\ pc' = [pc EXCEPT ![r] = "idle"]
  /\ req' = [req EXCEPT ![r] = None]
  /\ seen' = [seen EXCEPT ![r] = NothingSeen]
  /\ marks' = [marks EXCEPT ![r] = {}]
  /\ reply' = [reply EXCEPT ![r] = None]
  /\ UNCHANGED store

Tick == /\ now < MaxTime
        /\ now' = now + 1
        /\ UNCHANGED <<rows, reactions, local>>

Call(r) == \/ Refuse(r) \/ RejectInput(r)
           \/ "create" \in Ops /\ Create(r)
           \/ "update" \in Ops /\ Update(r)
           \/ "delete" \in Ops /\ Delete(r)
           \/ "react" \in Ops /\ React(r)
           \/ "list" \in Ops /\ List(r)

Step(r) == \/ CheckParent(r) \/ CheckRate(r) \/ RateUnknown(r) \/ Insert(r)
           \/ OwnedComment(r) \/ WriteBody(r) \/ MarkDeleted(r) \/ WriteMisses(r)
           \/ ToggleOn(r) \/ ToggleOff(r)
           \/ ReadRows(r) \/ ReadReactions(r)
           \/ StatementFails(r)

Next == Tick \/ \E r \in Requests : Call(r) \/ Step(r) \/ Deliver(r)

Spec == Init /\ [][Next]_vars

---------------------------------------------------------------------------
(* What the comment API promises.                                          *)

Served(r, op, status) == /\ pc[r] = "done" /\ reply[r] = status
                         /\ req[r] # None /\ req[r].op = op

(* A page's answer shows every comment that was live when its rows were    *)
(* read, at the top level or under a comment shown there, and shows a      *)
(* deleted one only as a blank tombstone that holds up a surviving reply.  *)
(* ListByPage drops a reply whose parent is not among the page's rows and  *)
(* shows no reply of a reply, so this rests on what create let in.         *)
ListComplete ==
  \A r \in Requests : Served(r, "list", "OK") =>
    LET view == ListByPage(seen[r], marks[r])
        live == {i \in Ids : seen[r][i] # None /\ ~seen[r][i].deleted}
    IN  /\ live = (view.top \cap live) \cup UNION {view.replies[i] : i \in view.top}
        /\ \A i \in view.top \ live : /\ view.replies[i] # {}
                                      /\ view.body[i] = None
                                      /\ view.marks[i] = {}

(* Only its author changes a comment's body, and only its author or an     *)
(* admin deletes it, although ownedComment checks that in a statement      *)
(* before the one that writes.                                             *)
AuthorizedChange ==
  \A i \in Ids : Exists(i) /\ rows'[i] # rows[i] =>
    \E r \in Requests :
      /\ pc[r] = "write" /\ pc'[r] = "done" /\ req[r].id = i
      /\ \/ req[r].user = rows[i].author
         \/ req[r].user \in Admins /\ rows'[i] = [rows[i] EXCEPT !.deleted = TRUE]

AuthorizedChanges == [][AuthorizedChange]_vars

(* Of the deletes that race for one comment exactly one is confirmed, and  *)
(* a confirmed one stays deleted whatever edits and deletes follow.        *)
DeleteWinsOnce ==
  \A r \in Requests : Served(r, "delete", "NoContent") =>
    /\ rows[req[r].id].deleted
    /\ \A s \in Requests \ {r} :
         Served(s, "delete", "NoContent") => req[s].id # req[r].id

Inserting(u) == {r \in Requests : pc[r] = "insert" /\ req[r].user = u}

\* The comments of one author in the window that ends now, the deleted ones too.
Posted(u) == {i \in Ids : /\ Exists(i) /\ rows[i].author = u
                          /\ now - rows[i].created <= RateWindow}

(* The rate limit, "rateMax comments per window" (api.go:105-106), as the  *)
(* handler enforces it: the count and the insert are two statements, so    *)
(* each further concurrent request may slip one comment past it.           *)
RateBound ==
  \A u \in Users :
    Cardinality(Posted(u)) + Cardinality(Inserting(u))
      <= (RateMax - 1) + Cardinality(Requests)

(* A reaction appears or disappears only by a toggle of the reader it      *)
(* belongs to, which then answers with what it did or with an error.       *)
ReactionsByReader ==
  [][\A key \in (reactions \ reactions') \cup (reactions' \ reactions) :
       \E r \in Requests :
         /\ pc[r] \in {"toggle", "untoggle"} /\ pc'[r] = "done"
         /\ Key(req[r]) = key
         /\ reply'[r] \in {"ServerError",
                           IF key \in reactions' THEN "Added" ELSE "Removed"}]_vars

(* ToggleReaction as comments.go:253-254 words it: it adds the reaction if *)
(* absent and removes it if present, so a toggle that is answered always   *)
(* changed whether the reaction is set.                                    *)
ToggleFlips ==
  [][\A r \in Requests :
       (pc[r] \in {"toggle", "untoggle"} /\ pc'[r] = "done"
          /\ reply'[r] \in {"Added", "Removed"})
         => (Key(req[r]) \in reactions) # (Key(req[r]) \in reactions')]_vars

(* What readers see behaves as one conversation, in which every post,      *)
(* reply, edit and removal is checked and done at once (module Discussion).*)
LiveIds == {i \in Ids : Live(i)}
RootIds == {i \in Ids : Exists(i) /\ rows[i].parent = None}

Shown(i) == [page   |-> rows[i].page,
             thread |-> IF rows[i].parent = None THEN i ELSE rows[i].parent,
             author |-> rows[i].author,
             body   |-> rows[i].body]

Conversation == INSTANCE Discussion
  WITH content <- [i \in LiveIds |-> Shown(i)],
       roots   <- [i \in RootIds |-> rows[i].page],
       used    <- {i \in Ids : Exists(i)}

Discusses == Conversation!Spec
===========================================================================
