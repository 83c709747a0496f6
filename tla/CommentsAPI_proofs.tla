------------------------ MODULE CommentsAPI_proofs ------------------------
(***************************************************************************)
(* Invariance proofs for CommentsAPI, for any number of readers, comments, *)
(* pages and requests in flight, and whichever statements fail.            *)
(***************************************************************************)
EXTENDS CommentsAPI, FiniteSetTheorems, TLAPS

---------------------------------------------------------------------------
(* The strengthening. OneLevelReplies is not inductive: the insert relies  *)
(* on what CheckParent saw one statement or more earlier. It is still true *)
(* because page and parent of a row never change and rows never go away.   *)

\* The handler a statement belongs to decides what the request record holds.
Routed == \A r \in Requests :
  /\ pc[r] \in {"parent", "count", "insert"} => req[r] \in CreateReq
  /\ pc[r] = "owned" => req[r] \in UpdateReq \cup DeleteReq
  /\ pc[r] = "write" => \/ req[r] \in UpdateReq /\ req[r].body \in Bodies
                        \/ req[r] \in DeleteReq
  /\ pc[r] \in {"toggle", "untoggle"} => req[r] \in ReactReq
  /\ pc[r] \in {"rows", "reactions"} => req[r] \in ListReq

\* A create past CheckParent still has a valid parent.
ParentChecked == \A r \in Requests :
  pc[r] \in {"count", "insert"} /\ req[r].id # None => ValidParent(req[r])

\* No row comes from the future.
PastRows == \A i \in Ids : Exists(i) => rows[i].created <= now

IInv == TypeOK /\ Routed /\ ParentChecked /\ PastRows /\ OneLevelReplies

---------------------------------------------------------------------------
(* How a statement changes the store, seen from the rows that were there.  *)

\* Every row that existed still exists, with the same columns apart from its
\* body and its deletion mark.
RowsKept == \A i \in Ids : Exists(i) =>
  /\ rows'[i] # None
  /\ rows'[i].page = rows[i].page
  /\ rows'[i].parent = rows[i].parent
  /\ rows'[i].author = rows[i].author
  /\ rows'[i].created = rows[i].created

\* UpdateBody keeps the tables typed, keeps every row, and adds none.
LEMMA UpdateBodyKeeps ==
  ASSUME StoreTypeOK, NEW i \in Ids, NEW body \in Bodies, UpdateBody(i, body)
  PROVE  StoreTypeOK' /\ RowsKept /\ (\A j \in Ids : Exists(j)' => Exists(j))
BY NoneIsNoValue DEF StoreTypeOK, UpdateBody, RowsKept, Exists, Live, Row

\* So does SoftDelete: it marks the row and leaves it in place.
LEMMA SoftDeleteKeeps ==
  ASSUME StoreTypeOK, NEW i \in Ids, SoftDelete(i)
  PROVE  StoreTypeOK' /\ RowsKept /\ (\A j \in Ids : Exists(j)' => Exists(j))
BY NoneIsNoValue DEF StoreTypeOK, SoftDelete, RowsKept, Exists, Live, Row

\* InsertComment keeps the tables typed and every row, and adds exactly one.
LEMMA InsertKeeps ==
  ASSUME StoreTypeOK, NEW i \in Ids, NEW page \in Pages,
         NEW parent \in Ids \cup {None}, NEW author \in Users,
         NEW body \in Bodies, InsertComment(i, page, parent, author, body)
  PROVE  /\ StoreTypeOK' /\ RowsKept
         /\ \A j \in Ids \ {i} : rows'[j] = rows[j]
         /\ rows'[i].page = page /\ rows'[i].parent = parent
         /\ rows'[i].created = now
BY NoneIsNoValue DEF StoreTypeOK, InsertComment, RowsKept, Exists, Row

\* Whatever keeps the rows keeps a look-up of a parent valid.
LEMMA ParentStays ==
  ASSUME RowsKept, NEW i \in Ids, NEW page, CanParent(i, page)
  PROVE  CanParent(i, page)'
BY DEF RowsKept, CanParent, Exists

\* Rows kept and none added, with the clock not going back: the invariants
\* about rows alone survive.
LEMMA StoreInvariants ==
  ASSUME StoreTypeOK, StoreTypeOK', RowsKept, OneLevelReplies, PastRows,
         \A j \in Ids : Exists(j)' => Exists(j), now' >= now
  PROVE  OneLevelReplies' /\ PastRows'
<1>1. PastRows'
  BY NoneIsNoValue DEF PastRows, RowsKept, Exists, StoreTypeOK, Row
<1>2. ASSUME NEW i \in Ids, Exists(i)', rows'[i].parent # None
      PROVE  /\ CanParent(rows[i].parent, rows[i].page)'
             /\ rows'[i].created >= rows'[rows'[i].parent].created
  <2>1. Exists(i) /\ rows[i].parent # None /\ rows[i].parent \in Ids
    BY <1>2 DEF RowsKept, Exists, StoreTypeOK, Row
  <2>2. CanParent(rows[i].parent, rows[i].page)
        /\ rows[i].created >= rows[rows[i].parent].created
    BY <2>1 DEF OneLevelReplies
  <2>3. Exists(rows[i].parent)
    BY <2>2 DEF CanParent
  <2> QED
    BY <2>1, <2>2, <2>3 DEF RowsKept, CanParent, Exists
<1> QED
  BY <1>1, <1>2 DEF OneLevelReplies

---------------------------------------------------------------------------
(* How an action moves the request that takes it.                          *)

LocalTypeOK == /\ pc \in [Requests -> Statements \cup {"idle", "done"}]
               /\ req \in [Requests -> Request \cup {None}]
               /\ seen \in [Requests -> [Ids -> Row \cup {None}]]
               /\ marks \in [Requests -> SUBSET (Ids \X Users \X Emoji)]
               /\ reply \in [Requests -> Status \cup {None}]

\* The other requests stay where they are.
OthersWait(r) == \A s \in Requests \ {r} : pc'[s] = pc[s] /\ req'[s] = req[s]

\* What Routed and ParentChecked say of one request, so that one request's
\* move is weighed on its own.
RoutedAt(r) ==
  /\ pc[r] \in {"parent", "count", "insert"} => req[r] \in CreateReq
  /\ pc[r] = "owned" => req[r] \in UpdateReq \cup DeleteReq
  /\ pc[r] = "write" => \/ req[r] \in UpdateReq /\ req[r].body \in Bodies
                        \/ req[r] \in DeleteReq
  /\ pc[r] \in {"toggle", "untoggle"} => req[r] \in ReactReq
  /\ pc[r] \in {"rows", "reactions"} => req[r] \in ListReq

ParentCheckedAt(r) ==
  pc[r] \in {"count", "insert"} /\ req[r].id # None => ValidParent(req[r])

\* The routing and the parent invariants follow from what the moving request
\* does, as long as rows are kept.
LEMMA OneMoves ==
  ASSUME NEW r \in Requests, LocalTypeOK, Routed, ParentChecked, RowsKept,
         OthersWait(r), RoutedAt(r)', ParentCheckedAt(r)'
  PROVE  Routed' /\ ParentChecked'
<1>1. Routed'
  BY DEF Routed, RoutedAt, OthersWait
<1>2. ASSUME NEW s \in Requests \ {r},
             pc'[s] \in {"count", "insert"}, req'[s].id # None
      PROVE  ValidParent(req[s])'
  <2>1. pc[s] \in {"count", "insert"} /\ req[s].id # None /\ req'[s] = req[s]
    BY <1>2 DEF OthersWait
  <2>2. ValidParent(req[s]) /\ req[s].id \in Ids
    BY <2>1 DEF ParentChecked, Routed, CreateReq
  <2> QED
    BY <2>1, <2>2 DEF ValidParent, CanParent, RowsKept, Exists
<1> QED
  BY <1>1, <1>2 DEF ParentChecked, ParentCheckedAt

\* Moving on to another statement, or answering, keeps the request state typed.
LEMMA GotoMoves ==
  ASSUME NEW r \in Requests, NEW stmt \in Statements, LocalTypeOK, Goto(r, stmt)
  PROVE  LocalTypeOK' /\ OthersWait(r) /\ pc'[r] = stmt /\ req'[r] = req[r]
BY DEF LocalTypeOK, Goto, OthersWait

LEMMA AnswerMoves ==
  ASSUME NEW r \in Requests, NEW status \in Status, LocalTypeOK, Answer(r, status)
  PROVE  LocalTypeOK' /\ OthersWait(r) /\ RoutedAt(r)' /\ ParentCheckedAt(r)'
BY DEF LocalTypeOK, Answer, OthersWait, RoutedAt, ParentCheckedAt

LEMMA AcceptMoves ==
  ASSUME NEW r \in Requests, NEW q \in Request, NEW stmt \in Statements,
         LocalTypeOK, Accept(r, q, stmt)
  PROVE  LocalTypeOK' /\ OthersWait(r) /\ pc'[r] = stmt /\ req'[r] = q
BY DEF LocalTypeOK, Accept, OthersWait

\* A step that leaves the store alone.
LEMMA StoreIdle ==
  ASSUME StoreTypeOK, PastRows, OneLevelReplies, UNCHANGED store
  PROVE  StoreTypeOK' /\ RowsKept /\ PastRows' /\ OneLevelReplies'
BY DEF StoreTypeOK, RowsKept, PastRows, OneLevelReplies, store, Exists, CanParent

---------------------------------------------------------------------------
(* The initial states, and one lemma for each group of actions.            *)

\* Nothing is stored and no request is in flight.
LEMMA InitIInv == Init => IInv
BY DEF Init, IInv, TypeOK, StoreInit, StoreTypeOK, NothingSeen, Routed,
       ParentChecked, PastRows, OneLevelReplies, Exists

\* Accepting or refusing a call leaves the store alone.
LEMMA CallIInv ==
  ASSUME IInv, NEW r \in Requests, Call(r)
  PROVE  IInv'
<1> USE DEF IInv, TypeOK
<1>0. LocalTypeOK
  BY DEF LocalTypeOK
<1>1. CASE Refuse(r) \/ RejectInput(r)
  <2>1. UNCHANGED store /\ \E status \in Status : Answer(r, status)
    <3>1. CASE Refuse(r)
      BY <3>1 DEF Refuse, Refusal, Status
    <3>2. CASE RejectInput(r)
      BY <3>2 DEF RejectInput, Status
    <3> QED BY <1>1, <3>1, <3>2
  <2> QED
    BY <1>0, <2>1, AnswerMoves, StoreIdle, OneMoves DEF LocalTypeOK
<1>2. CASE Create(r) \/ Update(r) \/ Delete(r) \/ React(r) \/ List(r)
  <2>1. PICK q \in Request, stmt \in Statements :
          /\ Accept(r, q, stmt)
          /\ UNCHANGED store
          /\ \/ q \in CreateReq /\ stmt = "parent" /\ q.id # None
             \/ q \in CreateReq /\ stmt = "count" /\ q.id = None
             \/ q \in UpdateReq \cup DeleteReq /\ stmt = "owned"
             \/ q \in ReactReq /\ stmt = "toggle"
             \/ q \in ListReq /\ stmt = "rows"
    <3>1. CASE Create(r)
      BY <3>1 DEF Create, Request, Statements
    <3>2. CASE Update(r)
      BY <3>2 DEF Update, Request, Statements
    <3>3. CASE Delete(r)
      BY <3>3 DEF Delete, Request, Statements
    <3>4. CASE React(r)
      BY <3>4 DEF React, Request, Statements
    <3>5. CASE List(r)
      BY <3>5 DEF List, Request, Statements
    <3> QED BY <1>2, <3>1, <3>2, <3>3, <3>4, <3>5
  <2>2. LocalTypeOK' /\ OthersWait(r) /\ pc'[r] = stmt /\ req'[r] = q
    BY <1>0, <2>1, AcceptMoves
  <2>3. RoutedAt(r)' /\ ParentCheckedAt(r)'
    BY <2>1, <2>2 DEF RoutedAt, ParentCheckedAt
  <2> QED
    BY <1>0, <2>1, <2>2, <2>3, StoreIdle, OneMoves DEF LocalTypeOK
<1> QED
  BY <1>1, <1>2 DEF Call

\* So do the statements that only read, and the answers that follow an error.
LEMMA ReadIInv ==
  ASSUME IInv, NEW r \in Requests,
         \/ CheckParent(r) \/ CheckRate(r) \/ RateUnknown(r) \/ OwnedComment(r)
         \/ WriteMisses(r) \/ ReadRows(r) \/ ReadReactions(r)
         \/ StatementFails(r)
  PROVE  IInv'
<1> USE DEF IInv, TypeOK
<1>0. LocalTypeOK
  BY DEF LocalTypeOK
<1>1. UNCHANGED store
  BY DEF CheckParent, CheckRate, RateUnknown, OwnedComment, WriteMisses,
         ReadRows, ReadReactions, StatementFails
<1>2. StoreTypeOK' /\ RowsKept /\ PastRows' /\ OneLevelReplies'
  BY <1>1, StoreIdle
<1>3. CASE \E status \in Status : Answer(r, status)
  BY <1>0, <1>2, <1>3, AnswerMoves, OneMoves DEF LocalTypeOK
<1>4. ASSUME NEW stmt \in Statements, Goto(r, stmt), RoutedAt(r)', ParentCheckedAt(r)'
      PROVE  IInv'
  BY <1>0, <1>2, <1>4, GotoMoves, OneMoves DEF LocalTypeOK
<1>5. CASE CheckParent(r)
  <2>1. req[r] \in CreateReq
    BY <1>5 DEF CheckParent, At, Routed
  <2>2. CASE ValidParent(req[r])
    <3>1. Goto(r, "count")
      BY <1>5, <2>2 DEF CheckParent
    <3>2. RoutedAt(r)' /\ pc'[r] = "count" /\ req'[r] = req[r]
      BY <1>0, <2>1, <3>1, GotoMoves DEF RoutedAt, Statements
    <3>3. ParentCheckedAt(r)'
      BY <1>1, <2>2, <3>2
         DEF ParentCheckedAt, ValidParent, CanParent, Exists, store
    <3> QED BY <1>4, <3>1, <3>2, <3>3 DEF Statements
  <2>3. CASE ~ValidParent(req[r])
    BY <1>3, <1>5, <2>3 DEF CheckParent, Status
  <2> QED BY <2>2, <2>3
<1>6. CASE CheckRate(r) \/ RateUnknown(r)
  <2>1. req[r] \in CreateReq /\ pc[r] = "count"
    BY <1>6 DEF CheckRate, RateUnknown, At, Routed
  <2>2. CASE Goto(r, "insert")
    <3>1. RoutedAt(r)' /\ req'[r] = req[r]
      BY <1>0, <2>1, <2>2, GotoMoves DEF RoutedAt, Statements
    <3>2. ParentCheckedAt(r)'
      BY <1>1, <2>1, <3>1
         DEF ParentCheckedAt, ParentChecked, ValidParent, CanParent, Exists, store
    <3> QED BY <1>4, <2>2, <3>1, <3>2 DEF Statements
  <2> QED
    BY <1>3, <1>6, <2>2 DEF CheckRate, RateUnknown, Status
<1>7. CASE OwnedComment(r)
  <2>1. pc[r] = "owned" /\ req[r] \in UpdateReq \cup DeleteReq
    BY <1>7 DEF OwnedComment, Routed
  <2>2. CASE Goto(r, "write") /\ ~(req[r].op = "update" /\ req[r].body = BadBody)
    <3>1. pc'[r] = "write" /\ req'[r] = req[r]
      BY <1>0, <2>2, GotoMoves DEF Statements
    <3>2. RoutedAt(r)' /\ ParentCheckedAt(r)'
      BY <2>1, <2>2, <3>1 DEF RoutedAt, ParentCheckedAt, UpdateReq, DeleteReq
    <3> QED BY <1>4, <2>2, <3>2 DEF Statements
  <2> QED
    BY <1>3, <1>7, <2>2 DEF OwnedComment, Status
<1>8. CASE WriteMisses(r) \/ StatementFails(r)
  BY <1>3, <1>8 DEF WriteMisses, StatementFails, Status
<1>9. CASE ReadRows(r)
  <2>1. PageRows(req[r].page) \in [Ids -> Row \cup {None}]
    BY DEF PageRows, StoreTypeOK
  <2>2. LocalTypeOK' /\ OthersWait(r) /\ pc'[r] \in {"done", "reactions"}
        /\ req'[r] = req[r] /\ req[r] \in ListReq
    BY <1>0, <1>9, <2>1
       DEF ReadRows, At, Routed, LocalTypeOK, OthersWait, Statements, Status
  <2>3. RoutedAt(r)' /\ ParentCheckedAt(r)'
    BY <2>2 DEF RoutedAt, ParentCheckedAt
  <2> QED BY <1>0, <1>2, <2>2, <2>3, OneMoves DEF LocalTypeOK
<1>10. CASE ReadReactions(r)
  <2>1. ReactionsOn(seen[r]) \subseteq Ids \X Users \X Emoji
    BY DEF ReactionsOn, StoreTypeOK
  <2>2. LocalTypeOK' /\ OthersWait(r) /\ pc'[r] = "done"
    BY <1>0, <1>10, <2>1
       DEF ReadReactions, At, LocalTypeOK, OthersWait, Status
  <2>3. RoutedAt(r)' /\ ParentCheckedAt(r)'
    BY <2>2 DEF RoutedAt, ParentCheckedAt
  <2> QED BY <1>0, <1>2, <2>2, <2>3, OneMoves DEF LocalTypeOK
<1> QED
  BY <1>5, <1>6, <1>7, <1>8, <1>9, <1>10

\* The insert of a comment whose parent was checked keeps replies one level deep.
LEMMA InsertIInv ==
  ASSUME IInv, NEW r \in Requests, Insert(r)
  PROVE  IInv'
<1> USE DEF IInv, TypeOK
<1>0. LocalTypeOK
  BY DEF LocalTypeOK
<1>1. PICK i \in Ids, status \in Status :
        /\ InsertComment(i, req[r].page, req[r].id, req[r].user, req[r].body)
        /\ Answer(r, status)
  BY DEF Insert, Outcome, Status
<1>2. req[r] \in CreateReq /\ pc[r] = "insert"
  BY DEF Insert, At, Routed
<1>3. /\ StoreTypeOK' /\ RowsKept
      /\ \A j \in Ids \ {i} : rows'[j] = rows[j]
      /\ rows'[i].page = req[r].page /\ rows'[i].parent = req[r].id
      /\ rows'[i].created = now
  BY <1>1, <1>2, InsertKeeps DEF CreateReq
<1>4. now' = now /\ ~Exists(i)
  BY <1>1 DEF InsertComment
<1>5. PastRows'
  BY <1>3, <1>4 DEF PastRows, Exists, StoreTypeOK
<1>6. OneLevelReplies'
  <2>1. ASSUME NEW j \in Ids, Exists(j)', rows'[j].parent # None
        PROVE  /\ rows'[j].parent \in Ids
               /\ CanParent(rows'[j].parent, rows'[j].page)
               /\ rows'[j].created >= rows[rows'[j].parent].created
    <3>1. CASE j = i
      <4>1. req[r].id \in Ids /\ ValidParent(req[r])
        BY <1>2, <1>3, <2>1, <3>1 DEF ParentChecked, CreateReq
      <4>2. rows[req[r].id].created <= now /\ rows[req[r].id] \in Row
        BY <4>1 DEF ValidParent, CanParent, PastRows, Exists, StoreTypeOK
      <4> QED
        BY <1>3, <3>1, <4>1, <4>2 DEF ValidParent, StoreTypeOK, Row
    <3>2. CASE j # i
      BY <1>3, <2>1, <3>2 DEF OneLevelReplies, Exists, StoreTypeOK, Row
    <3> QED BY <3>1, <3>2
  <2>2. ASSUME NEW p \in Ids, NEW page, CanParent(p, page)
        PROVE  /\ rows'[p] # None /\ rows'[p].parent = None
               /\ rows'[p].page = page /\ rows'[p].created = rows[p].created
    BY <1>3, <2>2 DEF CanParent, RowsKept, Exists
  <2> QED BY <2>1, <2>2, SMTT(30) DEF OneLevelReplies, CanParent, Exists
<1>7. LocalTypeOK' /\ Routed' /\ ParentChecked'
  BY <1>0, <1>1, <1>3, AnswerMoves, OneMoves
<1> QED
  BY <1>3, <1>5, <1>6, <1>7 DEF LocalTypeOK

\* Edits, deletions and reactions add no row and move none.
LEMMA WriteIInv ==
  ASSUME IInv, NEW r \in Requests,
         WriteBody(r) \/ MarkDeleted(r) \/ ToggleOn(r) \/ ToggleOff(r)
  PROVE  IInv'
<1> USE DEF IInv, TypeOK
<1>0. LocalTypeOK
  BY DEF LocalTypeOK
<1>1. ASSUME StoreTypeOK', RowsKept, \A j \in Ids : Exists(j)' => Exists(j),
             UNCHANGED now, NEW status \in Status, Answer(r, status)
      PROVE  IInv'
  <2>1. OneLevelReplies' /\ PastRows'
    BY <1>1, StoreInvariants DEF StoreTypeOK
  <2> QED
    BY <1>0, <1>1, <2>1, AnswerMoves, OneMoves DEF LocalTypeOK
<1>2. CASE WriteBody(r)
  <2>1. req[r].id \in Ids /\ req[r].body \in Bodies
    BY <1>2 DEF WriteBody, At, Routed, UpdateReq, DeleteReq
  <2>2. UpdateBody(req[r].id, req[r].body) /\ \E status \in Status : Answer(r, status)
    BY <1>2 DEF WriteBody, Outcome, Status
  <2> QED BY <1>1, <2>1, <2>2, UpdateBodyKeeps DEF UpdateBody
<1>3. CASE MarkDeleted(r)
  <2>1. req[r].id \in Ids
    BY <1>3 DEF MarkDeleted, At, Routed, UpdateReq, DeleteReq
  <2>2. SoftDelete(req[r].id) /\ \E status \in Status : Answer(r, status)
    BY <1>3 DEF MarkDeleted, Outcome, Status
  <2> QED BY <1>1, <2>1, <2>2, SoftDeleteKeeps DEF SoftDelete
<1>4. CASE ToggleOn(r) \/ ToggleOff(r)
  <2>1. req[r] \in ReactReq /\ Key(req[r]) \in Ids \X Users \X Emoji
    BY <1>4 DEF ToggleOn, ToggleOff, At, Routed, ReactReq, Key
  <2>2. StoreTypeOK' /\ UNCHANGED <<rows, now>>
    BY <1>4, <2>1 DEF ToggleOn, ToggleOff, InsertReaction, DeleteReaction,
                      StoreTypeOK, store
  <2>3. RowsKept /\ \A j \in Ids : Exists(j)' => Exists(j)
    BY <2>2 DEF RowsKept, Exists
  <2>4. CASE \E status \in Status : Answer(r, status)
    BY <1>1, <2>2, <2>3, <2>4
  <2>5. CASE Goto(r, "untoggle")
    <3>1. LocalTypeOK' /\ OthersWait(r) /\ pc'[r] = "untoggle" /\ req'[r] = req[r]
      BY <1>0, <2>5, GotoMoves DEF Statements
    <3>2. RoutedAt(r)' /\ ParentCheckedAt(r)'
      BY <2>1, <3>1 DEF RoutedAt, ParentCheckedAt
    <3>3. OneLevelReplies' /\ PastRows'
      BY <2>2, <2>3, StoreInvariants DEF StoreTypeOK
    <3> QED
      BY <1>0, <2>2, <2>3, <3>1, <3>2, <3>3, OneMoves DEF LocalTypeOK
  <2> QED
    BY <1>4, <2>4, <2>5 DEF ToggleOn, ToggleOff, Outcome, Status
<1> QED
  BY <1>2, <1>3, <1>4

\* Taking an answer frees the slot.
LEMMA DeliverIInv ==
  ASSUME IInv, NEW r \in Requests, Deliver(r)
  PROVE  IInv'
<1> USE DEF IInv, TypeOK
<1>1. LocalTypeOK /\ StoreTypeOK' /\ RowsKept /\ PastRows' /\ OneLevelReplies'
  BY StoreIdle DEF LocalTypeOK, Deliver
<1>2. LocalTypeOK' /\ OthersWait(r) /\ pc'[r] = "idle"
  BY <1>1 DEF Deliver, LocalTypeOK, OthersWait, NothingSeen
<1>3. RoutedAt(r)' /\ ParentCheckedAt(r)'
  BY <1>2 DEF RoutedAt, ParentCheckedAt
<1> QED
  BY <1>1, <1>2, <1>3, OneMoves DEF LocalTypeOK

\* The clock only moves forward.
LEMMA TickIInv ==
  ASSUME IInv, Tick
  PROVE  IInv'
<1>1. UNCHANGED <<rows, reactions, pc, req, seen, marks, reply>> /\ now' = now + 1
  BY DEF Tick, local
<1>2. TypeOK' /\ PastRows'
  BY <1>1 DEF IInv, TypeOK, StoreTypeOK, PastRows, Exists, Row
<1> QED
  BY <1>1, <1>2 DEF IInv, Routed, ParentChecked, ValidParent, CanParent,
                    OneLevelReplies, Exists

\* Every step of the service preserves the inductive invariant.
LEMMA NextIInv == IInv /\ [Next]_vars => IInv'
<1> SUFFICES ASSUME IInv, [Next]_vars PROVE IInv'
  OBVIOUS
<1>1. CASE Tick
  BY <1>1, TickIInv
<1>2. ASSUME NEW r \in Requests, Call(r) \/ Step(r) \/ Deliver(r)
      PROVE  IInv'
  BY <1>2, CallIInv, ReadIInv, InsertIInv, WriteIInv, DeliverIInv DEF Step
<1>3. CASE UNCHANGED vars
  BY <1>3 DEF vars, store, local, IInv, TypeOK, StoreTypeOK, Routed, ParentChecked,
              ValidParent, CanParent, PastRows, OneLevelReplies, Exists
<1> QED
  BY <1>1, <1>2, <1>3 DEF Next

THEOREM Invariance == Spec => []IInv
BY InitIInv, NextIInv, PTL DEF Spec

---------------------------------------------------------------------------
(* The tables and every request record keep their types: no answer stores  *)
(* a body the API refuses, and no write lacks the fields it needs.         *)
THEOREM TypeCorrect == Spec => []TypeOK
<1>1. IInv => TypeOK
  BY DEF IInv
<1> QED BY <1>1, Invariance, PTL

(* However creates, deletions and failures interleave, a reply's parent is *)
(* a top-level comment of the reply's own page, posted no later than it.   *)
THEOREM RepliesStayOneLevel == Spec => []OneLevelReplies
<1>1. IInv => OneLevelReplies
  BY DEF IInv
<1> QED BY <1>1, Invariance, PTL

---------------------------------------------------------------------------
(* Writes by their owners. The fact that carries the check made by         *)
(* ownedComment to the write that follows it: a request about to write was *)
(* allowed to, and still is, because authors never change.                 *)

OwnerChecked == \A r \in Requests :
  pc[r] = "write" => Exists(req[r].id) /\ MayModify(req[r])

\* The comments table is written by three actions only.
LEMMA RowWriters ==
  ASSUME [Next]_vars
  PROVE  \/ UNCHANGED rows
         \/ \E r \in Requests : Insert(r)
         \/ \E r \in Requests : WriteBody(r) \/ MarkDeleted(r)
<1>1. ASSUME NEW r \in Requests, Call(r) PROVE UNCHANGED rows
  BY <1>1 DEF Call, Refuse, RejectInput, Create, Update, Delete, React, List, store
<1>2. ASSUME NEW r \in Requests, Step(r)
      PROVE  UNCHANGED rows \/ Insert(r) \/ WriteBody(r) \/ MarkDeleted(r)
  BY <1>2 DEF Step, CheckParent, CheckRate, RateUnknown, OwnedComment, WriteMisses,
              ToggleOn, ToggleOff, InsertReaction, DeleteReaction, ReadRows,
              ReadReactions, StatementFails, store
<1> QED
  BY <1>1, <1>2 DEF Next, Tick, Deliver, vars, store

\* No step of the service removes a row, changes its page, parent, author or
\* time, or takes its deletion mark back.
LEMMA RowsOnlyGrow ==
  ASSUME IInv, [Next]_vars
  PROVE  /\ RowsKept
         /\ \A i \in Ids : Exists(i) /\ rows[i].deleted => rows'[i] = rows[i]
<1> USE DEF IInv, TypeOK
<1>1. CASE UNCHANGED rows
  BY <1>1 DEF RowsKept, Exists
<1>2. ASSUME NEW r \in Requests, Insert(r)
      PROVE  \A i \in Ids : Exists(i) => rows'[i] = rows[i]
  BY <1>2 DEF Insert, InsertComment, StoreTypeOK
<1>3. ASSUME NEW r \in Requests, WriteBody(r) \/ MarkDeleted(r)
      PROVE  /\ req[r].id \in Ids /\ Live(req[r].id)
             /\ RowsKept
             /\ \A i \in Ids : Exists(i) /\ i # req[r].id => rows'[i] = rows[i]
  <2>1. req[r].id \in Ids /\ (req[r].op = "update" => req[r].body \in Bodies)
    BY <1>3 DEF WriteBody, MarkDeleted, At, Routed, UpdateReq, DeleteReq
  <2>2. CASE WriteBody(r)
    BY <2>1, <2>2, UpdateBodyKeeps DEF WriteBody, At, UpdateBody, StoreTypeOK
  <2>3. CASE MarkDeleted(r)
    BY <2>1, <2>3, SoftDeleteKeeps DEF MarkDeleted, SoftDelete, StoreTypeOK
  <2> QED BY <1>3, <2>2, <2>3, <2>1
<1>4. CASE \E r \in Requests : Insert(r)
  BY <1>2, <1>4 DEF RowsKept, Exists
<1>5. CASE \E r \in Requests : WriteBody(r) \/ MarkDeleted(r)
  BY <1>3, <1>5 DEF Live, Exists
<1> QED
  BY <1>1, <1>4, <1>5, RowWriters

\* A request reaches its write only through ownedComment.
LEMMA WriteFollowsCheck ==
  ASSUME IInv, [Next]_vars, NEW r \in Requests, pc'[r] = "write"
  PROVE  req'[r] = req[r] /\ (pc[r] = "write" \/ OwnedComment(r))
<1> USE DEF IInv, TypeOK
<1>1. ASSUME NEW s \in Requests, Call(s) PROVE s # r /\ pc'[r] = pc[r] /\ req'[r] = req[r]
  BY <1>1 DEF Call, Refuse, RejectInput, Create, Update, Delete, React, List,
              Accept, Answer
<1>2. ASSUME NEW s \in Requests, Step(s), ~OwnedComment(s)
      PROVE  s # r /\ pc'[r] = pc[r] /\ req'[r] = req[r]
  BY <1>2 DEF Step, CheckParent, CheckRate, RateUnknown, Insert, WriteBody,
              MarkDeleted, WriteMisses, ToggleOn, ToggleOff, ReadRows,
              ReadReactions, StatementFails, Goto, Answer
<1>3. ASSUME NEW s \in Requests, OwnedComment(s), s # r
      PROVE  pc'[r] = pc[r] /\ req'[r] = req[r]
  BY <1>3 DEF OwnedComment, Goto, Answer
<1>4. ASSUME OwnedComment(r) PROVE req'[r] = req[r]
  BY <1>4 DEF OwnedComment, Goto, Answer
<1>5. ASSUME NEW s \in Requests, Deliver(s) PROVE s # r /\ pc'[r] = pc[r] /\ req'[r] = req[r]
  BY <1>5 DEF Deliver
<1> QED
  BY <1>1, <1>2, <1>3, <1>4, <1>5 DEF Next, Tick, local, vars

\* OwnerChecked survives every step.
LEMMA OwnerStaysChecked ==
  ASSUME IInv, OwnerChecked, [Next]_vars
  PROVE  OwnerChecked'
<1>1. SUFFICES ASSUME NEW r \in Requests, pc'[r] = "write"
               PROVE  (Exists(req[r].id) /\ MayModify(req[r]))'
  BY DEF OwnerChecked
<1>2. req'[r] = req[r] /\ (pc[r] = "write" \/ OwnedComment(r))
  BY <1>1, WriteFollowsCheck
<1>3. req[r].id \in Ids
  BY <1>2 DEF OwnedComment, IInv, Routed, UpdateReq, DeleteReq
<1>4. Exists(req[r].id) /\ MayModify(req[r])
  <2>1. CASE pc[r] = "write"
    BY <2>1 DEF OwnerChecked
  <2>2. CASE OwnedComment(r)
    BY <1>1, <2>2 DEF OwnedComment, Answer, IInv, TypeOK
  <2> QED BY <1>2, <2>1, <2>2
<1> QED
  BY <1>2, <1>3, <1>4, RowsOnlyGrow DEF RowsKept, MayModify, Exists

(* Only its author changes a comment's body, and only its author or an     *)
(* admin deletes it: the check of ownedComment holds at the later write.   *)
THEOREM OnlyOwnersWrite == Spec => AuthorizedChanges
<1>1. Init => OwnerChecked
  BY DEF Init, OwnerChecked
<1>2. ASSUME IInv, OwnerChecked, [Next]_vars PROVE AuthorizedChange
  <2> SUFFICES ASSUME NEW i \in Ids, Exists(i), rows'[i] # rows[i]
               PROVE  \E r \in Requests :
                        /\ pc[r] = "write" /\ pc'[r] = "done" /\ req[r].id = i
                        /\ \/ req[r].user = rows[i].author
                           \/ /\ req[r].user \in Admins
                              /\ rows'[i] = [rows[i] EXCEPT !.deleted = TRUE]
    BY DEF AuthorizedChange
  <2>1. PICK r \in Requests : WriteBody(r) \/ MarkDeleted(r)
    <3>1. ASSUME NEW r \in Requests, Insert(r) PROVE FALSE
      BY <1>2, <3>1 DEF Insert, InsertComment, IInv, TypeOK, StoreTypeOK
    <3> QED
      BY <1>2, <3>1, RowWriters
  <2>2. pc[r] = "write" /\ pc'[r] = "done"
    BY <1>2, <2>1 DEF WriteBody, MarkDeleted, At, Answer, IInv, TypeOK
  <2>3. MayModify(req[r])
    BY <1>2, <2>2 DEF OwnerChecked
  <2>4. CASE WriteBody(r)
    <3>1. req[r].op = "update" /\ req[r].id = i
      BY <1>2, <2>4 DEF WriteBody, At, UpdateBody, IInv, TypeOK, StoreTypeOK
    <3> QED BY <2>2, <2>3, <3>1 DEF MayModify
  <2>5. CASE MarkDeleted(r)
    <3>1. req[r].id = i /\ rows'[i] = [rows[i] EXCEPT !.deleted = TRUE]
      BY <1>2, <2>5 DEF MarkDeleted, SoftDelete, IInv, TypeOK, StoreTypeOK
    <3> QED BY <2>2, <2>3, <3>1 DEF MayModify
  <2> QED BY <2>1, <2>4, <2>5
<1>3. UNCHANGED vars => AuthorizedChange
  BY DEF AuthorizedChange, vars, store
<1> QED
  BY <1>1, <1>2, <1>3, OwnerStaysChecked, Invariance, PTL DEF Spec, AuthorizedChanges

---------------------------------------------------------------------------
(* Complete answers. What a list request has read stays closed under       *)
(* "parent of", because the rows it was read from were.                    *)

SeenClosed == \A r \in Requests, i \in Ids :
  seen[r][i] # None /\ seen[r][i].parent # None
    => /\ seen[r][i].parent \in Ids
       /\ seen[r][seen[r][i].parent] # None
       /\ seen[r][seen[r][i].parent].parent = None

\* A page's rows contain the parents of the replies among them.
LEMMA PageRowsClosed ==
  ASSUME IInv, NEW page, NEW i \in Ids,
         PageRows(page)[i] # None, PageRows(page)[i].parent # None
  PROVE  LET p == PageRows(page)[i].parent
         IN  p \in Ids /\ PageRows(page)[p] # None /\ PageRows(page)[p].parent = None
<1>1. Exists(i) /\ rows[i].page = page /\ PageRows(page)[i] = rows[i]
  BY DEF PageRows, Exists
<1>2. rows[i].parent \in Ids /\ CanParent(rows[i].parent, page)
  BY <1>1 DEF IInv, TypeOK, StoreTypeOK, OneLevelReplies, Row, Exists
<1> QED BY <1>1, <1>2 DEF PageRows, CanParent, Exists

\* Only ReadRows and Deliver change what a request has read.
LEMMA SeenStaysClosed ==
  ASSUME IInv, SeenClosed, [Next]_vars
  PROVE  SeenClosed'
<1> USE DEF IInv, TypeOK
<1>1. CASE UNCHANGED seen
  BY <1>1 DEF SeenClosed
<1>2. ASSUME NEW r \in Requests, ReadRows(r) PROVE SeenClosed'
  <2>1. seen' = [seen EXCEPT ![r] = PageRows(req[r].page)]
    BY <1>2 DEF ReadRows
  <2> QED BY <2>1, PageRowsClosed DEF SeenClosed
<1>3. ASSUME NEW r \in Requests, Deliver(r) PROVE SeenClosed'
  BY <1>3 DEF Deliver, SeenClosed, NothingSeen
<1> QED
  BY <1>1, <1>2, <1>3
     DEF Next, Call, Step, Tick, Refuse, RejectInput, Create, Update, Delete,
         React, List, CheckParent, CheckRate, RateUnknown, Insert, OwnedComment,
         WriteBody, MarkDeleted, WriteMisses, ToggleOn, ToggleOff, ReadReactions,
         StatementFails, Accept, Answer, Goto, local, vars

(* Every answer to a list request shows each comment that was live when    *)
(* the page's rows were read, and nothing of a deleted one.                *)
THEOREM ListsAreComplete == Spec => []ListComplete
<1>1. Init => SeenClosed
  BY DEF Init, SeenClosed, NothingSeen
<1>2. IInv /\ SeenClosed => ListComplete
  <2> SUFFICES ASSUME IInv, SeenClosed, NEW r \in Requests, Served(r, "list", "OK"),
                      NEW view, view = ListByPage(seen[r], marks[r]),
                      NEW live, live = {i \in Ids : /\ seen[r][i] # None
                                                    /\ ~seen[r][i].deleted}
               PROVE  /\ live = (view.top \cap live)
                                  \cup UNION {view.replies[i] : i \in view.top}
                      /\ \A i \in view.top \ live : /\ view.replies[i] # {}
                                                    /\ view.body[i] = None
                                                    /\ view.marks[i] = {}
    BY ZenonT(40) DEF ListComplete
  <2>1. /\ view.top = {i \in Ids : /\ seen[r][i] # None /\ seen[r][i].parent = None
                                   /\ seen[r][i].deleted
                                        => RepliesIn(seen[r], i) # {}}
        /\ \A i \in view.top : /\ view.replies[i] = RepliesIn(seen[r], i)
                               /\ seen[r][i].deleted
                                    => view.body[i] = None /\ view.marks[i] = {}
    BY DEF ListByPage
  <2>2. \A i \in view.top : view.replies[i] \subseteq live
    BY <2>1 DEF RepliesIn
  <2>3. ASSUME NEW j \in live, j \notin view.top
        PROVE  \E i \in view.top : j \in view.replies[i]
    <3>1. seen[r][j].parent # None
      BY <2>1, <2>3
    <3>2. seen[r][j].parent \in view.top
      BY <2>1, <2>3, <3>1 DEF SeenClosed, RepliesIn
    <3> QED BY <2>1, <2>3, <3>2 DEF RepliesIn
  <2>4. live = (view.top \cap live) \cup UNION {view.replies[i] : i \in view.top}
    BY <2>2, <2>3
  <2>5. \A i \in view.top \ live : seen[r][i].deleted /\ RepliesIn(seen[r], i) # {}
    BY <2>1
  <2> QED BY <2>1, <2>4, <2>5, SMTT(30)
<1> QED
  BY <1>1, <1>2, SeenStaysClosed, Invariance, PTL DEF Spec

---------------------------------------------------------------------------
(* Deletes that race. A confirmed delete is one that found its comment     *)
(* live, and since no statement takes a deletion mark back, a second one   *)
(* for the same comment finds it deleted.                                  *)

ConfirmedDelete(r) == Served(r, "delete", "NoContent")

\* What a confirmed delete refers to is a row of the table, marked deleted.
DeletedRows == \A r \in Requests : ConfirmedDelete(r) =>
  req[r].id \in Ids /\ Exists(req[r].id) /\ rows[req[r].id].deleted

\* A delete is confirmed by its own write, and stays so until it is delivered.
LEMMA ConfirmedByWrite ==
  ASSUME IInv, [Next]_vars, NEW r \in Requests, ConfirmedDelete(r)'
  PROVE  req'[r] = req[r] /\ (ConfirmedDelete(r) \/ MarkDeleted(r))
<1> USE DEF IInv, TypeOK, ConfirmedDelete, Served
<1>1. ASSUME NEW s \in Requests, Call(s)
      PROVE  s # r /\ pc'[r] = pc[r] /\ req'[r] = req[r] /\ reply'[r] = reply[r]
  BY <1>1 DEF Call, Refuse, Refusal, RejectInput, Create, Update, Delete, React, List,
              Accept, Answer, Statements
<1>2. ASSUME NEW s \in Requests, Step(s), s # r
      PROVE  pc'[r] = pc[r] /\ req'[r] = req[r] /\ reply'[r] = reply[r]
  BY <1>2 DEF Step, CheckParent, CheckRate, RateUnknown, Insert, OwnedComment,
              WriteBody, MarkDeleted, WriteMisses, ToggleOn, ToggleOff, ReadRows,
              ReadReactions, StatementFails, Goto, Answer
<1>3. ASSUME Step(r)
      PROVE  req'[r] = req[r] /\ MarkDeleted(r)
  BY <1>3 DEF Step, CheckParent, CheckRate, RateUnknown, Insert, OwnedComment,
              WriteBody, WriteMisses, ToggleOn, ToggleOff, ReadRows,
              ReadReactions, StatementFails, MarkDeleted, Goto, Answer, Outcome
<1>4. ASSUME NEW s \in Requests, Deliver(s)
      PROVE  s # r /\ pc'[r] = pc[r] /\ req'[r] = req[r] /\ reply'[r] = reply[r]
  BY <1>4 DEF Deliver
<1>5. CASE Tick \/ UNCHANGED vars
  BY <1>5 DEF Tick, local, vars
<1> QED
  BY <1>1, <1>2, <1>3, <1>4, <1>5 DEF Next

\* Both halves of the promise survive every step.
LEMMA DeletesStayConfirmed ==
  ASSUME IInv, DeletedRows, DeleteWinsOnce, [Next]_vars
  PROVE  DeletedRows' /\ DeleteWinsOnce'
<1>1. ASSUME NEW r \in Requests, ConfirmedDelete(r)', MarkDeleted(r)
      PROVE  /\ req'[r] = req[r] /\ req[r].id \in Ids /\ Live(req[r].id)
             /\ Exists(req[r].id)' /\ rows'[req[r].id].deleted
  <2>1. pc[r] = "write" /\ req[r].op = "delete" /\ req'[r] = req[r]
    BY <1>1 DEF MarkDeleted, At, Answer
  <2>2. req[r].id \in Ids
    BY <2>1 DEF IInv, Routed, UpdateReq, DeleteReq
  <2>3. SoftDelete(req[r].id)
    BY <1>1 DEF MarkDeleted
  <2>4. Live(req[r].id) /\ rows'[req[r].id] = [rows[req[r].id] EXCEPT !.deleted = TRUE]
    BY <2>2, <2>3 DEF SoftDelete, IInv, TypeOK, StoreTypeOK
  <2>5. rows[req[r].id] \in Row /\ RowsKept
    BY <2>2, <2>3, <2>4, SoftDeleteKeeps DEF Live, Exists, IInv, TypeOK, StoreTypeOK
  <2> QED
    BY <2>1, <2>2, <2>4, <2>5 DEF RowsKept, Live, Exists, Row
<1>2. ASSUME NEW r \in Requests, ConfirmedDelete(r)', ConfirmedDelete(r)
      PROVE  /\ req[r].id \in Ids /\ Exists(req[r].id)' /\ rows'[req[r].id].deleted
             /\ rows[req[r].id].deleted
  <2>1. req[r].id \in Ids /\ Exists(req[r].id) /\ rows[req[r].id].deleted
    BY <1>2 DEF DeletedRows
  <2>2. rows'[req[r].id] = rows[req[r].id]
    BY <2>1, RowsOnlyGrow
  <2> QED BY <1>2, <2>1, <2>2, ConfirmedByWrite DEF Exists
<1>3. DeletedRows'
  BY <1>1, <1>2, ConfirmedByWrite DEF DeletedRows
<1>4. ASSUME NEW r \in Requests, NEW s \in Requests \ {r},
             ConfirmedDelete(r)', ConfirmedDelete(s)'
      PROVE  req'[s].id # req'[r].id
  <2>1. CASE MarkDeleted(r) /\ MarkDeleted(s)
    BY <2>1 DEF MarkDeleted, Answer, At, IInv, TypeOK
  <2>2. CASE ConfirmedDelete(r) /\ ConfirmedDelete(s)
    BY <1>4, <2>2, ConfirmedByWrite DEF DeleteWinsOnce, ConfirmedDelete
  <2>3. CASE ConfirmedDelete(r) /\ MarkDeleted(s)
    BY <1>1, <1>2, <1>4, <2>3, ConfirmedByWrite DEF Live
  <2>4. CASE MarkDeleted(r) /\ ConfirmedDelete(s)
    BY <1>1, <1>2, <1>4, <2>4, ConfirmedByWrite DEF Live
  <2> QED
    BY <1>4, <2>1, <2>2, <2>3, <2>4, ConfirmedByWrite
<1> QED
  BY <1>3, <1>4 DEF DeleteWinsOnce, DeletedRows, ConfirmedDelete

(* However many readers and admins delete one comment at once, and whatever *)
(* is edited meanwhile, at most one delete is confirmed, and the comment of  *)
(* a confirmed one stays deleted.                                           *)
THEOREM DeletesWinOnce == Spec => []DeleteWinsOnce
<1>1. Init => DeletedRows /\ DeleteWinsOnce
  BY DEF Init, DeletedRows, DeleteWinsOnce, ConfirmedDelete, Served
<1> QED
  BY <1>1, DeletesStayConfirmed, Invariance, PTL DEF Spec

---------------------------------------------------------------------------
(* Reactions of their readers.                                             *)

ReactionsChangedByReader ==
  \A key \in (reactions \ reactions') \cup (reactions' \ reactions) :
    \E r \in Requests :
      /\ pc[r] \in {"toggle", "untoggle"} /\ pc'[r] = "done"
      /\ Key(req[r]) = key
      /\ reply'[r] \in {"ServerError",
                        IF key \in reactions' THEN "Added" ELSE "Removed"}

\* The reactions table is written by the two statements of a toggle only.
LEMMA ReactionWriters ==
  ASSUME [Next]_vars
  PROVE  UNCHANGED reactions \/ \E r \in Requests : ToggleOn(r) \/ ToggleOff(r)
<1>1. ASSUME NEW r \in Requests, Call(r) PROVE UNCHANGED reactions
  BY <1>1 DEF Call, Refuse, RejectInput, Create, Update, Delete, React, List, store
<1>2. ASSUME NEW r \in Requests, Step(r)
      PROVE  UNCHANGED reactions \/ ToggleOn(r) \/ ToggleOff(r)
  BY <1>2 DEF Step, CheckParent, CheckRate, RateUnknown, Insert, InsertComment,
              OwnedComment, WriteBody, UpdateBody, MarkDeleted, SoftDelete,
              WriteMisses, ReadRows, ReadReactions, StatementFails, store
<1> QED
  BY <1>1, <1>2 DEF Next, Tick, Deliver, vars, store

(* A reaction appears or disappears only by a toggle of the reader it      *)
(* belongs to, answered with what it did or with an error.                 *)
THEOREM ReactionsOfTheirReaders == Spec => ReactionsByReader
<1>1. ASSUME IInv, [Next]_vars PROVE ReactionsChangedByReader
  <2>1. CASE UNCHANGED reactions
    BY <2>1 DEF ReactionsChangedByReader
  <2>2. ASSUME NEW r \in Requests, ToggleOn(r) PROVE ReactionsChangedByReader
    BY <1>1, <2>2 DEF ToggleOn, At, InsertReaction, Answer, Outcome, IInv, TypeOK, store,
                      ReactionsChangedByReader
  <2>3. ASSUME NEW r \in Requests, ToggleOff(r) PROVE ReactionsChangedByReader
    BY <1>1, <2>3 DEF ToggleOff, At, DeleteReaction, Answer, Outcome, IInv, TypeOK,
                      ReactionsChangedByReader
  <2> QED BY <1>1, <2>1, <2>2, <2>3, ReactionWriters
<1> QED
  BY <1>1, Invariance, PTL DEF Spec, ReactionsByReader, ReactionsChangedByReader

---------------------------------------------------------------------------
(* The rate limit. The count and the insert are two statements, so what    *)
(* holds is a bound on the comments posted and about to be: a create that  *)
(* passed the count saw at most rateMax - 1, whatever the others do next.  *)
(* An error of the count is ignored (api.go:241), hence the assumption.    *)

\* Only finitely many comments exist.
FiniteRows == IsFiniteSet({i \in Ids : Exists(i)})

\* A request about to insert was counted, in this step or an earlier one.
LEMMA InsertFollowsCount ==
  ASSUME IInv, "count" \notin Faults, [Next]_vars,
         NEW r \in Requests, pc'[r] = "insert"
  PROVE  req'[r] = req[r] /\ (pc[r] = "insert" \/ CheckRate(r))
<1> USE DEF IInv, TypeOK
<1>1. ASSUME NEW s \in Requests, Call(s)
      PROVE  s # r /\ pc'[r] = pc[r] /\ req'[r] = req[r]
  BY <1>1 DEF Call, Refuse, RejectInput, Create, Update, Delete, React, List,
              Accept, Answer
<1>2. ASSUME NEW s \in Requests, Step(s), s # r
      PROVE  pc'[r] = pc[r] /\ req'[r] = req[r]
  BY <1>2 DEF Step, CheckParent, CheckRate, RateUnknown, Insert, OwnedComment,
              WriteBody, MarkDeleted, WriteMisses, ToggleOn, ToggleOff, ReadRows,
              ReadReactions, StatementFails, Goto, Answer
<1>3. ASSUME Step(r)
      PROVE  req'[r] = req[r] /\ CheckRate(r)
  BY <1>3 DEF Step, CheckParent, RateUnknown, Insert, OwnedComment, WriteBody,
              MarkDeleted, WriteMisses, ToggleOn, ToggleOff, ReadRows,
              ReadReactions, StatementFails, CheckRate, Goto, Answer
<1>4. ASSUME NEW s \in Requests, Deliver(s)
      PROVE  s # r /\ pc'[r] = pc[r] /\ req'[r] = req[r]
  BY <1>4 DEF Deliver
<1> QED
  BY <1>1, <1>2, <1>3, <1>4 DEF Next, Tick, local, vars

\* Only an insert makes a row exist.
LEMMA NoNewRows ==
  ASSUME IInv, [Next]_vars, \A r \in Requests : ~Insert(r)
  PROVE  \A i \in Ids : Exists(i)' => Exists(i)
<1>1. ASSUME NEW r \in Requests, WriteBody(r) \/ MarkDeleted(r)
      PROVE  \A i \in Ids : Exists(i)' => Exists(i)
  <2>1. req[r].id \in Ids /\ (req[r].op = "update" => req[r].body \in Bodies)
    BY <1>1 DEF WriteBody, MarkDeleted, At, IInv, Routed, UpdateReq, DeleteReq
  <2> QED
    BY <1>1, <2>1, UpdateBodyKeeps, SoftDeleteKeeps
       DEF WriteBody, MarkDeleted, At, IInv, TypeOK
<1> QED BY <1>1, RowWriters DEF Exists

\* Apart from an insert, no step brings a comment into anybody's window.
LEMMA WindowOnlyShrinks ==
  ASSUME IInv, [Next]_vars, \A r \in Requests : ~Insert(r), NEW u \in Users
  PROVE  Posted(u)' \subseteq Posted(u)
<1> USE DEF IInv, TypeOK
<1>1. \A i \in Ids : Exists(i)' => Exists(i)
  BY NoNewRows
<1>2. now' >= now /\ now' \in Nat
  <2>1. now' = now \/ now' = now + 1
    <3>1. ASSUME NEW r \in Requests, Call(r) PROVE now' = now
      BY <3>1 DEF Call, Refuse, RejectInput, Create, Update, Delete, React, List, store
    <3>2. ASSUME NEW r \in Requests, Step(r) PROVE now' = now
      BY <3>2 DEF Step, CheckParent, CheckRate, RateUnknown, Insert, InsertComment,
                  OwnedComment, WriteBody, UpdateBody, MarkDeleted, SoftDelete,
                  WriteMisses, ToggleOn, InsertReaction, ToggleOff, DeleteReaction,
                  ReadRows, ReadReactions, StatementFails, store
    <3> QED BY <3>1, <3>2 DEF Next, Tick, Deliver, vars, store
  <2> QED BY <2>1 DEF StoreTypeOK
<1>3. ASSUME NEW i \in Ids, i \in Posted(u)' PROVE i \in Posted(u)
  <2>1. Exists(i) /\ rows[i].created \in Nat
    BY <1>1, <1>3 DEF Posted, Exists, StoreTypeOK, Row
  <2>2. rows'[i].author = rows[i].author /\ rows'[i].created = rows[i].created
    BY <2>1, RowsOnlyGrow DEF RowsKept
  <2>3. rows[i].author = u /\ now' - rows[i].created <= RateWindow
    BY <1>3, <2>2 DEF Posted
  <2>4. now - rows[i].created <= RateWindow
    BY <1>2, <2>1, <2>3, ApiAssumption DEF StoreTypeOK
  <2> QED
    BY <2>1, <2>3, <2>4 DEF Posted
<1> QED
  BY <1>3 DEF Posted

\* Two finite sets that do not grow hold no more elements together.
LEMMA SumShrinks ==
  ASSUME NEW S, NEW T, IsFiniteSet(S), IsFiniteSet(T),
         NEW A \in SUBSET S, NEW B \in SUBSET T
  PROVE  Cardinality(A) + Cardinality(B) <= Cardinality(S) + Cardinality(T)
BY FS_Subset, FS_CardinalityType

\* A create that is let through leaves its reader within the bound.
LEMMA CountedFits ==
  ASSUME IInv, IsFiniteSet(Requests), NEW r \in Requests,
         At(r, "create", "count"), ~OverLimit(req[r].user), FiniteRows
  PROVE  Cardinality(Posted(req[r].user)) <= RateMax - 1
<1>1. req[r].user \in Users
  BY DEF At, IInv, Routed, CreateReq
<1>2. Posted(req[r].user) = RecentBy(req[r].user, RateWindow)
  <2>1. ASSUME NEW i \in Ids, Exists(i)
        PROVE  now - rows[i].created <= RateWindow
                 <=> rows[i].created + RateWindow >= now
    BY <2>1, ApiAssumption DEF IInv, TypeOK, StoreTypeOK, Exists, Row
  <2> QED BY <2>1 DEF Posted, RecentBy
<1>3. Cardinality(RecentBy(req[r].user, RateWindow)) \in Nat
  <2>1. RecentBy(req[r].user, RateWindow) \subseteq {i \in Ids : Exists(i)}
    BY DEF RecentBy
  <2> QED BY <2>1, FS_Subset, FS_CardinalityType DEF FiniteRows
<1> QED
  BY <1>2, <1>3, ApiAssumption DEF OverLimit

\* An insert moves one comment from "about to be posted" to "posted".
LEMMA InsertBalances ==
  ASSUME IInv, FiniteRows, IsFiniteSet(Requests), NEW r \in Requests, Insert(r),
         NEW u \in Users, RateBound
  PROVE  Cardinality(Posted(u)') + Cardinality(Inserting(u)')
           <= (RateMax - 1) + Cardinality(Requests)
<1> USE DEF IInv, TypeOK
<1>1. PICK i \in Ids : InsertComment(i, req[r].page, req[r].id, req[r].user, req[r].body)
  BY DEF Insert, Outcome
<1>2. pc[r] = "insert" /\ req[r] \in CreateReq
  BY DEF Insert, At, Routed
<1>3. /\ pc' = [pc EXCEPT ![r] = "done"] /\ req' = req /\ now' = now
      /\ ~Exists(i)
      /\ \A j \in Ids \ {i} : rows'[j] = rows[j]
      /\ rows'[i].author = req[r].user /\ rows'[i].created = now /\ Exists(i)'
  <2>1. pc' = [pc EXCEPT ![r] = "done"] /\ req' = req
    BY DEF Insert, Answer
  <2>2. /\ now' = now /\ ~Exists(i)
        /\ \A j \in Ids \ {i} : rows'[j] = rows[j]
        /\ rows'[i] = [page |-> req[r].page, parent |-> req[r].id, author |-> req[r].user,
                       body |-> req[r].body, created |-> now, deleted |-> FALSE]
    BY <1>1 DEF InsertComment, StoreTypeOK
  <2>3. rows'[i] \in Row
    BY <1>2, <2>2 DEF StoreTypeOK, Row, CreateReq
  <2>4. rows'[i] # None
    BY <2>3, NoneIsNoValue
  <2> QED BY <2>1, <2>2, <2>4 DEF Exists
<1>4. Inserting(u)' = Inserting(u) \ {r} /\ (r \in Inserting(u) <=> req[r].user = u)
  BY <1>2, <1>3 DEF Inserting
<1>5. Posted(u)' = IF req[r].user = u THEN Posted(u) \cup {i} ELSE Posted(u)
  BY <1>3, ApiAssumption DEF Posted, Exists, StoreTypeOK
<1>6. i \notin Posted(u)
  BY <1>3 DEF Posted
<1>7. /\ IsFiniteSet(Posted(u)) /\ IsFiniteSet(Inserting(u))
      /\ Cardinality(Posted(u)) \in Nat /\ Cardinality(Inserting(u)) \in Nat
  <2>1. Posted(u) \subseteq {j \in Ids : Exists(j)} /\ Inserting(u) \subseteq Requests
    BY DEF Posted, Inserting
  <2> QED BY <2>1, FS_Subset, FS_CardinalityType DEF FiniteRows
<1>9. Cardinality(Posted(u)) + Cardinality(Inserting(u))
        <= (RateMax - 1) + Cardinality(Requests)
  BY DEF RateBound
<1>10. CASE req[r].user = u
  <2>1. Cardinality(Posted(u)') = Cardinality(Posted(u)) + 1
    BY <1>5, <1>6, <1>7, <1>10, FS_AddElement, ZenonT(40)
  <2>2. Cardinality(Inserting(u)') = Cardinality(Inserting(u)) - 1
    <3>1. Cardinality(Inserting(u) \ {r}) = Cardinality(Inserting(u)) - 1
      BY <1>4, <1>7, <1>10, FS_RemoveElement, Zenon
    <3> QED BY <1>4, <3>1
  <2> QED BY <1>7, <1>9, <2>1, <2>2
<1>11. CASE req[r].user # u
  <2>1. Posted(u)' = Posted(u) /\ Inserting(u)' = Inserting(u)
    BY <1>4, <1>5, <1>11
  <2> QED BY <1>9, <2>1
<1> QED BY <1>10, <1>11

\* An insert adds one row, and nothing else adds any.
LEMMA RowsStayFinite ==
  ASSUME IInv, FiniteRows, [Next]_vars
  PROVE  FiniteRows'
<1> DEFINE S == {i \in Ids : Exists(i)}
<1>1. CASE \A r \in Requests : ~Insert(r)
  <2>1. S' \subseteq S
    BY <1>1, NoNewRows
  <2> QED BY <2>1, FS_Subset DEF FiniteRows
<1>2. ASSUME NEW r \in Requests, Insert(r) PROVE FiniteRows'
  <2>1. PICK i \in Ids : \A j \in Ids \ {i} : rows'[j] = rows[j]
    BY <1>2 DEF Insert, InsertComment, IInv, TypeOK, StoreTypeOK
  <2>2. S' \subseteq S \cup {i}
    BY <2>1 DEF Exists
  <2>3. IsFiniteSet(S \cup {i})
    BY FS_AddElement DEF FiniteRows
  <2> HIDE DEF S
  <2>4. IsFiniteSet(S')
    BY <2>2, <2>3, FS_Subset
  <2> QED BY <2>4 DEF S, FiniteRows
<1> QED BY <1>1, <1>2

\* Every step keeps every reader within the bound.
LEMMA RateStaysBounded ==
  ASSUME IsFiniteSet(Requests), "count" \notin Faults,
         IInv, FiniteRows, RateBound, [Next]_vars
  PROVE  FiniteRows' /\ RateBound'
<1> USE DEF IInv, TypeOK
<1>1. CASE \E r \in Requests : Insert(r)
  BY <1>1, InsertBalances, RowsStayFinite DEF RateBound
<1>2. CASE \A r \in Requests : ~Insert(r)
  <2>1. ASSUME NEW u \in Users
        PROVE  Cardinality(Posted(u)') + Cardinality(Inserting(u)')
                 <= (RateMax - 1) + Cardinality(Requests)
    <3>1. Posted(u)' \subseteq Posted(u)
      BY <1>2, WindowOnlyShrinks
    <3>2. /\ IsFiniteSet(Posted(u)) /\ IsFiniteSet(Inserting(u))
          /\ Inserting(u)' \subseteq Requests
      <4>1. Posted(u) \subseteq {j \in Ids : Exists(j)} /\ Inserting(u) \subseteq Requests
        BY DEF Posted, Inserting
      <4>2. Inserting(u)' \subseteq Requests
        BY DEF Inserting
      <4> QED BY <4>1, <4>2, FS_Subset DEF FiniteRows
    <3>3. CASE Inserting(u)' \subseteq Inserting(u)
      <4>1. Cardinality(Posted(u)') + Cardinality(Inserting(u)')
              <= Cardinality(Posted(u)) + Cardinality(Inserting(u))
        BY <3>1, <3>2, <3>3, SumShrinks
      <4>2. /\ Cardinality(Posted(u)) \in Nat /\ Cardinality(Inserting(u)) \in Nat
            /\ Cardinality(Posted(u)') \in Nat /\ Cardinality(Inserting(u)') \in Nat
            /\ Cardinality(Requests) \in Nat
        BY <3>1, <3>2, <3>3, FS_Subset, FS_CardinalityType
      <4> QED BY <4>1, <4>2, ApiAssumption DEF RateBound
    <3>4. CASE ~(Inserting(u)' \subseteq Inserting(u))
      <4>1. PICK r \in Requests : /\ pc'[r] = "insert" /\ req'[r].user = u
                                  /\ ~(pc[r] = "insert" /\ req[r].user = u)
        BY <3>4 DEF Inserting
      <4>2. CheckRate(r) /\ req[r].user = u
        BY <4>1, InsertFollowsCount
      <4>3. At(r, "create", "count") /\ ~OverLimit(req[r].user)
        BY <4>1, <4>2 DEF CheckRate, Answer
      <4>4. Cardinality(Posted(u)) <= RateMax - 1
        BY <4>2, <4>3, CountedFits
      <4>5. /\ Cardinality(Posted(u)') <= Cardinality(Posted(u))
            /\ Cardinality(Inserting(u)') <= Cardinality(Requests)
            /\ Cardinality(Posted(u)) \in Nat /\ Cardinality(Inserting(u)') \in Nat
            /\ Cardinality(Posted(u)') \in Nat /\ Cardinality(Requests) \in Nat
        BY <3>1, <3>2, FS_Subset, FS_CardinalityType
      <4> QED BY <4>4, <4>5, ApiAssumption
    <3> QED BY <3>3, <3>4
  <2> QED BY <2>1, RowsStayFinite DEF RateBound
<1> QED BY <1>1, <1>2

(* With any finite number of creates in flight, no reader has more than    *)
(* rateMax - 1 comments in the window and one for each request slot, as    *)
(* long as the database answers the count.                                 *)
THEOREM RateBounded ==
  ASSUME IsFiniteSet(Requests), "count" \notin Faults
  PROVE  Spec => []RateBound
<1>1. Init => FiniteRows /\ RateBound
  <2> SUFFICES ASSUME Init PROVE FiniteRows /\ RateBound
    OBVIOUS
  <2>1. {i \in Ids : Exists(i)} = {} /\ \A u \in Users : (Posted(u) = {} /\ Inserting(u) = {})
    BY DEF Init, StoreInit, Exists, Posted, Inserting
  <2>2. Cardinality({}) = 0 /\ IsFiniteSet({}) /\ Cardinality(Requests) \in Nat
    BY FS_EmptySet, FS_CardinalityType
  <2>3. FiniteRows
    BY <2>1, <2>2 DEF FiniteRows
  <2>4. ASSUME NEW u \in Users
        PROVE  Cardinality(Posted(u)) + Cardinality(Inserting(u))
                 <= (RateMax - 1) + Cardinality(Requests)
    <3>1. Posted(u) = {} /\ Inserting(u) = {}
      BY <2>1
    <3>2. Cardinality(Posted(u)) = 0 /\ Cardinality(Inserting(u)) = 0
      BY <2>2, <3>1
    <3> QED BY <2>2, <3>2, ApiAssumption
  <2> QED
    BY <2>3, <2>4 DEF RateBound
<1>2. IInv /\ FiniteRows /\ RateBound /\ [Next]_vars => FiniteRows' /\ RateBound'
  BY RateStaysBounded
<1> QED
  BY <1>1, <1>2, Invariance, PTL DEF Spec

---------------------------------------------------------------------------
(* The refinement of Discussion. A look-up is a stutter; each write is one *)
(* step of the conversation, which its earlier checks have made possible.  *)

Content  == [i \in LiveIds |-> Shown(i)]
Roots    == [i \in RootIds |-> rows[i].page]
UsedIds  == {i \in Ids : Exists(i)}

\* An empty store is a conversation nobody has started.
LEMMA InitDiscusses == Init => Conversation!Init
<1> SUFFICES ASSUME Init PROVE Conversation!Init
  OBVIOUS
<1>1. LiveIds = {} /\ RootIds = {} /\ UsedIds = {}
  BY DEF Init, StoreInit, LiveIds, RootIds, UsedIds, Live, Exists
<1>2. Content = [i \in {} |-> i] /\ Roots = [i \in {} |-> i]
  BY <1>1 DEF Content, Roots
<1> QED
  BY <1>1, <1>2 DEF Conversation!Init, Content, Roots, UsedIds

\* A statement that leaves the comments table alone says nothing new.
LEMMA RowsSame ==
  ASSUME UNCHANGED rows
  PROVE  UNCHANGED Conversation!vars
BY DEF Conversation!vars, LiveIds, RootIds, Shown, Live, Exists

\* The insert of a comment with a checked parent posts it or replies with it.
LEMMA InsertSpeaks ==
  ASSUME IInv, NEW r \in Requests, Insert(r)
  PROVE  \E i \in Ids : Conversation!Speak(i)
<1> USE DEF IInv, TypeOK
<1>1. PICK q \in CreateReq : q = req[r] /\ (q.id # None => ValidParent(q))
  BY DEF Insert, At, Routed, ParentChecked
<1>2. PICK i \in Ids : InsertComment(i, q.page, q.id, q.user, q.body)
  BY <1>1 DEF Insert, Outcome
<1>3. /\ ~Exists(i)
      /\ \A j \in Ids \ {i} : rows'[j] = rows[j]
      /\ rows'[i] = [page |-> q.page, parent |-> q.id, author |-> q.user,
                     body |-> q.body, created |-> now, deleted |-> FALSE]
  BY <1>2 DEF InsertComment, StoreTypeOK
<1>4. rows'[i] # None
  <2>1. rows'[i] \in Row
    BY <1>1, <1>3 DEF StoreTypeOK, Row, CreateReq
  <2> QED BY <2>1, NoneIsNoValue
<1>5. /\ LiveIds' = LiveIds \cup {i} /\ UsedIds' = UsedIds \cup {i}
      /\ i \notin UsedIds
      /\ RootIds' = IF q.id = None THEN RootIds \cup {i} ELSE RootIds
  BY <1>3, <1>4 DEF LiveIds, UsedIds, RootIds, Live, Exists
<1> DEFINE thread == IF q.id = None THEN i ELSE q.id
           comment == [page |-> q.page, thread |-> thread,
                       author |-> q.user, body |-> q.body]
<1>6. Content' = [j \in LiveIds \cup {i} |-> IF j = i THEN comment ELSE Content[j]]
  <2>1. Shown(i)' = comment
    BY <1>3 DEF Shown
  <2>2. ASSUME NEW j \in LiveIds, j # i PROVE Shown(j)' = Content[j]
    BY <1>3, <2>2 DEF Shown, Content, LiveIds
  <2> QED
    BY <1>5, <2>1, <2>2 DEF Content
<1>7. Conversation!Publish(i, comment)
  <2>1. DOMAIN Content = LiveIds
    BY DEF Content
  <2> HIDE DEF comment
  <2> QED
    BY <1>5, <1>6, <2>1 DEF Conversation!Publish, Content, UsedIds
<1>8. CASE q.id = None
  <2>1. Roots' = [j \in RootIds \cup {i} |-> IF j = i THEN q.page ELSE Roots[j]]
    BY <1>3, <1>5, <1>8 DEF Roots, RootIds
  <2>2. DOMAIN Roots = RootIds
    BY DEF Roots
  <2>3. Conversation!Post(i, q.page, q.user, q.body)
    BY <1>7, <1>8, <2>1, <2>2 DEF Conversation!Post, Roots
  <2> QED
    <3>1. q.page \in Pages /\ q.user \in Users /\ q.body \in Bodies
      BY <1>1 DEF CreateReq
    <3>2. i \notin {j \in Ids : Exists(j)}
      BY <1>5 DEF UsedIds
    <3> QED BY <2>3, <3>1, <3>2 DEF Conversation!Speak
<1>9. CASE q.id # None
  <2>1. q.id \in RootIds /\ Roots[q.id] = q.page
    BY <1>1, <1>9 DEF ValidParent, CanParent, RootIds, Roots, CreateReq
  <2>2. Roots' = Roots
    BY <1>3, <1>5, <1>9 DEF Roots, RootIds, Exists
  <2>3. DOMAIN Roots = RootIds
    BY DEF Roots
  <2>4. Conversation!Reply(i, q.id, q.user, q.body)
    BY <1>7, <1>9, <2>1, <2>2, <2>3 DEF Conversation!Reply, Roots
  <2> QED
    BY <1>1, <1>5, <1>9, <2>4 DEF Conversation!Speak, CreateReq, UsedIds
<1> QED BY <1>8, <1>9

\* The write of an edit changes one body, and its comment is there to edit.
LEMMA WriteEdits ==
  ASSUME IInv, NEW r \in Requests, WriteBody(r)
  PROVE  \E i \in Ids, body \in Bodies : Conversation!Edit(i, body)
<1> USE DEF IInv, TypeOK
<1>1. PICK i \in Ids : i = req[r].id /\ req[r].body \in Bodies /\ Live(i)
  BY DEF WriteBody, UpdateBody, At, Routed, UpdateReq, DeleteReq
<1>2. rows[i] \in Row /\ rows' = [rows EXCEPT ![i].body = req[r].body]
  BY <1>1 DEF WriteBody, UpdateBody, StoreTypeOK, Live, Exists
<1>3. /\ rows'[i] = [rows[i] EXCEPT !.body = req[r].body]
      /\ \A j \in Ids \ {i} : rows'[j] = rows[j]
  BY <1>1, <1>2 DEF StoreTypeOK
<1>4. rows'[i] \in Row /\ rows'[i].body = req[r].body
      /\ rows'[i].page = rows[i].page /\ rows'[i].parent = rows[i].parent
      /\ rows'[i].author = rows[i].author /\ rows'[i].deleted = rows[i].deleted
  BY <1>1, <1>2, <1>3, SMTT(30) DEF Row
<1>5. rows'[i] # None
  BY <1>4, NoneIsNoValue
<1>6. LiveIds' = LiveIds /\ RootIds' = RootIds /\ UsedIds' = UsedIds
  <2>1. \A j \in Ids \ {i} : rows'[j] = rows[j]
    BY <1>3
  <2>2. rows[i] # None /\ ~rows[i].deleted
    BY <1>1 DEF Live, Exists
  <2> QED
    BY <1>4, <1>5, <2>1, <2>2, ZenonT(40) DEF LiveIds, RootIds, UsedIds, Live, Exists
<1>7. Roots' = Roots
  BY <1>3, <1>4, <1>6 DEF Roots, RootIds
<1>8. Content' = [Content EXCEPT ![i].body = req[r].body]
  <2>1. Shown(i)' = [Shown(i) EXCEPT !.body = req[r].body]
    BY <1>4 DEF Shown, Row
  <2>2. ASSUME NEW j \in LiveIds, j # i PROVE Shown(j)' = Shown(j)
    BY <1>3, <2>2 DEF Shown, LiveIds
  <2> QED
    BY <1>1, <1>6, <2>1, <2>2 DEF Content, LiveIds
<1>9. Conversation!Edit(i, req[r].body)
  BY <1>1, <1>6, <1>7, <1>8 DEF Conversation!Edit, Content, Roots, UsedIds, LiveIds
<1> QED BY <1>1, <1>9

\* The write of a deletion takes one comment out of sight and leaves its thread.
LEMMA DeletionRemoves ==
  ASSUME IInv, NEW r \in Requests, MarkDeleted(r)
  PROVE  \E i \in Ids : Conversation!Remove(i)
<1> USE DEF IInv, TypeOK
<1>1. PICK i \in Ids : i = req[r].id /\ Live(i)
  BY DEF MarkDeleted, SoftDelete, At, Routed, UpdateReq, DeleteReq
<1>2. rows[i] \in Row /\ rows' = [rows EXCEPT ![i].deleted = TRUE]
  BY <1>1 DEF MarkDeleted, SoftDelete, StoreTypeOK, Live, Exists
<1>3. /\ rows'[i] = [rows[i] EXCEPT !.deleted = TRUE]
      /\ \A j \in Ids \ {i} : rows'[j] = rows[j]
  BY <1>1, <1>2 DEF StoreTypeOK
<1>4. rows'[i] \in Row /\ rows'[i].deleted
      /\ rows'[i].page = rows[i].page /\ rows'[i].parent = rows[i].parent
  <2>1. rows[i] \in Row /\ rows'[i] = [rows[i] EXCEPT !.deleted = TRUE]
    BY <1>2, <1>3
  <2> QED BY ONLY <2>1 DEF Row
<1>5. rows'[i] # None
  BY <1>4, NoneIsNoValue
<1>6. LiveIds' = LiveIds \ {i} /\ RootIds' = RootIds /\ UsedIds' = UsedIds
  <2>1. \A j \in Ids \ {i} : rows'[j] = rows[j]
    BY <1>3
  <2>2. rows[i] # None /\ ~rows[i].deleted
    BY <1>1 DEF Live, Exists
  <2> QED
    BY <1>4, <1>5, <2>1, <2>2, ZenonT(40) DEF LiveIds, RootIds, UsedIds, Live, Exists
<1>7. Roots' = Roots
  BY <1>3, <1>4, <1>6 DEF Roots, RootIds
<1>8. Content' = [j \in LiveIds \ {i} |-> Content[j]]
  <2>1. ASSUME NEW j \in LiveIds, j # i PROVE Shown(j)' = Shown(j)
    BY <1>3, <2>1 DEF Shown, LiveIds
  <2> QED
    BY <1>6, <2>1 DEF Content
<1>9. Conversation!Remove(i)
  BY <1>1, <1>6, <1>7, <1>8 DEF Conversation!Remove, Content, Roots, UsedIds, LiveIds
<1> QED BY <1>1, <1>9

(* What readers see is one conversation: although a comment is checked and *)
(* written in separate statements, among those of any number of other      *)
(* requests, every behaviour of the service is one in which posting,       *)
(* replying, editing and removing are single steps.                        *)
THEOREM ServiceDiscusses == Spec => Discusses
<1>1. IInv /\ [Next]_vars => [Conversation!Next]_(Conversation!vars)
  <2> SUFFICES ASSUME IInv, [Next]_vars
               PROVE  Conversation!Next \/ UNCHANGED Conversation!vars
    OBVIOUS
  <2> QED
    BY RowWriters, RowsSame, InsertSpeaks, WriteEdits, DeletionRemoves
       DEF Conversation!Next
<1> QED
  BY <1>1, InitDiscusses, Invariance, PTL DEF Spec, Discusses, Conversation!Spec
===========================================================================
