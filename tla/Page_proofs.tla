----------------------------- MODULE Page_proofs -----------------------------
(***************************************************************************)
(* Proofs about Page, for any writes, texts, tabs, programs, timelines,    *)
(* headings, queries and versions of the article. First the invariant of   *)
(* each component: the lists of comments, the shell, the account widgets,  *)
(* the composers, the figure, the cells and the marks over the article; at *)
(* the end, what each of them keeps is kept on the page.                   *)
(***************************************************************************)
EXTENDS Page, Lists_proofs

---------------------------------------------------------------------------
(* The lists of comments. Every list a request has been served, from the   *)
(* one asked for on behalf of a settled write on, shows that write.        *)

\* A write the server has carried out has been, and an answered one led to a
\* request, which is one of those sent.
Progressed ==
  \A w \in Writes :
    /\ stage[w] = "done" => w \in db
    /\ w \in db => stage[w] \in {"done", "answered", "failed"}
    /\ asked[w] <= issued
    /\ stage[w] = "answered" => asked[w] > 0
    /\ stage[w] # "answered" => asked[w] = 0

\* Requests in flight and lists on show carry numbers of requests sent.
Numbered == /\ \A rd \in reads : rd.n <= issued
            /\ \A th \in Threads : shown[th].n <= issued

\* What a request was served holds every write settled before it was sent.
ServedSettled ==
  \A w \in Writes : Settled(w) =>
    \A rd \in reads :
      (rd.thread = Thread(w) /\ rd.served /\ rd.n >= asked[w]) => w \in rd.seen

ListsInv == TypeOK /\ Progressed /\ Numbered /\ ServedSettled /\ ReadsYourWrites

LEMMA ThreadType == \A w \in Writes : Thread(w) \in Threads
BY KindAssumption DEF Thread, Threads

LEMMA ListsInit == Init => ListsInv
BY DEF Init, ListsInv, TypeOK, Progressed, Numbered, ServedSettled,
       ReadsYourWrites, Settled, Read, List, Stages, Threads

\* What sending one more list request does to the requests.
LEMMA AskFacts ==
  ASSUME TypeOK, Numbered, NEW th \in Threads, Ask(th)
  PROVE  /\ issued' \in Nat /\ issued' = issued + 1
         /\ reads' \subseteq Read
         /\ \A rd \in reads' : rd.n <= issued'
         /\ \A rd \in reads' : rd.served => rd \in reads
<1> DEFINE new == [n |-> issued + 1, thread |-> th, served |-> FALSE, seen |-> {}]
<1>1. issued \in Nat /\ issued' = issued + 1 /\ reads' = reads \cup {new}
  BY DEF TypeOK, Ask
<1>2. new \in Read /\ new.n = issued + 1 /\ ~new.served
  BY <1>1 DEF Read
<1>3. \A rd \in reads : rd \in Read /\ rd.n \in Nat /\ rd.n <= issued
  BY DEF TypeOK, Numbered, Read
<1> HIDE DEF new
<1>4. \A rd \in reads' : rd.n <= issued'
  BY <1>1, <1>2, <1>3
<1> QED BY <1>1, <1>2, <1>3, <1>4

\* A write the step does not touch is settled after it only if it was before.
LEMMA OneWrite ==
  ASSUME TypeOK, NEW w \in Writes, NEW s \in Stages,
         stage' = [stage EXCEPT ![w] = s],
         db' = db \/ db' = db \cup {w}
  PROVE  /\ stage' \in [Writes -> Stages]
         /\ stage'[w] = s
         /\ \A v \in Writes \ {w} : /\ stage'[v] = stage[v]
                                    /\ v \in db' <=> v \in db
BY DEF TypeOK

---------------------------------------------------------------------------
(* The lists: no write changes.                                            *)

\* Steps that leave the writes alone, send a request or not, and put nothing
\* new on show.
LEMMA AskStep ==
  ASSUME ListsInv, NEW th \in Threads, Ask(th),
         me' \in {"asked", "reader", "nobody"},
         UNCHANGED <<db, stage, shown, asked>>
  PROVE  ListsInv'
<1> USE DEF ListsInv
<1>1. TypeOK'
  BY AskFacts DEF TypeOK
<1>2. Progressed'
  BY AskFacts DEF Progressed, TypeOK
<1>3. Numbered'
  BY AskFacts DEF Numbered, TypeOK, List, Threads
<1>4. ServedSettled'
  BY AskFacts DEF ServedSettled, Settled
<1>5. ReadsYourWrites'
  BY DEF ReadsYourWrites, Settled
<1> QED BY <1>1, <1>2, <1>3, <1>4, <1>5

LEMMA ServeStep ==
  ASSUME ListsInv, NEW rd \in reads, Serve(rd)
  PROVE  ListsInv'
<1> USE DEF ListsInv
<1> DEFINE new == [rd EXCEPT !.served = TRUE,
                             !.seen = {w \in db : Thread(w) = rd.thread}]
<1>1. rd \in Read /\ reads' = (reads \ {rd}) \cup {new}
      /\ UNCHANGED <<me, db, stage, issued, shown, asked>>
  BY DEF Serve, TypeOK
<1>2. /\ new \in Read /\ new.n = rd.n /\ new.thread = rd.thread
      /\ new.seen = {w \in db : Thread(w) = rd.thread}
  BY <1>1 DEF Read, TypeOK
<1> HIDE DEF new
<1>3. TypeOK'
  BY <1>1, <1>2 DEF TypeOK
<1>4. Progressed' /\ ReadsYourWrites'
  BY <1>1 DEF Progressed, ReadsYourWrites, Settled
<1>5. Numbered'
  BY <1>1, <1>2 DEF Numbered
<1>6. ServedSettled'
  BY <1>1, <1>2 DEF ServedSettled, Settled
<1> QED BY <1>3, <1>4, <1>5, <1>6

LEMMA ShowStep ==
  ASSUME ListsInv, NEW rd \in reads, Show(rd)
  PROVE  ListsInv'
<1> USE DEF ListsInv
<1> DEFINE list == [n |-> rd.n, ok |-> TRUE, seen |-> rd.seen, had |-> TRUE]
<1>1. /\ rd \in Read /\ rd.served /\ rd.thread \in Threads
      /\ reads' = reads \ {rd}
      /\ shown' = [shown EXCEPT ![rd.thread] = list]
      /\ UNCHANGED <<me, db, stage, issued, asked>>
  BY DEF Show, TypeOK, Read
<1>2. list \in List /\ list.n = rd.n /\ list.seen = rd.seen
  BY <1>1 DEF List, Read
<1> HIDE DEF list
<1>3. \A th \in Threads : shown'[th] = IF th = rd.thread THEN list ELSE shown[th]
  BY <1>1 DEF TypeOK
<1>4. TypeOK'
  BY <1>1, <1>2 DEF TypeOK
<1>5. Progressed' /\ ServedSettled'
  BY <1>1 DEF Progressed, ServedSettled, Settled
<1>6. Numbered'
  BY <1>1, <1>2, <1>3 DEF Numbered
<1>7. ReadsYourWrites'
  <2> SUFFICES ASSUME NEW w \in Writes, Settled(w)'
               PROVE  /\ asked'[w] > 0
                      /\ shown'[Thread(w)].n >= asked'[w] /\ shown'[Thread(w)].ok
                           => w \in shown'[Thread(w)].seen
    BY DEF ReadsYourWrites
  <2>1. Settled(w) /\ asked'[w] = asked[w] /\ Thread(w) \in Threads
    BY <1>1, ThreadType DEF Settled
  <2>2. CASE Thread(w) = rd.thread
    BY <2>1, <2>2, <1>1, <1>2, <1>3 DEF ServedSettled, ReadsYourWrites
  <2>3. CASE Thread(w) # rd.thread
    BY <2>1, <2>3, <1>3 DEF ReadsYourWrites
  <2> QED BY <2>2, <2>3
<1> QED BY <1>4, <1>5, <1>6, <1>7

LEMMA FailStep ==
  ASSUME ListsInv, NEW rd \in reads, ListFails(rd)
  PROVE  ListsInv'
<1> USE DEF ListsInv
<1> DEFINE list == [n |-> rd.n, ok |-> FALSE, seen |-> {},
                       had |-> shown[rd.thread].had]
<1>1. /\ rd \in Read /\ rd.thread \in Threads
      /\ reads' = reads \ {rd}
      /\ shown' = [shown EXCEPT ![rd.thread] = list]
      /\ UNCHANGED <<me, db, stage, issued, asked>>
  BY DEF ListFails, TypeOK, Read
<1>2. list \in List /\ list.n = rd.n /\ ~list.ok
  BY <1>1 DEF List, Read, TypeOK
<1> HIDE DEF list
<1>3. \A th \in Threads : shown'[th] = IF th = rd.thread THEN list ELSE shown[th]
  BY <1>1 DEF TypeOK
<1>4. TypeOK'
  BY <1>1, <1>2 DEF TypeOK
<1>5. Progressed' /\ ServedSettled'
  BY <1>1 DEF Progressed, ServedSettled, Settled
<1>6. Numbered'
  BY <1>1, <1>2, <1>3 DEF Numbered
<1>7. ReadsYourWrites'
  BY <1>1, <1>2, <1>3, ThreadType DEF ReadsYourWrites, Settled
<1> QED BY <1>4, <1>5, <1>6, <1>7

---------------------------------------------------------------------------
(* The writes.                                                             *)

\* A step of a write that is not its answer: the write is not settled.
LEMMA UnansweredStep ==
  ASSUME ListsInv, NEW w \in Writes, NEW s \in {"sent", "done", "refused", "failed"},
         stage[w] # "answered",
         stage' = [stage EXCEPT ![w] = s],
         db' = db \/ db' = db \cup {w},
         w \in db' => s \in {"done", "failed"},
         s = "done" => w \in db',
         UNCHANGED <<me, issued, reads, shown, asked>>
  PROVE  ListsInv'
<1> USE DEF ListsInv
<1>1. s \in Stages /\ s # "answered"
  BY DEF Stages
<1>2. /\ stage' \in [Writes -> Stages]
      /\ stage'[w] = s
      /\ \A v \in Writes \ {w} : stage'[v] = stage[v] /\ (v \in db' <=> v \in db)
  BY <1>1, OneWrite
<1>3. \A v \in Writes : Settled(v)' => Settled(v)
  BY <1>1, <1>2 DEF Settled
<1>4. TypeOK'
  BY <1>2 DEF TypeOK
<1>5. Progressed'
  BY <1>1, <1>2 DEF Progressed
<1>6. Numbered'
  BY DEF Numbered
<1>7. ServedSettled' /\ ReadsYourWrites'
  BY <1>3 DEF ServedSettled, ReadsYourWrites
<1> QED BY <1>4, <1>5, <1>6, <1>7

\* The answer to a write, and the request it leads to: no list yet asked for
\* carries that request's number.
LEMMA RefreshStep ==
  ASSUME ListsInv, NEW w \in Writes, stage[w] \in {"done", "refused"}, Refresh(w)
  PROVE  ListsInv'
<1> USE DEF ListsInv
<1>1. /\ Thread(w) \in Threads /\ Ask(Thread(w))
      /\ stage' = [stage EXCEPT ![w] = "answered"]
      /\ asked' = [asked EXCEPT ![w] = issued + 1]
      /\ UNCHANGED <<me, db, shown>>
  BY ThreadType DEF Refresh
<1>2. /\ stage' \in [Writes -> Stages]
      /\ stage'[w] = "answered"
      /\ \A v \in Writes \ {w} : stage'[v] = stage[v]
  BY <1>1, OneWrite DEF Stages
<1>3. /\ issued \in Nat /\ issued' = issued + 1
      /\ reads' \subseteq Read
      /\ \A rd \in reads' : rd.n <= issued'
      /\ \A rd \in reads' : rd.served => rd \in reads
  BY <1>1, AskFacts DEF TypeOK
<1>4. /\ asked'[w] = issued + 1
      /\ \A v \in Writes \ {w} : asked'[v] = asked[v]
      /\ \A v \in Writes : asked[v] \in Nat
      /\ asked' \in [Writes -> Nat]
  BY <1>1, <1>3 DEF TypeOK
<1>5. TypeOK'
  BY <1>1, <1>2, <1>3, <1>4 DEF TypeOK
<1>6. Progressed'
  BY <1>1, <1>2, <1>3, <1>4 DEF Progressed
<1>7. Numbered'
  BY <1>1, <1>3 DEF Numbered, TypeOK, List
<1>8. \A v \in Writes : Settled(v)' => v = w \/ Settled(v)
  BY <1>1, <1>2 DEF Settled
<1>9. ServedSettled'
  <2> SUFFICES ASSUME NEW v \in Writes, Settled(v)', NEW rd \in reads',
                      rd.thread = Thread(v), rd.served, rd.n >= asked'[v]
               PROVE  v \in rd.seen
    BY DEF ServedSettled
  <2>1. rd \in reads /\ rd.n \in Nat /\ rd.n <= issued
    BY <1>3 DEF Numbered, TypeOK, Read
  <2>2. v # w
    BY <2>1, <1>3, <1>4
  <2> QED BY <2>1, <2>2, <1>4, <1>8 DEF ServedSettled
<1>10. ReadsYourWrites'
  <2> SUFFICES ASSUME NEW v \in Writes, Settled(v)'
               PROVE  /\ asked'[v] > 0
                      /\ shown[Thread(v)].n >= asked'[v] /\ shown[Thread(v)].ok
                           => v \in shown[Thread(v)].seen
    BY <1>1 DEF ReadsYourWrites
  <2>1. CASE v = w
    <3>1. Thread(w) \in Threads /\ shown[Thread(w)].n \in Nat
          /\ shown[Thread(w)].n <= issued
      BY <1>1 DEF Numbered, TypeOK, List
    <3> QED BY <2>1, <3>1, <1>3, <1>4
  <2>2. CASE v # w
    BY <2>2, <1>4, <1>8 DEF ReadsYourWrites
  <2> QED BY <2>1, <2>2
<1> QED BY <1>5, <1>6, <1>7, <1>9, <1>10

---------------------------------------------------------------------------
LEMMA ListsNext == ListsInv /\ [Next]_vars => ListsInv'
<1> SUFFICES ASSUME ListsInv, [Next]_vars PROVE ListsInv'
  OBVIOUS
<1>1. CASE MeIsReader
  BY <1>1, AskStep DEF MeIsReader, Threads
<1>2. CASE MeIsNobody
  BY <1>2 DEF MeIsNobody, ListsInv, TypeOK, Progressed, Numbered, ServedSettled,
              ReadsYourWrites, Settled
<1>3. ASSUME NEW w \in Writes, Send(w) PROVE ListsInv'
  <2>1. w \notin db
    BY <1>3 DEF Send, ListsInv, Progressed
  <2> QED BY <1>3, <2>1, UnansweredStep DEF Send
<1>4. ASSUME NEW w \in Writes, Carry(w) PROVE ListsInv'
  BY <1>4, UnansweredStep DEF Carry
<1>5. ASSUME NEW w \in Writes, Refuse(w) PROVE ListsInv'
  <2>1. w \notin db
    BY <1>5 DEF Refuse, ListsInv, Progressed
  <2> QED BY <1>5, <2>1, UnansweredStep DEF Refuse
<1>6. ASSUME NEW w \in Writes, Lose(w) PROVE ListsInv'
  <2>1. stage[w] # "answered" /\ stage' = [stage EXCEPT ![w] = "failed"]
        /\ UNCHANGED <<me, db, issued, reads, shown, asked>>
    BY <1>6 DEF Lose
  <2> QED BY <2>1, UnansweredStep
<1>7. ASSUME NEW w \in Writes, Done(w) PROVE ListsInv'
  BY <1>7, RefreshStep DEF Done
<1>8. ASSUME NEW w \in Writes, Refused(w) PROVE ListsInv'
  <2>1. CASE Refresh(w)
    BY <1>8, <2>1, RefreshStep DEF Refused
  <2>2. CASE ~Refresh(w)
    <3>1. stage[w] = "refused" /\ stage' = [stage EXCEPT ![w] = "failed"]
          /\ UNCHANGED <<me, db, issued, reads, shown, asked>>
      BY <1>8, <2>2 DEF Refused
    <3> QED BY <3>1, UnansweredStep
  <2> QED BY <2>1, <2>2
<1>9. ASSUME NEW rd \in reads, Listing(rd) PROVE ListsInv'
  BY <1>9, ServeStep, ShowStep, FailStep DEF Listing
<1>10. CASE UNCHANGED vars
  BY <1>10 DEF vars, ListsInv, TypeOK, Progressed, Numbered, ServedSettled,
               ReadsYourWrites, Settled
<1> QED BY <1>1, <1>2, <1>3, <1>4, <1>5, <1>6, <1>7, <1>8, <1>9, <1>10
        DEF Next, Server, Handler

---------------------------------------------------------------------------
(* The shell. What is on the screen depends on the width, which changes    *)
(* under open drawers: the state behind it does not.                       *)

\* Both drawers are never open, shown or not, and the page is held for either.
Held == /\ ~(drawer /\ tocDrawer)
        /\ held = (drawer \/ tocDrawer \/ searchOpen)

\* onScroll's flag is up exactly while a frame is due.
Framed == /\ ticking = frame
          /\ Reading!HeadingFollows

\* The selection is a number, and the dialog's other state what it may be.
Selected == /\ q \in Queries /\ docs \in {"none", "index", "empty"}
            /\ sel \in Int /\ early \in BOOLEAN
            /\ Reading!SelectionWithin

Switches == /\ drawer \in BOOLEAN /\ tocDrawer \in BOOLEAN /\ searchOpen \in BOOLEAN
            /\ held \in BOOLEAN
            /\ told \in BOOLEAN /\ ticking \in BOOLEAN /\ frame \in BOOLEAN
            /\ shifted \in BOOLEAN

ShellInv == Switches /\ Held /\ Framed /\ Selected

---------------------------------------------------------------------------
(* Initially, and one lemma for each group of actions. Each is about the   *)
(* state its group writes; Hold is the effect that ends every action.      *)

\* Nothing is open, due or selected.
LEMMA ShellInit == Reading!Init => ShellInv
<1> SUFFICES ASSUME Reading!Init PROVE ShellInv
  OBVIOUS
<1>1. /\ drawer = FALSE /\ tocDrawer = FALSE /\ held = FALSE /\ searchOpen = FALSE
      /\ told = FALSE /\ ticking = FALSE /\ frame = FALSE /\ shifted = FALSE
      /\ active = pos /\ sel = 0 /\ early = FALSE /\ docs = "none"
  BY Zenon DEF Reading!Init
<1>2. q \in Queries
  BY FieldAssumption, Zenon DEF Reading!Init
<1>3. Switches /\ Framed
  BY <1>1, Zenon DEF Switches, Framed, Reading!HeadingFollows
<1>4. Held
  BY <1>1, Zenon DEF Held
<1>5. Selected
  <2>1. Reading!SelectionWithin
    BY <1>1, Zenon DEF Reading!SelectionWithin
  <2>2. 0 \in Int
    OBVIOUS
  <2> QED BY <1>1, <1>2, <2>1, <2>2, Zenon DEF Selected
<1> QED
  BY <1>3, <1>4, <1>5 DEF ShellInv

\* A button, the scrim, a heading of the drawer or a resize opens at most one drawer.
LEMMA DrawersHeld ==
  ASSUME ShellInv, Reading!Next
  PROVE  /\ Held'
         /\ drawer' \in BOOLEAN /\ tocDrawer' \in BOOLEAN /\ searchOpen' \in BOOLEAN
         /\ held' \in BOOLEAN
<1> USE DEF ShellInv, Switches, Held
<1>1. drawer' \in BOOLEAN /\ tocDrawer' \in BOOLEAN /\ ~(drawer' /\ tocDrawer')
  <2>1. CASE Reading!SidebarButton
    BY <2>1 DEF Reading!SidebarButton, Reading!overlays
  <2>2. CASE Reading!TocButton
    BY <2>2 DEF Reading!TocButton, Reading!overlays
  <2>3. CASE Reading!LeaveDrawer
    BY <2>3 DEF Reading!LeaveDrawer
  <2>4. CASE Reading!FollowHeading
    BY <2>4 DEF Reading!FollowHeading, Reading!TocDocked
  <2>5. CASE UNCHANGED Reading!overlays
    BY <2>5 DEF Reading!overlays
  <2> QED
    BY <2>1, <2>2, <2>3, <2>4, <2>5
       DEF Reading!Next, Reading!Resize, Reading!OpenSearch, Reading!CloseSearch, Reading!InDialog, Reading!Scroll, Reading!FollowHit,
           Reading!OnScroll, Reading!Update, Reading!LayoutShifts
<1>2. searchOpen' \in BOOLEAN
  BY DEF Reading!Next, Reading!SidebarButton, Reading!TocButton, Reading!LeaveDrawer, Reading!Resize, Reading!OpenSearch, Reading!CloseSearch,
         Reading!NoSearch, Reading!InDialog, Reading!IndexArrives, Reading!Type, Reading!Select, Reading!Scroll, Reading!FollowHeading,
         Reading!FollowHit, Reading!OnScroll, Reading!Update, Reading!LayoutShifts, Reading!search
<1>3. held' = (drawer' \/ tocDrawer' \/ searchOpen')
  BY DEF Reading!Next, Reading!Hold
<1> QED BY <1>1, <1>2, <1>3

\* An event that comes while a frame is due is dropped, but the frame is still due.
LEMMA ScrollFramed ==
  ASSUME ShellInv, Reading!Next
  PROVE  /\ Framed'
         /\ told' \in BOOLEAN /\ ticking' \in BOOLEAN /\ frame' \in BOOLEAN
         /\ shifted' \in BOOLEAN
<1> USE DEF ShellInv, Switches, Framed, Reading!HeadingFollows
<1>1. CASE UNCHANGED Reading!scroll
  BY <1>1 DEF Reading!scroll
<1>2. CASE /\ told' = TRUE /\ UNCHANGED <<ticking, frame, active, shifted>>
  BY <1>2
<1>3. CASE Reading!OnScroll
  BY <1>3 DEF Reading!OnScroll
<1>4. CASE Reading!Update
  BY <1>4 DEF Reading!Update
<1>5. CASE Reading!LayoutShifts
  BY <1>5 DEF Reading!LayoutShifts
<1> QED
  BY <1>1, <1>2, <1>3, <1>4, <1>5
     DEF Reading!Next, Reading!SidebarButton, Reading!TocButton, Reading!LeaveDrawer, Reading!Resize, Reading!OpenSearch, Reading!CloseSearch,
         Reading!InDialog, Reading!Scroll, Reading!FollowHeading, Reading!FollowHit, Reading!MoveTo

\* A selection that is -1 too early, or else 0 or of an item.
LEMMA SelectedNow ==
  ASSUME docs' \in {"none", "index", "empty"}, q' \in Queries,
         \/ early' = TRUE /\ sel' = -1
         \/ early' = FALSE /\ (sel' = 0 \/ sel' \in 0 .. Reading!Items' - 1)
  PROVE  Selected'
<1>1. sel' \in Int
  <2>1. Reading!Items' \in Nat
    BY HitsAssumption DEF Reading!Items
  <2> QED BY <2>1
<1>2. early' \in BOOLEAN /\ Reading!SelectionWithin'
  BY Zenon DEF Reading!SelectionWithin
<1> QED BY <1>1, <1>2, Zenon DEF Selected

\* A selection is -1, 0 or of an item.
LEMMA SelectedAtLeast ==
  ASSUME ShellInv
  PROVE  sel = -1 \/ sel = 0 \/ sel \in 0 .. Reading!Items - 1
BY Zenon DEF ShellInv, Selected, Reading!SelectionWithin

\* The list changes its length only with the index, while the selection is 0 or that
\* of an ArrowDown too early, and with the query, which takes the selection back.
LEMMA SearchSelected ==
  ASSUME ShellInv, Reading!Next
  PROVE  Selected'
<1>1. Reading!Items \in Nat /\ sel \in Int /\ docs \in {"none", "index", "empty"} /\ q \in Queries
  BY HitsAssumption DEF Reading!Items, ShellInv, Selected
<1>2. CASE UNCHANGED Reading!search
  BY <1>2, Zenon DEF Reading!search, Reading!Items, ShellInv, Selected, Reading!SelectionWithin
<1>3. CASE Reading!OpenSearch \/ Reading!CloseSearch
  <2>1. sel' = 0 /\ early' = FALSE /\ docs' = "none"
    BY <1>3, Zenon DEF Reading!OpenSearch, Reading!CloseSearch, Reading!NoSearch,
                       Reading!NewSearch
  <2>2. q' \in Queries
    BY <1>3, FieldAssumption, Zenon
       DEF Reading!OpenSearch, Reading!CloseSearch, Reading!NoSearch, Reading!NewSearch
  <2> QED BY <2>1, <2>2, SelectedNow
<1>4. CASE Reading!IndexArrives
  <2>1. Reading!Items = 0 /\ sel' = sel /\ early' = early /\ q' = q
    BY <1>4, Zenon DEF Reading!IndexArrives, Reading!Items
  <2>2. docs' \in {"none", "index", "empty"} /\ q' \in Queries
    BY <1>1, <1>4 DEF Reading!IndexArrives
  <2>3. CASE early = TRUE
    <3>1. sel' = -1 /\ early' = TRUE
      BY <2>1, <2>3, Zenon DEF ShellInv, Selected, Reading!SelectionWithin
    <3> QED BY <2>2, <3>1, SelectedNow
  <2>4. CASE early = FALSE
    <3>1. sel = 0 \/ sel \in 0 .. Reading!Items - 1
      BY <2>4, Zenon DEF ShellInv, Selected, Reading!SelectionWithin
    <3>2. sel' = 0 /\ early' = FALSE
      BY <1>1, <2>1, <2>4, <3>1
    <3> QED BY <2>2, <3>2, SelectedNow
  <2> QED BY <2>3, <2>4, Zenon DEF ShellInv, Selected
<1>5. CASE Reading!Type
  BY <1>1, <1>5, SelectedNow DEF Reading!Type
<1>6. CASE Reading!Select
  <2>1. /\ Reading!Items' = Reading!Items
        /\ docs' \in {"none", "index", "empty"} /\ q' \in Queries
    BY <1>1, <1>6 DEF Reading!Select, Reading!Items
  <2>2. CASE Reading!ArrowDown
    <3>1. CASE Reading!Items = 0
      <4>1. early' = TRUE
        BY <2>2, <3>1, Zenon DEF Reading!ArrowDown
      <4>2. sel' = -1
        BY <1>1, <2>2, <3>1, SelectedAtLeast DEF Reading!ArrowDown
      <4> QED BY <2>1, <4>1, <4>2, SelectedNow
    <3>2. CASE Reading!Items # 0
      <4>1. early' = FALSE
        BY <2>2, <3>2, Zenon DEF Reading!ArrowDown
      <4>2. sel' \in 0 .. Reading!Items - 1
        BY <1>1, <2>2, <3>2, SelectedAtLeast DEF Reading!ArrowDown
      <4> QED BY <1>1, <2>1, <4>1, <4>2, SelectedNow
    <3> QED BY <3>1, <3>2
  <2>3. CASE Reading!ArrowUp
    <3>1. /\ early' = FALSE
          /\ sel' = 0 \/ sel' \in 0 .. Reading!Items - 1
      BY <1>1, <2>3, SelectedAtLeast DEF Reading!ArrowUp
    <3> QED BY <1>1, <2>1, <3>1, SelectedNow
  <2>4. CASE Reading!Hover
    BY <1>1, <2>1, <2>4, SelectedNow DEF Reading!Hover
  <2> QED BY <1>6, <2>2, <2>3, <2>4 DEF Reading!Select
<1> QED
  BY <1>2, <1>3, <1>4, <1>5, <1>6
     DEF Reading!Next, Reading!SidebarButton, Reading!TocButton, Reading!LeaveDrawer, Reading!Resize, Reading!InDialog, Reading!Scroll,
         Reading!FollowHeading, Reading!FollowHit, Reading!OnScroll, Reading!Update, Reading!LayoutShifts

\* Every step preserves the inductive invariant.
LEMMA ShellNext == ShellInv /\ [Reading!Next]_(Reading!vars) => ShellInv'
<1>1. CASE UNCHANGED Reading!vars
  BY <1>1 DEF Reading!vars, Reading!columns, Reading!overlays, Reading!search, Reading!scroll, ShellInv, Switches, Held, Framed,
              Reading!HeadingFollows, Selected, Reading!SelectionWithin, Reading!Items
<1> QED
  BY <1>1, DrawersHeld, ScrollFramed, SearchSelected DEF ShellInv, Switches

---------------------------------------------------------------------------
(* The account widgets.                                                    *)

MenuTyped == /\ user \in {"asked", "reader", "nobody"}
             /\ menu \in Widgets!Tabs \cup {"closed", "gone"}
             /\ items \in Widgets!Tabs \cup {"none", "empty"}
             /\ tabAsked \in Nat /\ tabShown \in 0 .. tabAsked
             /\ spent \in tabAsked .. MaxAsks
             /\ asks \subseteq [n : 1 .. tabAsked, tab : Widgets!Tabs]

\* The latest request is for the list of the tab on show.
LatestOfTab == \A ask \in asks : ask.n = tabAsked => ask.tab = menu

MenuInv == MenuTyped /\ LatestOfTab /\ Widgets!ItemsOfTab

ButtonTyped == /\ on \in BOOLEAN /\ saved \in BOOLEAN /\ sure \in BOOLEAN
               /\ toggles \in 0 .. MaxToggles
               /\ calls \subseteq Widgets!Call
               /\ user = "asked" => calls = {} /\ ~sure

\* A request that is alone under way is the only one, and its answer stays true.
AloneTrue == \A call \in calls : call.alone => calls = {call} /\ (call.served => call.answer = saved)

SureTrue == sure => calls = {} /\ on = saved

ButtonInv == ButtonTyped /\ AloneTrue /\ SureTrue

WidgetsInv == MenuInv /\ ButtonInv

LEMMA ButtonStays ==
  ASSUME ButtonInv, UNCHANGED <<on, saved, toggles, calls, sure, user>> PROVE ButtonInv'
BY DEF ButtonInv, ButtonTyped, AloneTrue, SureTrue, Widgets!Call

LEMMA MenuStays ==
  ASSUME MenuInv, UNCHANGED <<menu, items, tabAsked, asks, tabShown, spent>>,
         user' \in {"asked", "reader", "nobody"}
  PROVE  MenuInv'
BY DEF MenuInv, MenuTyped, LatestOfTab, Widgets!ItemsOfTab, Widgets!Tabs

LEMMA WidgetsInit == Widgets!Init => WidgetsInv
<1> SUFFICES ASSUME Widgets!Init PROVE WidgetsInv
  OBVIOUS
<1>1. MenuInv
  BY BoundsAssumption DEF Widgets!Init, MenuInv, MenuTyped, LatestOfTab, Widgets!ItemsOfTab
<1>2. ButtonInv
  <2>1. on = FALSE /\ sure = FALSE /\ calls = {} /\ toggles = 0 /\ saved \in BOOLEAN
        /\ user = "asked"
    BY Zenon DEF Widgets!Init
  <2>2. toggles \in 0 .. MaxToggles
    BY <2>1, BoundsAssumption
  <2> QED BY <2>1, <2>2, Zenon DEF ButtonInv, ButtonTyped, AloneTrue, SureTrue
<1> QED BY <1>1, <1>2 DEF WidgetsInv

LEMMA ChooseKeeps ==
  ASSUME MenuInv, NEW tab \in Widgets!Tabs, spent < MaxAsks,
         Widgets!Choose(tab), UNCHANGED user
  PROVE  MenuInv'
<1>1. MenuTyped'
  BY BoundsAssumption DEF MenuInv, MenuTyped, Widgets!Choose, Widgets!Tabs
<1>2. LatestOfTab'
  BY DEF MenuInv, MenuTyped, LatestOfTab, Widgets!Choose, Widgets!Tabs
<1>3. Widgets!ItemsOfTab'
  BY DEF MenuInv, MenuTyped, Widgets!ItemsOfTab, Widgets!Choose
<1> QED
  BY <1>1, <1>2, <1>3 DEF MenuInv

LEMMA AnswersKeep ==
  ASSUME MenuInv, NEW ask \in asks, Widgets!ItemsCome(ask) \/ Widgets!HeaderFails(ask)
  PROVE  MenuInv'
<1>1. MenuTyped'
  BY BoundsAssumption DEF MenuInv, MenuTyped, Widgets!ItemsCome, Widgets!HeaderFails, Widgets!Tabs
<1>2. LatestOfTab'
  BY DEF MenuInv, MenuTyped, LatestOfTab, Widgets!ItemsCome, Widgets!HeaderFails
<1>3. Widgets!ItemsOfTab'
  BY DEF MenuInv, MenuTyped, LatestOfTab, Widgets!ItemsOfTab, Widgets!ItemsCome, Widgets!HeaderFails
<1> QED
  BY <1>1, <1>2, <1>3 DEF MenuInv

\* The record of a request that goes out, that is no longer alone, and that has
\* been carried out.
LEMMA SentCall ==
  ASSUME NEW number \in 0 .. MaxToggles, NEW alone \in BOOLEAN,
         NEW call, call = [n |-> number, alone |-> alone, served |-> FALSE, answer |-> FALSE]
  PROVE  call \in Widgets!Call /\ call.alone = alone /\ call.served = FALSE
BY DEF Widgets!Call

LEMMA JoinedCall ==
  ASSUME NEW call \in Widgets!Call, NEW joined, joined = [call EXCEPT !.alone = FALSE]
  PROVE  joined \in Widgets!Call /\ joined.alone = FALSE
BY DEF Widgets!Call

LEMMA CarriedCall ==
  ASSUME NEW call \in Widgets!Call, NEW answer \in BOOLEAN,
         NEW done, done = [call EXCEPT !.served = TRUE, !.answer = answer]
  PROVE  done \in Widgets!Call /\ done.alone = call.alone /\ done.answer = answer
BY DEF Widgets!Call

LEMMA ToggleKeeps == ASSUME ButtonInv, Widgets!Toggle PROVE ButtonInv'
<1> DEFINE new    == [n |-> toggles + 1, alone |-> calls = {}, served |-> FALSE, answer |-> FALSE]
           others == {[call EXCEPT !.alone = FALSE] : call \in calls}
<1>1. calls' = others \cup {new} /\ sure' = FALSE
      /\ toggles' = toggles + 1 /\ toggles < MaxToggles /\ user = "reader"
      /\ UNCHANGED <<user, on, saved>>
  BY Zenon DEF Widgets!Toggle
<1>2. new \in Widgets!Call /\ new.alone = (calls = {}) /\ new.served = FALSE
  <2>1. toggles + 1 \in 0 .. MaxToggles
    BY <1>1, BoundsAssumption DEF ButtonInv, ButtonTyped
  <2>2. (calls = {}) \in BOOLEAN
    OBVIOUS
  <2> QED BY <2>1, <2>2, SentCall, Zenon
<1>3. \A other \in others : other \in Widgets!Call /\ other.alone = FALSE
  <2> SUFFICES ASSUME NEW call \in calls, NEW other, other = [call EXCEPT !.alone = FALSE]
               PROVE  other \in Widgets!Call /\ other.alone = FALSE
    BY Zenon
  <2>1. call \in Widgets!Call
    BY DEF ButtonInv, ButtonTyped
  <2> QED BY <2>1, JoinedCall, Zenon
<1>4. calls = {} => others = {}
  OBVIOUS
<1> HIDE DEF new, others
<1>5. ButtonTyped'
  <2>1. calls' \subseteq Widgets!Call
    BY <1>1, <1>2, <1>3
  <2>2. toggles' \in 0 .. MaxToggles
    BY <1>1, BoundsAssumption DEF ButtonInv, ButtonTyped
  <2>3. user' # "asked"
    BY <1>1
  <2> QED BY <1>1, <2>1, <2>2, <2>3, Zenon DEF ButtonInv, ButtonTyped
<1>6. AloneTrue'
  BY <1>1, <1>2, <1>3, <1>4 DEF AloneTrue
<1>7. SureTrue'
  BY <1>1 DEF SureTrue
<1> QED
  BY <1>5, <1>6, <1>7 DEF ButtonInv

LEMMA CallsKeep ==
  ASSUME ButtonInv, NEW call \in calls,
         Widgets!Carry(call) \/ Widgets!Answered(call) \/ Widgets!Failed(call)
  PROVE  ButtonInv'
<1> USE DEF ButtonInv
<1>1. CASE Widgets!Carry(call)
  <2>1. PICK done \in Widgets!Call : /\ done = [call EXCEPT !.served = TRUE, !.answer = saved']
                              /\ calls' = (calls \ {call}) \cup {done}
                              /\ done.alone = call.alone /\ done.answer = saved'
    <3>1. saved' \in BOOLEAN
      BY <1>1, Zenon DEF Widgets!Carry, ButtonTyped
    <3>2. call \in Widgets!Call
      BY DEF ButtonTyped
    <3> QED BY <1>1, <3>1, <3>2, CarriedCall, Zenon DEF Widgets!Carry
  <2>2. ButtonTyped'
    BY <1>1, <2>1 DEF Widgets!Carry, ButtonTyped
  <2>3. AloneTrue'
    BY <1>1, <2>1 DEF Widgets!Carry, AloneTrue
  <2>4. SureTrue'
    BY <1>1 DEF Widgets!Carry, SureTrue
  <2> QED BY <2>2, <2>3, <2>4
<1>2. CASE Widgets!Answered(call)
  BY <1>2 DEF Widgets!Answered, Widgets!Shows, ButtonTyped, AloneTrue, SureTrue, Widgets!Call
<1>3. CASE Widgets!Failed(call)
  BY <1>3 DEF Widgets!Failed, ButtonTyped, AloneTrue, SureTrue
<1> QED BY <1>1, <1>2, <1>3

LEMMA WidgetsNext ==
  WidgetsInv /\ [Widgets!Next]_(Widgets!vars) => WidgetsInv'
<1> SUFFICES ASSUME WidgetsInv, [Widgets!Next]_(Widgets!vars) PROVE WidgetsInv'
  OBVIOUS
<1> USE DEF WidgetsInv
<1>1. CASE Widgets!Me
  <2>1. ButtonInv'
    <3>1. calls' = {} \/ \E call \in Widgets!Call : calls' = {call} /\ call.served = FALSE
      <4>1. CASE user' = "nobody"
        BY <1>1, <4>1 DEF Widgets!Me, ButtonInv, ButtonTyped
      <4>2. CASE calls' = {[n |-> 0, alone |-> TRUE, served |-> FALSE, answer |-> FALSE]}
        <5>1. 0 \in 0 .. MaxToggles
          BY BoundsAssumption
        <5> QED BY <4>2, <5>1, SentCall, Zenon
      <4> QED BY <1>1, <4>1, <4>2, Zenon DEF Widgets!Me
    <3>2. user' \in {"reader", "nobody"} /\ calls = {} /\ UNCHANGED <<on, saved, toggles, sure>>
      BY <1>1 DEF Widgets!Me, ButtonInv, ButtonTyped
    <3> QED BY <1>1, <3>1, <3>2 DEF Widgets!Me, ButtonInv, ButtonTyped, AloneTrue, SureTrue
  <2> QED BY <1>1, <2>1, MenuStays DEF Widgets!Me, Widgets!menuVars
<1>2. CASE Widgets!OpenMenu \/ Widgets!ChooseTab
  <2>1. UNCHANGED <<on, saved, toggles, calls, sure, user>>
    BY <1>2 DEF Widgets!OpenMenu, Widgets!ChooseTab, Widgets!buttonVars
  <2>2. PICK tab \in Widgets!Tabs : Widgets!Choose(tab)
    BY <1>2 DEF Widgets!OpenMenu, Widgets!ChooseTab, Widgets!Tabs
  <2>3. spent < MaxAsks
    BY <1>2 DEF Widgets!OpenMenu, Widgets!ChooseTab
  <2> QED BY <2>1, <2>2, <2>3, ButtonStays, ChooseKeeps
<1>3. CASE Widgets!CloseMenu
  <2>1. UNCHANGED <<on, saved, toggles, calls, sure, user>>
    BY <1>3 DEF Widgets!CloseMenu, Widgets!buttonVars
  <2>2. MenuInv'
    BY <1>3 DEF Widgets!CloseMenu, MenuInv, MenuTyped, LatestOfTab, Widgets!ItemsOfTab, Widgets!Tabs
  <2> QED BY <2>1, <2>2, ButtonStays
<1>4. CASE Widgets!Toggle
  BY <1>4, ToggleKeeps, MenuStays DEF Widgets!Toggle, Widgets!menuVars, MenuInv, MenuTyped
<1>5. ASSUME NEW ask \in asks, Widgets!ItemsCome(ask) \/ Widgets!HeaderFails(ask)
      PROVE  WidgetsInv'
  BY <1>5, AnswersKeep, ButtonStays DEF Widgets!ItemsCome, Widgets!HeaderFails, Widgets!buttonVars
<1>6. ASSUME NEW call \in calls,
             Widgets!Carry(call) \/ Widgets!Answered(call) \/ Widgets!Failed(call)
      PROVE  WidgetsInv'
  BY <1>6, CallsKeep, MenuStays
     DEF Widgets!Carry, Widgets!Answered, Widgets!Failed, Widgets!menuVars, MenuInv, MenuTyped
<1>7. CASE UNCHANGED Widgets!vars
  BY <1>7, MenuStays, ButtonStays
     DEF Widgets!vars, Widgets!menuVars, Widgets!buttonVars, MenuInv, MenuTyped
<1> QED
  BY <1>1, <1>2, <1>3, <1>4, <1>5, <1>6, <1>7 DEF Widgets!Next

LEMMA WidgetsShow ==
  ASSUME WidgetsInv PROVE Widgets!ItemsOfTab /\ Widgets!ButtonTrue
<1>1. asks \subseteq [n : 1 .. MaxAsks, tab : Widgets!Tabs]
  BY BoundsAssumption DEF WidgetsInv, MenuInv, MenuTyped
<1> QED
  BY <1>1 DEF WidgetsInv, MenuInv, MenuTyped, ButtonInv, ButtonTyped, SureTrue,
              Widgets!ButtonTrue, Widgets!TypeOK

---------------------------------------------------------------------------
(* The strengthening. What a composer is about may change only while it    *)
(* holds no text: a text lives on the page, where only its own handlers    *)
(* reach it.                                                               *)

\* What a composer may be about, and a write may have been begun as.
AnySubject == {"page", "comment", "note", Drafts!Nothing} \cup Comments
Aims == [place : Drafts!Places, subject : AnySubject, passage : Passages \cup {Drafts!Nothing}]

OpenTyped == open \in [Drafts!Places -> AnySubject] /\ aim \in Seq(Aims)
PostsTyped == posts \subseteq [text : 1 .. texts, aim : Aims, gone : BOOLEAN]

\* A text is in a composer on the page only.
TextsShown == \A place \in Drafts!Places : text[place] # 0 => Drafts!OnShow(place)

\* No two composers, no two writes, and no composer and write have the same text.
OncePlaced == \A a, b \in Drafts!Places : text[a] # 0 /\ text[a] = text[b] => a = b
OncePosted == \A a, b \in posts : a.text = b.text => a = b
OneOrOther == \A place \in Drafts!Places, post \in posts : text[place] # post.text

DraftsInv == /\ Drafts!TypeOK /\ OpenTyped /\ PostsTyped /\ TextsShown
             /\ OncePlaced /\ OncePosted /\ OneOrOther
             /\ Drafts!SentAsBegun /\ Drafts!NeverStuck

---------------------------------------------------------------------------
(* What emptying composers keeps.                                          *)

\* Texts that stay are where they were.
LEMMA KeptTexts ==
  ASSUME Drafts!TypeOK, NEW closed, Drafts!Kept(closed)
  PROVE  /\ text' \in [Drafts!Places -> 0 .. texts]
         /\ \A place \in Drafts!Places : text'[place] # 0 => /\ text'[place] = text[place]
                                                             /\ place \notin closed
BY DEF Drafts!Kept, Drafts!TypeOK

\* A composer's aim is its subject and, in the popover, the selected passage.
LEMMA SameAim ==
  ASSUME NEW place \in Drafts!Places, open'[place] = open[place],
         place = "popover" => mark' = mark
  PROVE  Drafts!Aim(place)' = Drafts!Aim(place)
BY DEF Drafts!Aim

\* A composer's aim is one that a write may have.
LEMMA AimTyped ==
  ASSUME Drafts!TypeOK, OpenTyped, NEW place \in Drafts!Places
  PROVE  Drafts!Aim(place) \in Aims
BY DEF Drafts!Aim, Aims, OpenTyped, Drafts!TypeOK

\* As long as what stays open is untouched, emptying some composers and ending
\* or marking some writes keeps every text in one place and true to its aim.
LEMMA ClosingKeeps ==
  ASSUME DraftsInv, NEW closed, Drafts!Kept(closed), UNCHANGED <<texts, aim>>,
         PostsTyped',
         \A post \in posts' : \E was \in posts : /\ post.text = was.text
                                                 /\ post.aim = was.aim,
         OncePosted',
         \A place \in Drafts!Places \ closed : text[place] # 0 =>
            /\ open'[place] = open[place] /\ (place = "popover" => mark' = mark)
            /\ place \in {"reply", "edit"} => listed'
  PROVE  TextsShown' /\ OncePlaced' /\ OneOrOther' /\ Drafts!SentAsBegun'
<1>1. \A place \in Drafts!Places : text'[place] # 0 =>
        /\ text'[place] = text[place] /\ place \notin closed
        /\ open'[place] = open[place] /\ (place = "popover" => mark' = mark)
        /\ place \in {"reply", "edit"} => listed'
  BY KeptTexts DEF DraftsInv
<1>2. TextsShown'
  BY <1>1 DEF TextsShown, DraftsInv, Drafts!OnShow
<1>3. OncePlaced'
  BY <1>1 DEF OncePlaced, DraftsInv
<1>4. OneOrOther'
  <2> SUFFICES ASSUME NEW place \in Drafts!Places, NEW post \in posts',
                      text'[place] = post.text
               PROVE  FALSE
    BY DEF OneOrOther
  <2>1. PICK was \in posts : post.text = was.text
    OBVIOUS
  <2>2. was.text # 0
    BY DEF DraftsInv, PostsTyped
  <2> QED BY <1>1, <2>1, <2>2 DEF DraftsInv, OneOrOther
<1>5. Drafts!SentAsBegun'
  <2>1. ASSUME NEW post \in posts' PROVE aim'[post.text] = post.aim
    BY DEF DraftsInv, Drafts!SentAsBegun
  <2>2. ASSUME NEW place \in Drafts!Places, text'[place] # 0
        PROVE  aim'[text'[place]] = Drafts!Aim(place)'
    BY <1>1, <2>2, SameAim DEF DraftsInv, Drafts!SentAsBegun
  <2> QED BY <2>1, <2>2 DEF Drafts!SentAsBegun
<1> QED BY <1>2, <1>3, <1>4, <1>5

\* Writes that stay as they are, and those that lose the comment they edit.
LEMMA PostsStay ==
  ASSUME DraftsInv, UNCHANGED texts, posts' \subseteq posts
  PROVE  /\ PostsTyped' /\ OncePosted'
         /\ \A post \in posts' : \E was \in posts : /\ post.text = was.text
                                                    /\ post.aim = was.aim
BY DEF DraftsInv, PostsTyped, OncePosted

LEMMA PostsGone ==
  ASSUME DraftsInv, UNCHANGED texts, posts' = {[post EXCEPT !.gone = TRUE] : post \in posts}
  PROVE  /\ PostsTyped' /\ OncePosted'
         /\ \A post \in posts' : \E was \in posts : /\ post.text = was.text
                                                    /\ post.aim = was.aim
<1>1. ASSUME NEW was \in posts
      PROVE  /\ [was EXCEPT !.gone = TRUE] \in [text : 1 .. texts, aim : Aims, gone : BOOLEAN]
             /\ [was EXCEPT !.gone = TRUE].text = was.text
             /\ [was EXCEPT !.gone = TRUE].aim = was.aim
  BY DEF DraftsInv, PostsTyped
<1>2. PostsTyped'
  BY <1>1 DEF PostsTyped
<1>3. OncePosted'
  BY <1>1 DEF OncePosted, DraftsInv
<1> QED BY <1>1, <1>2, <1>3

---------------------------------------------------------------------------
(* The initial states, and one lemma for each group of actions.            *)

\* The composer above the list is open, and nothing is typed.
LEMMA DraftsInit == ASSUME MaxTexts \in Nat PROVE Drafts!Init => DraftsInv
<1> SUFFICES ASSUME MaxTexts \in Nat, Drafts!Init PROVE DraftsInv
  OBVIOUS
<1>1. Drafts!TypeOK
  BY DEF Drafts!Init, Drafts!TypeOK, Drafts!Subjects, Drafts!Places, Drafts!Nothing
<1>2. OpenTyped
  BY DEF Drafts!Init, OpenTyped, AnySubject
<1> QED
  BY <1>1, <1>2 DEF Drafts!Init, DraftsInv, PostsTyped, TextsShown, OncePlaced, OncePosted,
                    OneOrOther,
                    Drafts!SentAsBegun, Drafts!NeverStuck, Drafts!Places

\* A selection is taken while nothing is composed, so no text is about it.
LEMMA SelectKeeps == DraftsInv /\ Drafts!Select => DraftsInv'
<1> SUFFICES ASSUME DraftsInv, Drafts!Select PROVE DraftsInv'
  OBVIOUS
<1>1. UNCHANGED <<open, text, texts, aim, posts, listed>> /\ open["popover"] = Drafts!Nothing
      /\ mark' \in Passages \cup {Drafts!Nothing}
  BY DEF Drafts!Select
<1>2. \A place \in Drafts!Places : text[place] # 0 => place # "popover"
  BY <1>1 DEF DraftsInv, TextsShown, Drafts!OnShow
<1>3. Drafts!TypeOK' /\ OpenTyped' /\ PostsTyped' /\ Drafts!NeverStuck'
  BY <1>1 DEF DraftsInv, Drafts!TypeOK, OpenTyped, PostsTyped, Drafts!NeverStuck
<1>4. TextsShown'
  BY <1>1, <1>2 DEF DraftsInv, TextsShown, Drafts!OnShow
<1>5. OncePlaced' /\ OncePosted' /\ OneOrOther'
  BY <1>1 DEF DraftsInv, OncePlaced, OncePosted, OneOrOther
<1>6. \A place \in Drafts!Places : text[place] # 0 => Drafts!Aim(place)' = Drafts!Aim(place)
  BY <1>1, <1>2, SameAim
<1>7. Drafts!SentAsBegun'
  BY <1>1, <1>6 DEF DraftsInv, Drafts!SentAsBegun
<1> QED BY <1>3, <1>4, <1>5, <1>7 DEF DraftsInv

\* A composer opened under a comment or over a passage starts empty.
LEMMA OpenKeeps ==
  ASSUME NEW place \in Drafts!Places PROVE DraftsInv /\ Drafts!Open(place) => DraftsInv'
<1> SUFFICES ASSUME DraftsInv, Drafts!Open(place) PROVE DraftsInv'
  OBVIOUS
<1>1. UNCHANGED <<mark, texts, aim, posts, listed>> /\ Drafts!Kept({place})
  BY DEF Drafts!Open
<1>2. PICK subject \in Drafts!Subjects(place) : open' = [open EXCEPT ![place] = subject]
  BY DEF Drafts!Open
<1>3. /\ \A other \in Drafts!Places \ {place} : open'[other] = open[other]
      /\ open'[place] = subject /\ OpenTyped'
  BY <1>1, <1>2 DEF DraftsInv, OpenTyped, AnySubject, Drafts!Subjects
<1>4. Drafts!TypeOK'
  BY <1>1, <1>2, <1>3, KeptTexts DEF DraftsInv, Drafts!TypeOK
<1>5. /\ PostsTyped' /\ OncePosted'
      /\ \A post \in posts' : \E was \in posts : /\ post.text = was.text
                                                 /\ post.aim = was.aim
  BY <1>1, PostsStay
<1>6. \A other \in Drafts!Places \ {place} : text[other] # 0 =>
         /\ open'[other] = open[other] /\ (other = "popover" => mark' = mark)
         /\ other \in {"reply", "edit"} => listed'
  BY <1>1, <1>3 DEF DraftsInv, TextsShown, Drafts!OnShow
<1>7. TextsShown' /\ OncePlaced' /\ OneOrOther' /\ Drafts!SentAsBegun'
  <2> DEFINE closed == {place}
  <2>1. Drafts!Kept(closed)
    BY <1>1
  <2> HIDE DEF closed
  <2>2. \A other \in Drafts!Places \ closed : text[other] # 0 =>
         /\ open'[other] = open[other] /\ (other = "popover" => mark' = mark)
         /\ other \in {"reply", "edit"} => listed'
    BY <1>6 DEF closed
  <2> QED BY <2>1, <2>2, <1>1, <1>5, ClosingKeeps
<1>8. Drafts!NeverStuck'
  BY <1>1, <1>3 DEF DraftsInv, Drafts!NeverStuck, Drafts!Open, Drafts!Places
<1> QED BY <1>3, <1>4, <1>5, <1>7, <1>8 DEF DraftsInv

\* A composer that is cancelled takes its text along, and the popover the selection.
LEMMA CancelKeeps ==
  ASSUME NEW place \in Drafts!Places PROVE DraftsInv /\ Drafts!Cancel(place) => DraftsInv'
<1> SUFFICES ASSUME DraftsInv, Drafts!Cancel(place) PROVE DraftsInv'
  OBVIOUS
<1>1. /\ UNCHANGED <<texts, aim, posts, listed>> /\ Drafts!Kept({place})
      /\ open' = [open EXCEPT ![place] = Drafts!Nothing]
      /\ mark' = IF place = "popover" THEN Drafts!Nothing ELSE mark
  BY DEF Drafts!Cancel
<1>2. /\ \A other \in Drafts!Places \ {place} : open'[other] = open[other]
      /\ open'[place] = Drafts!Nothing /\ OpenTyped'
  BY <1>1 DEF DraftsInv, OpenTyped, AnySubject
<1>3. Drafts!TypeOK'
  BY <1>1, <1>2, KeptTexts DEF DraftsInv, Drafts!TypeOK
<1>4. /\ PostsTyped' /\ OncePosted'
      /\ \A post \in posts' : \E was \in posts : /\ post.text = was.text
                                                 /\ post.aim = was.aim
  BY <1>1, PostsStay
<1>5. TextsShown' /\ OncePlaced' /\ OneOrOther' /\ Drafts!SentAsBegun'
  <2> DEFINE closed == {place}
  <2>1. Drafts!Kept(closed)
    BY <1>1
  <2>2. \A other \in Drafts!Places \ closed : text[other] # 0 =>
         /\ open'[other] = open[other] /\ (other = "popover" => mark' = mark)
         /\ other \in {"reply", "edit"} => listed'
    BY <1>1, <1>2 DEF DraftsInv, TextsShown, Drafts!OnShow
  <2> HIDE DEF closed
  <2> QED BY <2>1, <2>2, <1>1, <1>4, ClosingKeeps
<1>6. Drafts!NeverStuck'
  BY <1>1, <1>2 DEF DraftsInv, Drafts!NeverStuck, Drafts!Places
<1> QED BY <1>2, <1>3, <1>4, <1>5, <1>6 DEF DraftsInv

\* A text that is begun has a number nothing else has.
LEMMA TypeKeeps ==
  ASSUME MaxTexts \in Nat, NEW place \in Drafts!Places PROVE DraftsInv /\ Drafts!Type(place) => DraftsInv'
<1> SUFFICES ASSUME DraftsInv, Drafts!Type(place) PROVE DraftsInv'
  OBVIOUS
<1>1. /\ UNCHANGED <<open, mark, posts, listed>> /\ Drafts!OnShow(place)
      /\ texts < MaxTexts /\ texts' = texts + 1 /\ texts \in Nat
      /\ text' = [text EXCEPT ![place] = texts + 1]
      /\ aim' = Append(aim, Drafts!Aim(place))
      /\ text \in [Drafts!Places -> 0 .. texts]
  BY DEF Drafts!Type, DraftsInv, Drafts!TypeOK
<1>2. /\ text'[place] = texts + 1
      /\ \A other \in Drafts!Places \ {place} : text'[other] = text[other]
      /\ text' \in [Drafts!Places -> 0 .. texts']
  BY <1>1
<1>3. /\ DOMAIN aim' = 1 .. texts' /\ aim'[texts + 1] = Drafts!Aim(place)
      /\ \A n \in 1 .. texts : aim'[n] = aim[n]
      /\ aim' \in Seq(Aims)
  <2>1. aim \in Seq(Aims) /\ Len(aim) = texts
    BY <1>1 DEF DraftsInv, Drafts!TypeOK, OpenTyped
  <2>2. Drafts!Aim(place) \in Aims
    BY <1>1, AimTyped DEF DraftsInv
  <2> QED BY <1>1, <2>1, <2>2
<1>4. Drafts!TypeOK'
  BY <1>1, <1>2, <1>3 DEF DraftsInv, Drafts!TypeOK
<1>5. OpenTyped' /\ PostsTyped' /\ OncePosted' /\ Drafts!NeverStuck'
  BY <1>1, <1>3 DEF DraftsInv, OpenTyped, PostsTyped, OncePosted, Drafts!NeverStuck
<1>6. TextsShown'
  BY <1>1, <1>2 DEF DraftsInv, TextsShown, Drafts!OnShow
<1>7. OncePlaced'
  BY <1>1, <1>2 DEF DraftsInv, OncePlaced
<1>8. \A post \in posts : post.text \in 1 .. texts
  BY DEF DraftsInv, PostsTyped
<1>9. OneOrOther'
  BY <1>1, <1>2, <1>8 DEF DraftsInv, OneOrOther
<1>10. \A other \in Drafts!Places : Drafts!Aim(other)' = Drafts!Aim(other)
  BY <1>1, SameAim
<1>11. Drafts!SentAsBegun'
  <2>1. \A post \in posts' : aim'[post.text] = post.aim
    BY <1>1, <1>3, <1>8 DEF DraftsInv, Drafts!SentAsBegun
  <2>2. ASSUME NEW other \in Drafts!Places, text'[other] # 0
        PROVE  aim'[text'[other]] = Drafts!Aim(other)'
    <3>1. CASE other = place
      BY <3>1, <1>2, <1>3, <1>10
    <3>2. CASE other # place
      <4>1. text'[other] = text[other] /\ text[other] \in 1 .. texts
        BY <3>2, <2>2, <1>1, <1>2
      <4> QED BY <4>1, <2>2, <1>3, <1>10 DEF DraftsInv, Drafts!SentAsBegun
    <3> QED BY <3>1, <3>2
  <2> QED BY <2>1, <2>2 DEF Drafts!SentAsBegun
<1> QED BY <1>4, <1>5, <1>6, <1>7, <1>9, <1>11 DEF DraftsInv

\* A text that is sent leaves its composer for its write.
LEMMA SubmitKeeps ==
  ASSUME NEW place \in Drafts!Places PROVE DraftsInv /\ Drafts!Submit(place) => DraftsInv'
<1> SUFFICES ASSUME DraftsInv, Drafts!Submit(place) PROVE DraftsInv'
  OBVIOUS
<1>1. /\ UNCHANGED <<open, mark, texts, aim, listed>> /\ Drafts!Kept({place})
      /\ Drafts!OnShow(place) /\ text[place] \in 1 .. texts
  BY DEF Drafts!Submit, Drafts!Sends, DraftsInv, Drafts!TypeOK
<1>2. PICK sent : /\ posts' = posts \cup {sent}
                  /\ sent = [text |-> text[place], aim |-> Drafts!Aim(place), gone |-> FALSE]
  BY DEF Drafts!Submit, Drafts!Sends
<1>3. sent.text = text[place] /\ sent.aim = Drafts!Aim(place)
  BY <1>2
<1>4. \A other \in Drafts!Places : text'[other] # 0 => text'[other] = text[other] /\ other # place
  BY <1>1 DEF Drafts!Kept
<1>5. PostsTyped'
  <2>1. Drafts!Aim(place) \in Aims
    BY AimTyped DEF DraftsInv
  <2>2. sent \in [text : 1 .. texts, aim : Aims, gone : BOOLEAN]
    BY <1>1, <1>2, <2>1
  <2> QED BY <1>1, <1>2, <2>2 DEF DraftsInv, PostsTyped
<1>6. Drafts!TypeOK'
  <2>1. text' \in [Drafts!Places -> 0 .. texts]
    BY <1>1, KeptTexts DEF DraftsInv
  <2>2. \A post \in posts' : post.text \in DOMAIN aim
    BY <1>1, <1>2, <1>3 DEF DraftsInv, Drafts!TypeOK
  <2> QED BY <1>1, <2>1, <2>2 DEF DraftsInv, Drafts!TypeOK
<1>7. OpenTyped' /\ Drafts!NeverStuck'
  BY <1>1 DEF DraftsInv, OpenTyped, Drafts!NeverStuck
<1>8. TextsShown' /\ OncePlaced'
  BY <1>1, <1>4 DEF DraftsInv, TextsShown, OncePlaced, Drafts!OnShow
<1>9. OncePosted'
  <2>1. \A post \in posts : post.text # sent.text
    BY <1>3 DEF DraftsInv, OneOrOther
  <2>2. \A a, b \in posts : a.text = b.text => a = b
    BY DEF DraftsInv, OncePosted
  <2>3. \A post \in posts' : post \in posts \/ post = sent
    BY <1>2
  <2> QED BY <2>1, <2>2, <2>3 DEF OncePosted
<1>10. OneOrOther'
  <2> SUFFICES ASSUME NEW other \in Drafts!Places, NEW post \in posts',
                      text'[other] = post.text
               PROVE  FALSE
    BY DEF OneOrOther
  <2>1. post.text # 0
    BY <1>1, <1>2, <1>3 DEF DraftsInv, PostsTyped
  <2>2. text[other] = post.text /\ other # place
    BY <1>4, <2>1
  <2>3. CASE post = sent
    BY <2>1, <2>2, <2>3, <1>3 DEF DraftsInv, OncePlaced
  <2>4. CASE post \in posts
    BY <2>2, <2>4 DEF DraftsInv, OneOrOther
  <2> QED BY <2>3, <2>4, <1>2
<1>11. Drafts!SentAsBegun'
  <2>1. \A post \in posts' : aim'[post.text] = post.aim
    BY <1>1, <1>2, <1>3 DEF DraftsInv, Drafts!SentAsBegun
  <2>2. \A other \in Drafts!Places : Drafts!Aim(other)' = Drafts!Aim(other)
    BY <1>1, SameAim
  <2>3. \A other \in Drafts!Places : text'[other] # 0 => aim'[text'[other]] = Drafts!Aim(other)'
    BY <1>1, <1>4, <2>2 DEF DraftsInv, Drafts!SentAsBegun
  <2> QED BY <2>1, <2>3 DEF Drafts!SentAsBegun
<1> QED BY <1>5, <1>6, <1>7, <1>8, <1>9, <1>10, <1>11 DEF DraftsInv

\* An answer empties the composers it closes and leaves the others alone.
LEMMA AnsweredKeeps ==
  ASSUME NEW post \in posts PROVE DraftsInv /\ Drafts!Answered(post) => DraftsInv'
<1> SUFFICES ASSUME DraftsInv, Drafts!Answered(post) PROVE DraftsInv'
  OBVIOUS
<1> DEFINE closing == {place \in Drafts!Closed(post.aim.place, post.aim.subject) :
                         place = "edit" => open["edit"] = post.aim.subject /\ ~post.gone}
<1>1. PICK closed : /\ closed = closing
                    /\ posts' = posts \ {post}
                    /\ open' = [place \in Drafts!Places |-> IF place \in closed THEN Drafts!Nothing
                                                                         ELSE open[place]]
                    /\ mark' = IF "popover" \in closed THEN Drafts!Nothing ELSE mark
                    /\ Drafts!Kept(closed)
                    /\ UNCHANGED <<texts, aim, listed>>
  BY DEF Drafts!Answered
<1>2. \A place \in Drafts!Places : open'[place] = IF place \in closed THEN Drafts!Nothing ELSE open[place]
  BY <1>1
<1>3. "popover" \in Drafts!Places
  BY DEF Drafts!Places
<1>4. OpenTyped'
  BY <1>1 DEF DraftsInv, OpenTyped, AnySubject
<1>5. \A other \in posts' : other \in posts
  BY <1>1
<1>6. Drafts!TypeOK'
  <2>1. text' \in [Drafts!Places -> 0 .. texts]
    BY <1>1, KeptTexts DEF DraftsInv
  <2> QED BY <1>1, <1>2, <1>5, <2>1 DEF DraftsInv, Drafts!TypeOK
<1>7. /\ PostsTyped' /\ OncePosted'
      /\ \A other \in posts' : \E was \in posts : /\ other.text = was.text
                                                  /\ other.aim = was.aim
  BY <1>1, PostsStay
<1>8. \A place \in Drafts!Places \ closed : text[place] # 0 =>
         /\ open'[place] = open[place] /\ (place = "popover" => mark' = mark)
         /\ place \in {"reply", "edit"} => listed'
  BY <1>1, <1>2 DEF DraftsInv, TextsShown, Drafts!OnShow
<1>9. TextsShown' /\ OncePlaced' /\ OneOrOther' /\ Drafts!SentAsBegun'
  BY <1>1, <1>7, <1>8, ClosingKeeps
<1>10. Drafts!NeverStuck'
  BY <1>1, <1>2, <1>3 DEF DraftsInv, Drafts!NeverStuck
<1> QED BY <1>4, <1>6, <1>7, <1>9, <1>10 DEF DraftsInv

\* A write that fails takes its text with it.
LEMMA FailedKeeps ==
  ASSUME NEW post \in posts PROVE DraftsInv /\ Drafts!Failed(post) => DraftsInv'
<1> SUFFICES ASSUME DraftsInv, Drafts!Failed(post) PROVE DraftsInv'
  OBVIOUS
<1>1. UNCHANGED <<open, mark, text, texts, aim, listed>> /\ posts' \subseteq posts
  BY DEF Drafts!Failed
<1>2. PostsTyped' /\ OncePosted'
  BY <1>1, PostsStay
<1>3. Drafts!TypeOK' /\ OpenTyped' /\ Drafts!NeverStuck'
  BY <1>1 DEF DraftsInv, Drafts!TypeOK, OpenTyped, Drafts!NeverStuck
<1>4. TextsShown' /\ OncePlaced' /\ OneOrOther'
  BY <1>1 DEF DraftsInv, TextsShown, Drafts!OnShow, OncePlaced, OneOrOther
<1>5. \A place \in Drafts!Places : Drafts!Aim(place)' = Drafts!Aim(place)
  BY <1>1, SameAim
<1>6. Drafts!SentAsBegun'
  BY <1>1, <1>5 DEF DraftsInv, Drafts!SentAsBegun
<1> QED BY <1>2, <1>3, <1>4, <1>6 DEF DraftsInv

\* A list that is drawn anew, or is lost with the composers in its place.
LEMMA RefreshedKeeps == DraftsInv /\ Drafts!Refreshed => DraftsInv'
<1> SUFFICES ASSUME DraftsInv, Drafts!Refreshed PROVE DraftsInv'
  OBVIOUS
<1>1. UNCHANGED <<mark, texts, aim>> /\ listed' = ~listed
  BY DEF Drafts!Refreshed
<1>2. CASE listed'
  <2>1. UNCHANGED <<open, text, posts>>
    BY <1>2 DEF Drafts!Refreshed
  <2>2. Drafts!TypeOK' /\ OpenTyped' /\ PostsTyped' /\ Drafts!NeverStuck'
    BY <1>1, <2>1 DEF DraftsInv, Drafts!TypeOK, OpenTyped, PostsTyped, Drafts!NeverStuck
  <2>3. TextsShown' /\ OncePlaced' /\ OncePosted' /\ OneOrOther'
    BY <1>1, <1>2, <2>1 DEF DraftsInv, TextsShown, Drafts!OnShow, OncePlaced, OncePosted,
                            OneOrOther
  <2>4. \A place \in Drafts!Places : Drafts!Aim(place)' = Drafts!Aim(place)
    BY <1>1, <2>1, SameAim
  <2>5. Drafts!SentAsBegun'
    BY <1>1, <2>1, <2>4 DEF DraftsInv, Drafts!SentAsBegun
  <2> QED BY <2>2, <2>3, <2>5 DEF DraftsInv
<1>3. CASE ~listed'
  <2>1. PICK closed : closed = {"reply", "edit"} /\ Drafts!Kept(closed)
    BY <1>3 DEF Drafts!Refreshed
  <2>2. /\ open' = [open EXCEPT !["edit"] = Drafts!Nothing]
        /\ posts' = {[post EXCEPT !.gone = TRUE] : post \in posts}
    BY <1>3 DEF Drafts!Refreshed
  <2>3. /\ \A place \in Drafts!Places \ {"edit"} : open'[place] = open[place]
        /\ open'["edit"] = Drafts!Nothing /\ OpenTyped' /\ {"edit", "popover"} \subseteq Drafts!Places
    BY <1>1, <2>2 DEF DraftsInv, OpenTyped, AnySubject, Drafts!Places
  <2>4. /\ PostsTyped' /\ OncePosted'
        /\ \A post \in posts' : \E was \in posts : /\ post.text = was.text
                                                   /\ post.aim = was.aim
    BY <1>1, <2>2, PostsGone
  <2>5. Drafts!TypeOK'
    <3>1. text' \in [Drafts!Places -> 0 .. texts]
      BY <2>1, KeptTexts DEF DraftsInv
    <3>2. \A post \in posts' : post.text \in DOMAIN aim
      BY <2>4 DEF DraftsInv, Drafts!TypeOK
    <3> QED BY <1>1, <2>3, <3>1, <3>2 DEF DraftsInv, Drafts!TypeOK
  <2>6. \A place \in Drafts!Places \ closed : text[place] # 0 =>
           /\ open'[place] = open[place] /\ (place = "popover" => mark' = mark)
           /\ place \in {"reply", "edit"} => listed'
    BY <1>1, <2>1, <2>3
  <2>7. TextsShown' /\ OncePlaced' /\ OneOrOther' /\ Drafts!SentAsBegun'
    BY <1>1, <2>1, <2>4, <2>6, ClosingKeeps
  <2>8. Drafts!NeverStuck'
    BY <1>1, <2>3 DEF DraftsInv, Drafts!NeverStuck
  <2> QED BY <2>3, <2>4, <2>5, <2>7, <2>8 DEF DraftsInv
<1> QED BY <1>2, <1>3

LEMMA DraftsNext == ASSUME MaxTexts \in Nat PROVE DraftsInv /\ [Drafts!Next]_(Drafts!vars) => DraftsInv'
<1> SUFFICES ASSUME MaxTexts \in Nat, DraftsInv, [Drafts!Next]_(Drafts!vars)
             PROVE  DraftsInv'
  OBVIOUS
<1>1. CASE Drafts!Select
  BY <1>1, SelectKeeps
<1>2. CASE Drafts!Refreshed
  BY <1>2, RefreshedKeeps
<1>3. ASSUME NEW place \in Drafts!Places, Drafts!Open(place) PROVE DraftsInv'
  BY <1>3, OpenKeeps
<1>4. ASSUME NEW place \in Drafts!Places, Drafts!Cancel(place) PROVE DraftsInv'
  BY <1>4, CancelKeeps
<1>5. ASSUME NEW place \in Drafts!Places, Drafts!Type(place) PROVE DraftsInv'
  BY <1>5, TypeKeeps
<1>6. ASSUME NEW place \in Drafts!Places, Drafts!Submit(place) PROVE DraftsInv'
  BY <1>6, SubmitKeeps
<1>7. ASSUME NEW post \in posts, Drafts!Answered(post) PROVE DraftsInv'
  BY <1>7, AnsweredKeeps
<1>8. ASSUME NEW post \in posts, Drafts!Failed(post) PROVE DraftsInv'
  BY <1>8, FailedKeeps
<1>9. CASE UNCHANGED Drafts!vars
  <2>1. UNCHANGED <<open, mark, text, texts, aim, posts, listed>>
    BY <1>9 DEF Drafts!vars
  <2>2. \A place \in Drafts!Places : Drafts!Aim(place)' = Drafts!Aim(place)
    BY <2>1, SameAim
  <2>3. Drafts!SentAsBegun'
    BY <2>1, <2>2 DEF DraftsInv, Drafts!SentAsBegun
  <2> QED BY <2>1, <2>3 DEF DraftsInv, Drafts!TypeOK, OpenTyped, PostsTyped, TextsShown,
                            Drafts!OnShow,
                            OncePlaced, OncePosted, OneOrOther, Drafts!NeverStuck
<1> QED BY <1>1, <1>2, <1>3, <1>4, <1>5, <1>6, <1>7, <1>8, <1>9 DEF Drafts!Next

\* What is in one place at most is counted once at most.
LEMMA CountOne ==
  ASSUME NEW S, \A a, b \in S : a = b PROVE Cardinality(S) \in {0, 1}
<1>1. CASE S = {}
  BY <1>1, FS_EmptySet
<1>2. CASE S # {}
  <2>1. PICK one : S = {one}
    BY <1>2
  <2> QED BY <2>1, FS_Singleton
<1> QED BY <1>1, <1>2

\* The cardinality that Composers counts texts with is that of the library.
LEMMA DraftsLibrary == \A S : Drafts!Cardinality(S) = Cardinality(S)
BY Zenon DEF Drafts!Cardinality, Cardinality

\* What the strengthened invariant says of what the reader sees.
LEMMA DraftsSent == DraftsInv => Drafts!OneSubmission /\ Drafts!SentAsBegun /\ Drafts!NeverStuck
<1>1. DraftsInv => Drafts!OneSubmission
  <2> SUFFICES ASSUME DraftsInv, NEW n \in 1 .. texts PROVE Drafts!Holding(n) <= 1
    BY DEF Drafts!OneSubmission, DraftsInv
  <2> DEFINE placed == {place \in Drafts!Places : text[place] = n}
             sending == {post \in posts : post.text = n}
  <2>1. \A a, b \in placed : a = b
    BY DEF DraftsInv, OncePlaced
  <2>2. \A a, b \in sending : a = b
    BY DEF DraftsInv, OncePosted
  <2>3. placed = {} \/ sending = {}
    BY DEF DraftsInv, OneOrOther
  <2>4. Cardinality(placed) \in {0, 1} /\ Cardinality(sending) \in {0, 1}
    BY <2>1, <2>2, CountOne
  <2>5. Cardinality(placed) = 0 \/ Cardinality(sending) = 0
    BY <2>3, FS_EmptySet
  <2> QED BY <2>4, <2>5, DraftsLibrary DEF Drafts!Holding
<1>2. DraftsInv => Drafts!SentAsBegun /\ Drafts!NeverStuck
  BY DEF DraftsInv
<1> QED BY <1>1, <1>2

---------------------------------------------------------------------------
(* The strengthening.                                                      *)

\* A host is imported for only while it is not ready.
NotTwice == /\ host.loading => ~host.ready
            /\ host.fig => host.ready

\* Before the figure answers, nothing plays and nothing is announced.
QuietBefore == ~Figure!Mounted => ~playing /\ ~timer /\ live = None

FigureInv == Figure!OneLoop /\ Figure!MountedOnce /\ NotTwice /\ QuietBefore /\ Figure!PictureFollows /\ Figure!AnnouncedAtRest

---------------------------------------------------------------------------
(* Positions.                                                              *)

LEMMA Longest ==
  Figure!LongestLength \in Nat /\ \A s \in Params : Length[s] <= Figure!LongestLength
<1> DEFINE lengths == {Length[s] : s \in Params}
<1>1. \E d \in lengths : \A s \in Params : Length[s] <= d
  BY TimelinesAssumption
<1>2. Figure!LongestLength \in lengths /\ \A s \in Params : Length[s] <= Figure!LongestLength
  BY <1>1 DEF Figure!LongestLength
<1>3. lengths \subseteq Nat
  BY TimelinesAssumption
<1> QED BY <1>2, <1>3

LEMMA WithinIsWithin ==
  ASSUME NEW d \in Nat, NEW x \in Int
  PROVE  Figure!Within(d, x) \in 0 .. d
BY DEF Figure!Within

\* What is shown is the position or the whole unit below it.
LEMMA ShownBelow ==
  ASSUME NEW x \in Nat PROVE Figure!Shown(x) \in 0 .. x /\ Figure!Shown(0) = 0
<1>1. Q \in Nat /\ Q > 0
  BY TimelinesAssumption
<1>2. x % Q \in 0 .. x /\ 0 % Q = 0
  BY <1>1
<1> QED BY <1>2 DEF Figure!Shown

\* A position of a timeline is shown within the longest.
LEMMA ShownFits ==
  ASSUME NEW s \in Params, NEW x \in 0 .. Length[s]
  PROVE  Figure!Shown(x) \in 0 .. Figure!LongestLength
<1>1. Length[s] \in Nat /\ Length[s] <= Figure!LongestLength /\ Figure!LongestLength \in Nat
  BY Longest, TimelinesAssumption
<1>2. Figure!Shown(x) \in 0 .. x /\ x \in Nat
  BY <1>1, ShownBelow
<1> QED BY <1>1, <1>2

\* The cardinality that FigureRuntime counts frames with is that of the library.
LEMMA FigureLibrary == \A S : Figure!Cardinality(S) = Cardinality(S)
BY Zenon DEF Figure!Cardinality, Cardinality

\* The frame requested next is none of those under way.
LEMMA FreshFrame ==
  ASSUME NEW f, frames \in {{}, {f}} PROVE Figure!Fresh \in Nat /\ Figure!Fresh \notin frames
<1>1. \E i \in 1 .. (Cardinality(frames) + 1) : i \notin frames
  <2>1. CASE frames = {}
    <3>1. Cardinality(frames) = 0
      BY <2>1, FS_EmptySet
    <3> QED BY <2>1, <3>1
  <2>2. CASE frames = {f}
    <3>1. Cardinality(frames) = 1
      BY <2>2, FS_Singleton
    <3>2. {1, 2} \subseteq 1 .. (Cardinality(frames) + 1)
      BY <3>1
    <3> QED BY <2>2, <3>2
  <2> QED BY <2>1, <2>2
<1>2. Cardinality(frames) \in Nat
  <2>1. Cardinality({}) = 0 /\ Cardinality({f}) = 1
    BY FS_EmptySet, FS_Singleton
  <2> QED BY <2>1
<1> QED BY <1>1, <1>2, FigureLibrary DEF Figure!Fresh

---------------------------------------------------------------------------
(* The initial states, and one lemma for each action.                      *)

LEMMA FigureInit == Figure!Init => FigureInv
<1> SUFFICES ASSUME Figure!Init PROVE FigureInv
  OBVIOUS
<1>1. Length[p] \in Nat /\ Figure!LongestLength \in Nat /\ p \in Params
  BY Longest, TimelinesAssumption DEF Figure!Init
<1>2. host \in [connected: BOOLEAN, loading: BOOLEAN, ready: BOOLEAN,
                static: BOOLEAN, error: BOOLEAN, fig: BOOLEAN]
  BY DEF Figure!Init
<1>3. ~host.loading /\ ~host.ready /\ ~host.fig /\ host.static
  BY DEF Figure!Init
<1>4. Figure!TypeOK
  BY <1>1, <1>2 DEF Figure!Init, Figure!TypeOK, Figure!Duration
<1>5. Figure!OneLoop
  BY <1>4 DEF Figure!Init, Figure!OneLoop
<1>6. Figure!MountedOnce /\ NotTwice
  BY <1>3 DEF Figure!Init, Figure!MountedOnce, NotTwice
<1>7. QuietBefore /\ Figure!PictureFollows /\ Figure!AnnouncedAtRest
  BY <1>3 DEF Figure!Init, QuietBefore, Figure!PictureFollows, Figure!AnnouncedAtRest,
              Figure!Mounted
<1> QED BY <1>5, <1>6, <1>7 DEF FigureInv

\* What stays as long as the clock, the picture and the settings do.
LEMMA PictureStays ==
  ASSUME FigureInv, UNCHANGED <<Figure!settings, Figure!clock, Figure!picture>>,
         host'.fig = host.fig,
         host' \in [connected: BOOLEAN, loading: BOOLEAN, ready: BOOLEAN,
                    static: BOOLEAN, error: BOOLEAN, fig: BOOLEAN],
         loads' \in Nat, mounts' \in Nat
  PROVE  Figure!OneLoop' /\ QuietBefore' /\ Figure!PictureFollows' /\ Figure!AnnouncedAtRest'
<1>1. UNCHANGED <<reduced, discrete, t, playing, last, frames, raf, p, at, timer, live, sets>>
  BY DEF Figure!settings, Figure!clock, Figure!picture
<1>2. Figure!OneLoop'
  BY <1>1 DEF FigureInv, Figure!OneLoop, Figure!TypeOK, Figure!Duration,
              Figure!LongestLength
<1>3. Figure!PictureFollows'
  BY <1>1 DEF FigureInv, Figure!PictureFollows, Figure!Mounted, Figure!Shown
<1>4. QuietBefore' /\ Figure!AnnouncedAtRest'
  BY <1>1 DEF FigureInv, QuietBefore, Figure!AnnouncedAtRest, Figure!Mounted
<1> QED BY <1>2, <1>3, <1>4

\* An import is asked for, fails, or finds its host gone; or the host goes.
LEMMA HostKeeps ==
  ASSUME FigureInv, Figure!MountFigures \/ Figure!ImportFails \/ Figure!Detach
  PROVE  FigureInv'
<1>1. /\ host \in [connected: BOOLEAN, loading: BOOLEAN, ready: BOOLEAN,
                   static: BOOLEAN, error: BOOLEAN, fig: BOOLEAN]
      /\ loads \in Nat /\ mounts \in Nat
      /\ loads = (IF host.loading THEN 1 ELSE 0) /\ mounts = (IF host.ready THEN 1 ELSE 0)
  BY DEF FigureInv, Figure!OneLoop, Figure!TypeOK, Figure!MountedOnce
<1>2. UNCHANGED <<mounts, Figure!settings, Figure!clock, Figure!picture>>
  BY DEF Figure!MountFigures, Figure!ImportFails, Figure!Detach
<1>3. /\ host' \in [connected: BOOLEAN, loading: BOOLEAN, ready: BOOLEAN,
                    static: BOOLEAN, error: BOOLEAN, fig: BOOLEAN]
      /\ host'.ready = host.ready /\ host'.static = host.static /\ host'.fig = host.fig
      /\ host'.loading => ~host.ready
      /\ loads' = IF host'.loading THEN 1 ELSE 0
  <2>1. CASE Figure!MountFigures
    <3>1. /\ host' = [host EXCEPT !.loading = TRUE] /\ loads' = loads + 1
          /\ ~host.loading /\ ~host.ready
      BY <2>1 DEF Figure!MountFigures
    <3>2. loads' = 1
      BY <3>1, <1>1
    <3>3. host'.loading
      BY <3>1, <1>1
    <3> QED BY <3>1, <3>2, <3>3, <1>1
  <2>2. CASE Figure!ImportFails
    <3>1. /\ host' = [host EXCEPT !.loading = FALSE, !.error = TRUE]
          /\ loads > 0 /\ loads' = loads - 1
      BY <2>2 DEF Figure!ImportFails
    <3>2. loads' = 0
      BY <3>1, <1>1
    <3>3. ~host'.loading
      BY <3>1, <1>1
    <3> QED BY <3>1, <3>2, <3>3, <1>1
  <2>3. CASE Figure!Detach
    BY <2>3, <1>1 DEF Figure!Detach, FigureInv, NotTwice
  <2> QED BY <2>1, <2>2, <2>3
<1>4. Figure!MountedOnce' /\ NotTwice'
  BY <1>2, <1>3 DEF FigureInv, Figure!MountedOnce, NotTwice
<1>5. loads' \in Nat /\ mounts' \in Nat
  BY <1>1, <1>2, <1>3
<1>6. Figure!OneLoop' /\ QuietBefore' /\ Figure!PictureFollows' /\ Figure!AnnouncedAtRest'
  BY <1>2, <1>3, <1>5, PictureStays
<1> QED BY <1>4, <1>6 DEF FigureInv

\* The module mounts at an opening position, before anything plays or is announced.
LEMMA ArrivesKeeps ==
  ASSUME FigureInv, Figure!ModuleArrives
  PROVE  FigureInv'
<1> DEFINE Outcomes == {"mounted", "paramsThrow", "timelineThrows", "renderThrows"}
<1> PICK outcome \in Outcomes : Figure!Arrives(outcome)
  BY DEF Figure!ModuleArrives
<1>1. /\ host \in [connected: BOOLEAN, loading: BOOLEAN, ready: BOOLEAN,
                   static: BOOLEAN, error: BOOLEAN, fig: BOOLEAN]
      /\ loads \in Nat /\ mounts \in Nat
      /\ loads = (IF host.loading THEN 1 ELSE 0) /\ mounts = (IF host.ready THEN 1 ELSE 0)
      /\ p \in Params /\ t \in 0 .. Length[p] /\ at \in 0 .. Figure!LongestLength
      /\ ~host.ready => host.static
  BY DEF FigureInv, Figure!OneLoop, Figure!TypeOK, Figure!MountedOnce, Figure!Duration
<1>2. /\ host.loading /\ ~host.ready /\ ~host.fig /\ loads = 1 /\ mounts = 0 /\ loads' = 0
      /\ UNCHANGED <<Figure!settings, p, playing, last, frames, raf, timer, live, sets>>
  BY <1>1 DEF Figure!Arrives, FigureInv, NotTwice
<1>3. CASE ~host.connected
  <2>1. host' = [host EXCEPT !.loading = FALSE] /\ UNCHANGED <<mounts, t, at>>
    BY <1>3 DEF Figure!Arrives
  <2>2. /\ host'.ready = host.ready /\ host'.static = host.static /\ host'.fig = host.fig
        /\ ~host'.loading
        /\ host' \in [connected: BOOLEAN, loading: BOOLEAN, ready: BOOLEAN,
                      static: BOOLEAN, error: BOOLEAN, fig: BOOLEAN]
    BY <1>1, <2>1
  <2>3. Figure!MountedOnce' /\ NotTwice'
    BY <1>2, <2>1, <2>2 DEF FigureInv, Figure!MountedOnce, NotTwice
  <2>4. UNCHANGED <<Figure!settings, Figure!clock, Figure!picture>>
    BY <1>2, <2>1 DEF Figure!clock, Figure!picture
  <2>5. Figure!OneLoop' /\ QuietBefore' /\ Figure!PictureFollows' /\ Figure!AnnouncedAtRest'
    BY <1>1, <1>2, <2>1, <2>2, <2>4, PictureStays
  <2> QED BY <2>3, <2>5 DEF FigureInv
<1>4. CASE host.connected
  <2> DEFINE built == outcome \in {"mounted", "renderThrows"}
  <2>1. /\ host' = [host EXCEPT !.loading = FALSE, !.ready = outcome # "paramsThrow",
                                !.static = ~built, !.error = @ \/ outcome # "mounted",
                                !.fig = outcome = "mounted"]
        /\ mounts' = mounts + IF host'.ready THEN 1 ELSE 0
        /\ IF built THEN \E x \in Opening : t' = Figure!Clamp(x) /\ at' = Figure!Shown(t')
                    ELSE UNCHANGED <<t, at>>
    BY <1>4 DEF Figure!Arrives
  <2>2. /\ host' \in [connected: BOOLEAN, loading: BOOLEAN, ready: BOOLEAN,
                      static: BOOLEAN, error: BOOLEAN, fig: BOOLEAN]
        /\ host'.ready = (outcome # "paramsThrow") /\ host'.static = ~built
        /\ host'.fig = (outcome = "mounted") /\ host'.loading = FALSE
    BY <1>1, <2>1, ZenonT(40)
  <2>3. Figure!MountedOnce' /\ NotTwice'
    <3>1. mounts' = IF host'.ready THEN 1 ELSE 0
      BY <1>2, <2>1
    <3>2. ~host'.loading /\ (host'.fig => host'.ready) /\ (~host'.ready => host'.static)
      BY <2>2
    <3> QED BY <3>1, <3>2, <1>2 DEF Figure!MountedOnce, NotTwice
  <2>4. \A x \in Opening : Figure!Clamp(x) \in 0 .. Length[p]
    BY <1>1, WithinIsWithin, TimelinesAssumption DEF Figure!Clamp, Figure!Duration
  <2>5. t' \in 0 .. Length[p] /\ at' \in 0 .. Figure!LongestLength /\ (built => at' = Figure!Shown(t'))
    <3>1. CASE built
      <4>1. t' \in 0 .. Length[p] /\ at' = Figure!Shown(t')
        BY <3>1, <2>1, <2>4
      <4>2. \A x \in 0 .. Length[p] : Figure!Shown(x) \in 0 .. Figure!LongestLength
        BY <1>1, ShownFits
      <4> QED BY <4>1, <4>2
    <3>2. CASE ~built
      BY <3>2, <2>1, <1>1
    <3> QED BY <3>1, <3>2
  <2>6. Figure!OneLoop'
    BY <1>1, <1>2, <2>1, <2>2, <2>5
       DEF FigureInv, Figure!OneLoop, Figure!TypeOK, Figure!Duration, Figure!LongestLength
  <2>7. ~playing /\ ~timer /\ live = None
    BY <1>2 DEF FigureInv, QuietBefore, Figure!Mounted
  <2>8. QuietBefore' /\ Figure!AnnouncedAtRest'
    BY <1>2, <2>7 DEF QuietBefore, Figure!AnnouncedAtRest
  <2>9. Figure!PictureFollows'
    <3>1. Figure!Shown(t)' = Figure!Shown(t')
      BY <1>2 DEF Figure!Shown, Figure!settings
    <3>2. host'.fig => at' = Figure!Shown(t')
      BY <2>2, <2>5
    <3> QED BY <3>1, <3>2 DEF Figure!PictureFollows, Figure!Mounted
  <2> QED BY <2>3, <2>6, <2>8, <2>9 DEF FigureInv
<1> QED BY <1>1, <1>3, <1>4

\* The transport's own actions leave the host alone.
LEMMA HostStays == ASSUME FigureInv, UNCHANGED Figure!loading PROVE Figure!MountedOnce' /\ NotTwice'
BY DEF FigureInv, Figure!MountedOnce, NotTwice, Figure!loading

\* The types, restated for the values that the transport changes.
LEMMA FigureTyped ==
  ASSUME FigureInv
  PROVE  /\ p \in Params /\ Length[p] \in Nat /\ t \in 0 .. Length[p]
         /\ at \in 0 .. Figure!LongestLength /\ Figure!LongestLength \in Nat /\ raf \in Nat
         /\ frames = IF playing THEN {raf} ELSE {}
BY Longest, TimelinesAssumption
   DEF FigureInv, Figure!OneLoop, Figure!TypeOK, Figure!Duration

LEMMA TypesStay ==
  ASSUME FigureInv, UNCHANGED Figure!loading,
         p' \in Params, t' \in 0 .. Length[p'], at' \in 0 .. Figure!LongestLength, raf' \in Nat,
         live' \in {live, [p |-> p, at |-> at]}, frames' = IF playing' THEN {raf'} ELSE {}
  PROVE  Figure!OneLoop'
<1>1. live' \in [p: Params, at: 0 .. Figure!LongestLength] \union {None}
  BY DEF FigureInv, Figure!OneLoop, Figure!TypeOK
<1>2. frames' \subseteq Nat
  OBVIOUS
<1>3. Figure!LongestLength' = Figure!LongestLength
  BY DEF Figure!LongestLength
<1> QED BY <1>1, <1>2, <1>3 DEF FigureInv, Figure!OneLoop, Figure!TypeOK, Figure!Duration,
                                Figure!loading

\* Pausing leaves no frame, and the picture that is drawn is announced.
LEMMA StopKeeps ==
  ASSUME FigureInv, Figure!Mounted, Figure!Stop, UNCHANGED <<Figure!loading,
         Figure!settings, raf, p, live>>,
         t' \in 0 .. Length[p], at' = Figure!Shown(t'), timer' = TRUE
  PROVE  FigureInv'
<1>1. Figure!MountedOnce' /\ NotTwice' /\ Figure!Mounted'
  BY HostStays DEF Figure!Mounted, Figure!loading
<1>2. playing' = FALSE /\ frames' = {}
  BY FigureTyped DEF Figure!Stop
<1>3. at' \in 0 .. Figure!LongestLength
  BY FigureTyped, ShownFits
<1>4. Figure!OneLoop'
  BY <1>2, <1>3, FigureTyped, TypesStay
<1>5. QuietBefore' /\ Figure!AnnouncedAtRest'
  BY <1>1 DEF QuietBefore, Figure!AnnouncedAtRest
<1>6. Figure!PictureFollows'
  <2>1. Figure!Shown(t)' = Figure!Shown(t')
    BY DEF Figure!Shown, Figure!settings
  <2> QED BY <2>1 DEF Figure!PictureFollows
<1> QED BY <1>1, <1>4, <1>5, <1>6 DEF FigureInv

LEMMA PauseKeeps == ASSUME FigureInv, Figure!Pause PROVE FigureInv'
<1>1. /\ Figure!Mounted /\ Figure!Stop /\ UNCHANGED <<Figure!loading, Figure!settings, t, raf, p, live>>
      /\ at' = Figure!Shown(t) /\ timer' = TRUE
  BY DEF Figure!Pause
<1>2. t' \in 0 .. Length[p] /\ at' = Figure!Shown(t')
  BY <1>1, FigureTyped
<1> QED BY <1>1, <1>2, StopKeeps

\* Wherever a button or the scrubber leads, the position is clamped to the timeline.
LEMMA SeekKeeps == ASSUME FigureInv, Figure!Seek PROVE FigureInv'
<1>1. Figure!Mounted /\ Figure!Stop /\ UNCHANGED <<Figure!loading, Figure!settings, raf, p, live>>
  BY DEF Figure!Seek
<1>2. PICK x : /\ x \in Figure!Scrubbed \/ x \in Figure!Stepped \/ x \in Figure!Jumped
               /\ Figure!UserSeek(x)
  BY DEF Figure!Seek
<1>3. x \in Int
  <2>1. CASE x \in Figure!Scrubbed
    BY <2>1, FigureTyped DEF Figure!Scrubbed, Figure!Duration
  <2>2. CASE x \in Figure!Stepped
    <3>1. Q \in Nat
      BY TimelinesAssumption
    <3>2. PICK d \in {Q, 1} : x \in {Figure!Clamp(t - d), Figure!Clamp(t + d)}
      BY <2>2 DEF Figure!Stepped
    <3>3. t - d \in Int /\ t + d \in Int
      BY <3>1, <3>2, FigureTyped
    <3>4. \A y \in Int : Figure!Clamp(y) \in 0 .. Length[p]
      BY FigureTyped, WithinIsWithin DEF Figure!Clamp, Figure!Duration
    <3> QED BY <3>2, <3>3, <3>4
  <2>3. CASE x \in Figure!Jumped
    BY <2>3, FigureTyped, TimelinesAssumption DEF Figure!Jumped
  <2> QED BY <1>2, <2>1, <2>2, <2>3
<1>4. t' = Figure!Clamp(x) /\ at' = Figure!Shown(t') /\ timer' = TRUE
  BY <1>2 DEF Figure!UserSeek
<1>5. t' \in 0 .. Length[p]
  BY <1>3, <1>4, FigureTyped, WithinIsWithin DEF Figure!Clamp, Figure!Duration
<1> QED BY <1>1, <1>4, <1>5, StopKeeps

\* Playback starts one loop, from the beginning if the figure stood at its end.
LEMMA PlayKeeps == ASSUME FigureInv, Figure!Play PROVE FigureInv'
<1>1. /\ Figure!Mounted /\ ~playing /\ playing' = TRUE /\ Figure!Request(frames)
      /\ t' = IF t >= Figure!Duration THEN 0 ELSE t
      /\ UNCHANGED <<Figure!loading, Figure!settings, p, at, timer, live>>
  BY DEF Figure!Play, Figure!picture
<1>2. Figure!MountedOnce' /\ NotTwice' /\ Figure!Mounted'
  BY <1>1, HostStays DEF Figure!Mounted, Figure!loading
<1>3. frames = {}
  BY <1>1, FigureTyped
<1>4. raf' \in Nat /\ frames' = {raf'}
  BY <1>1, <1>3, FreshFrame DEF Figure!Request
<1>5. Figure!OneLoop'
  BY <1>1, <1>4, FigureTyped, TypesStay
<1>6. QuietBefore' /\ Figure!AnnouncedAtRest'
  BY <1>1, <1>2 DEF QuietBefore, Figure!AnnouncedAtRest
<1>7. Figure!PictureFollows'
  <2>1. Figure!Shown(t)' = Figure!Shown(t')
    BY <1>1 DEF Figure!Shown, Figure!settings
  <2>2. Figure!Shown(0) = 0
    BY ShownBelow
  <2>3. at = Figure!Shown(t)
    BY <1>1 DEF FigureInv, Figure!PictureFollows
  <2>4. t' = 0 \/ t' = t
    BY <1>1
  <2> QED BY <1>1, <2>1, <2>2, <2>3, <2>4 DEF Figure!PictureFollows
<1> QED BY <1>2, <1>5, <1>6, <1>7 DEF FigureInv

\* A frame that is called back asks for the next one, unless it is the last.
Ticks(f, next, ends) ==
  /\ t' = next
  /\ playing' = (playing /\ ~ends)
  /\ IF playing' THEN Figure!Request(frames \ {f})
                 ELSE frames' = frames \ {f} /\ UNCHANGED raf
  /\ at' = (IF ends \/ Figure!Shown(next) # Figure!Shown(t) THEN Figure!Shown(next) ELSE at)
  /\ timer' = (timer \/ ends)
  /\ UNCHANGED <<Figure!loading, Figure!settings, p, live>>

LEMMA FrameKeeps == ASSUME FigureInv, Figure!Frame PROVE FigureInv'
<1>0. PICK f \in frames, passed \in 1 .. Q : \E next, ends :
        /\ next = (IF playing /\ host.connected /\ last
                     THEN Figure!Within(Figure!Duration, t + passed) ELSE t)
        /\ Ticks(f, next, ends)
  BY DEF Figure!Frame, Ticks
<1>1. PICK next, ends :
        /\ next = (IF playing /\ host.connected /\ last
                     THEN Figure!Within(Figure!Duration, t + passed) ELSE t)
        /\ Ticks(f, next, ends)
  BY <1>0
<1> USE DEF Ticks
<1>2. playing /\ f = raf /\ frames = {f} /\ Figure!Mounted
  BY <1>1, FigureTyped DEF FigureInv, QuietBefore
<1>3. Figure!MountedOnce' /\ NotTwice' /\ Figure!Mounted'
  BY <1>1, <1>2, HostStays DEF Figure!Mounted, Figure!loading
<1>4. frames' = (IF playing' THEN {raf'} ELSE {}) /\ raf' \in Nat
  BY <1>1, <1>2, FreshFrame, FigureTyped DEF Figure!Request
<1>5. t' \in 0 .. Length[p]
  <2>1. Q \in Nat
    BY TimelinesAssumption
  <2>2. Figure!Within(Figure!Duration, t + passed) \in 0 .. Length[p]
    <3>1. t + passed \in Int /\ Length[p] \in Nat
      BY <2>1, FigureTyped
    <3> QED BY <3>1, WithinIsWithin DEF Figure!Duration
  <2> QED BY <1>1, <2>2, FigureTyped
<1>6. at' \in 0 .. Figure!LongestLength
  BY <1>1, <1>5, FigureTyped, ShownFits
<1>7. Figure!OneLoop'
  BY <1>1, <1>4, <1>5, <1>6, FigureTyped, TypesStay
<1>8. playing' = ~ends
  BY <1>1, <1>2
<1>9. QuietBefore' /\ Figure!AnnouncedAtRest'
  BY <1>1, <1>3, <1>8 DEF QuietBefore, Figure!AnnouncedAtRest
<1>10. Figure!PictureFollows'
  <2>1. Figure!Shown(t)' = Figure!Shown(next)
    BY <1>1 DEF Figure!Shown, Figure!settings
  <2>2. CASE ends \/ Figure!Shown(next) # Figure!Shown(t)
    BY <1>1, <2>1, <2>2 DEF Figure!PictureFollows
  <2>3. CASE ~ends /\ Figure!Shown(next) = Figure!Shown(t)
    BY <1>1, <1>2, <1>8, <2>1, <2>3 DEF FigureInv, Figure!PictureFollows
  <2> QED BY <2>2, <2>3
<1> QED BY <1>3, <1>7, <1>9, <1>10 DEF FigureInv

\* A parameter may shorten the timeline under the position, playing or not.
LEMMA SetParamKeeps ==
  ASSUME FigureInv, NEW s \in Params, Figure!SetParam(s) PROVE FigureInv'
<1>1. /\ Figure!Mounted /\ p' = s /\ t' = Figure!Within(Length[s], t) /\ at' = Figure!Shown(t') /\ timer' = TRUE
      /\ UNCHANGED <<Figure!loading, Figure!settings, playing, frames, raf, live>>
  BY DEF Figure!SetParam
<1>2. Figure!MountedOnce' /\ NotTwice' /\ Figure!Mounted'
  BY <1>1, HostStays DEF Figure!Mounted, Figure!loading
<1>3. t' \in 0 .. Length[s]
  <2>1. t \in Int /\ Length[s] \in Nat
    BY FigureTyped, TimelinesAssumption
  <2> QED BY <1>1, <2>1, WithinIsWithin
<1>4. at' \in 0 .. Figure!LongestLength
  BY <1>1, <1>3, ShownFits
<1>5. Figure!OneLoop'
  BY <1>1, <1>3, <1>4, FigureTyped, TypesStay
<1>6. QuietBefore' /\ Figure!AnnouncedAtRest'
  BY <1>1, <1>2 DEF QuietBefore, Figure!AnnouncedAtRest
<1>7. Figure!PictureFollows'
  <2>1. Figure!Shown(t)' = Figure!Shown(t')
    BY <1>1 DEF Figure!Shown, Figure!settings
  <2> QED BY <1>1, <2>1 DEF Figure!PictureFollows
<1> QED BY <1>2, <1>5, <1>6, <1>7 DEF FigureInv

\* What is announced is what is on show.
LEMMA AnnounceKeeps == ASSUME FigureInv, Figure!Announce PROVE FigureInv'
<1>1. /\ timer /\ timer' = FALSE /\ live' = [p |-> p, at |-> at]
      /\ UNCHANGED <<Figure!loading, Figure!settings, t, playing, last, frames, raf, p, at>>
  BY DEF Figure!Announce, Figure!clock
<1>2. Figure!MountedOnce' /\ NotTwice' /\ Figure!Mounted /\ Figure!Mounted'
  BY <1>1, HostStays DEF Figure!Mounted, Figure!loading, FigureInv, QuietBefore
<1>3. Figure!OneLoop'
  BY <1>1, FigureTyped, TypesStay
<1>4. QuietBefore' /\ Figure!AnnouncedAtRest'
  BY <1>1, <1>2 DEF QuietBefore, Figure!AnnouncedAtRest
<1>5. Figure!PictureFollows'
  BY <1>1, <1>2 DEF FigureInv, Figure!PictureFollows, Figure!Shown, Figure!settings
<1> QED BY <1>2, <1>3, <1>4, <1>5 DEF FigureInv

LEMMA FigureNext == FigureInv /\ [Figure!Next]_(Figure!vars) => FigureInv'
<1> SUFFICES ASSUME FigureInv, [Figure!Next]_(Figure!vars) PROVE FigureInv'
  OBVIOUS
<1>1. CASE Figure!MountFigures \/ Figure!ImportFails \/ Figure!Detach
  BY <1>1, HostKeeps
<1>2. CASE Figure!ModuleArrives
  BY <1>2, ArrivesKeeps
<1>3. CASE Figure!Play
  BY <1>3, PlayKeeps
<1>4. CASE Figure!Pause
  BY <1>4, PauseKeeps
<1>5. CASE Figure!Frame
  BY <1>5, FrameKeeps
<1>6. CASE Figure!Seek
  BY <1>6, SeekKeeps
<1>7. ASSUME NEW s \in Params, Figure!SetParam(s) PROVE FigureInv'
  BY <1>7, SetParamKeeps
<1>8. CASE Figure!Announce
  BY <1>8, AnnounceKeeps
<1>9. CASE UNCHANGED Figure!vars
  <2>1. UNCHANGED <<host, loads, mounts, Figure!settings, Figure!clock, Figure!picture>>
    BY <1>9 DEF Figure!vars, Figure!loading
  <2>2. Figure!MountedOnce' /\ NotTwice'
    BY <2>1 DEF FigureInv, Figure!MountedOnce, NotTwice
  <2>3. Figure!OneLoop' /\ QuietBefore' /\ Figure!PictureFollows' /\ Figure!AnnouncedAtRest'
    BY <2>1, PictureStays DEF FigureInv, Figure!OneLoop, Figure!TypeOK
  <2> QED BY <2>2, <2>3 DEF FigureInv
<1> QED BY <1>1, <1>2, <1>3, <1>4, <1>5, <1>6, <1>7, <1>8, <1>9 DEF Figure!Next

\* What the strengthened invariant says of what the reader sees.
LEMMA FigureSeen == FigureInv => Figure!OneLoop /\ Figure!MountedOnce /\ Figure!PictureTold
BY DEF FigureInv, Figure!PictureTold

---------------------------------------------------------------------------
(* The runnable cells. The strengthening.                                  *)

\* Python is asked for once.
LoadedOnce == scripts = IF py = "none" THEN 0 ELSE 1

\* A run goes on with the font, and the promise is kept, once the font is added.
FontsAdded == /\ Python!StyledWithFont
              /\ font = "ready" => added
              /\ \A r \in Python!Ids : runs[r].cjk => added

\* A run that found its cell quiet began after every earlier one had ended.
AloneSince == \A r \in Python!Ids : runs[r].alone =>
                \A s \in Python!Of(Python!Cell(r)) : s < r => runs[s].stage = "ended"

CellsInv == /\ Python!TypeOK /\ LoadedOnce /\ FontsAdded /\ AloneSince
            /\ Python!FontIsOptional /\ Python!OwnFigures /\ Python!LoneRunShown /\ Python!NoStaleProgress

---------------------------------------------------------------------------
(* What runs that go on keep.                                              *)

\* The cardinality that RunnableCells counts figures with is that of the library.
LEMMA PythonLibrary == \A S : Python!Cardinality(S) = Cardinality(S)
BY Zenon DEF Python!Cardinality, Cardinality

\* Nothing is started, and what a run was started as stays.
GoOn == /\ runs' \in Seq(Python!Run) /\ Len(runs') = Len(runs)
        /\ \A r \in Python!Ids : /\ runs'[r].cell = runs[r].cell
                                 /\ runs'[r].code = runs[r].code
                                 /\ runs'[r].alone = runs[r].alone
                                 /\ runs[r].stage = "ended" => runs'[r].stage = "ended"

LEMMA RunTyped == ASSUME Python!TypeOK, NEW r \in Python!Ids
                  PROVE  runs[r] \in Python!Run /\ runs[r].cell \in Cells /\ r \in Nat
<1>1. runs[r] \in Python!Run /\ r \in Nat
  BY DEF Python!TypeOK, Python!Ids
<1> QED BY <1>1 DEF Python!Run

\* The runs of a cell are those they were.
LEMMA SameRuns == ASSUME Python!TypeOK, GoOn PROVE /\ Python!Ids' = Python!Ids
                                                   /\ \A c \in Cells : Python!Of(c)' = Python!Of(c)
                                                   /\ AloneSince => AloneSince'
<1>1. Python!Ids' = Python!Ids
  BY DEF GoOn, Python!Ids
<1>2. \A r \in Python!Ids : /\ runs[r].cell \in Cells
                            /\ runs'[r].cell = runs[r].cell
                            /\ runs'[r].alone = runs[r].alone
                            /\ runs[r].stage = "ended" => runs'[r].stage = "ended"
  BY RunTyped DEF GoOn
<1>3. \A c : Python!Of(c)' = Python!Of(c)
  BY <1>1, <1>2 DEF Python!Of
<1>4. ASSUME AloneSince PROVE AloneSince'
  <2> SUFFICES ASSUME NEW r \in Python!Ids, runs'[r].alone,
                      NEW s \in Python!Of(runs[r].cell), s < r
               PROVE  runs'[s].stage = "ended"
    BY <1>1, <1>2, <1>3 DEF AloneSince, Python!Cell
  <2>1. runs[r].alone /\ s \in Python!Ids
    BY <1>2 DEF Python!Of
  <2>2. runs[s].stage = "ended"
    BY <1>4, <2>1 DEF AloneSince, Python!Cell
  <2> QED BY <1>2, <2>1, <2>2
<1> QED BY <1>1, <1>3, <1>4

\* A run takes one step.
Moved(r, run) == /\ run \in Python!Run /\ runs[r].stage # "ended"
                 /\ run.cell = runs[r].cell /\ run.code = runs[r].code
                 /\ run.alone = runs[r].alone
                 /\ runs' = [runs EXCEPT ![r] = run]

LEMMA MovedGoesOn ==
  ASSUME Python!TypeOK, NEW r \in Python!Ids, NEW run, Moved(r, run)
  PROVE  /\ GoOn /\ runs'[r] = run
         /\ \A s \in Python!Ids : s # r => runs'[s] = runs[s]
<1>1. runs \in Seq(Python!Run) /\ r \in 1 .. Len(runs)
  BY DEF Python!TypeOK, Python!Ids
<1>2. runs' \in Seq(Python!Run) /\ Len(runs') = Len(runs) /\ runs'[r] = run
      /\ \A s \in 1 .. Len(runs) : s # r => runs'[s] = runs[s]
  BY <1>1 DEF Moved
<1> QED BY <1>1, <1>2 DEF Moved, GoOn, Python!Ids

\* What a run does to the page and the interpreter in one step: its cell only,
\* and no word of progress once it has ended.
LEMMA StepKeeps ==
  ASSUME CellsInv, NEW r \in Python!Ids, NEW run, Moved(r, run), UNCHANGED added,
         run.cjk => added, font' = "ready" => added, style' => style \/ runs[r].cjk,
         run.code.outcome = "ends" => run.result # "raised",
         \A c \in Cells \ {Python!Cell(r)} : /\ status'[c] = status[c] /\ out'[c] = out[c]
                                             /\ pictures'[c] = pictures[c],
         run.stage = "ended" => status'[Python!Cell(r)] \notin Python!Progress,
         out'[Python!Cell(r)] \in {out[Python!Cell(r)], r},
         pictures'[Python!Cell(r)] \in {pictures[Python!Cell(r)], {}, {r}}
  PROVE  /\ FontsAdded' /\ AloneSince' /\ Python!FontIsOptional'
         /\ Python!OwnFigures' /\ Python!LoneRunShown' /\ Python!NoStaleProgress'
<1>1. /\ GoOn /\ Python!Ids' = Python!Ids /\ AloneSince' /\ runs'[r] = run
      /\ \A s \in Python!Ids : s # r => runs'[s] = runs[s]
      /\ \A c \in Cells : Python!Of(c)' = Python!Of(c)
  BY MovedGoesOn, SameRuns DEF CellsInv
<1>2. runs[r].stage # "ended" /\ Python!Cell(r) \in Cells /\ r \in Python!Of(Python!Cell(r))
  BY RunTyped DEF Moved, Python!Of, Python!Cell, CellsInv
<1>3. FontsAdded'
  BY <1>1 DEF FontsAdded, Python!StyledWithFont, CellsInv
<1>4. Python!FontIsOptional'
  BY <1>1 DEF Python!FontIsOptional, CellsInv
<1>5. Python!OwnFigures'
  <2> SUFFICES ASSUME NEW c \in Cells PROVE pictures'[c] \subseteq Python!Of(c) /\ Cardinality(pictures'[c]) <= 1
    BY <1>1, PythonLibrary DEF Python!OwnFigures
  <2>1. Cardinality({}) = 0 /\ Cardinality({r}) = 1
    BY FS_EmptySet, FS_Singleton
  <2>2. pictures'[c] = pictures[c] \/ (c = Python!Cell(r) /\ pictures'[c] \in {{}, {r}})
    OBVIOUS
  <2>3. pictures[c] \subseteq Python!Of(c) /\ Cardinality(pictures[c]) <= 1
    BY PythonLibrary DEF CellsInv, Python!OwnFigures
  <2>4. CASE pictures'[c] = pictures[c]
    BY <2>3, <2>4
  <2>5. CASE c = Python!Cell(r) /\ pictures'[c] = {}
    BY <2>1, <2>5
  <2>6. CASE c = Python!Cell(r) /\ pictures'[c] = {r}
    BY <2>1, <2>6, <1>2
  <2> QED BY <2>2, <2>4, <2>5, <2>6
<1>6. Python!LoneRunShown'
  <2> SUFFICES ASSUME NEW c \in Cells, NEW l \in Python!Of(c), runs'[l].alone,
                      \A s \in Python!Of(c) : s <= l
               PROVE  out'[c] \in {None, l} /\ pictures'[c] \subseteq {l}
    BY <1>1 DEF Python!LoneRunShown
  <2>1. l \in Python!Ids /\ runs[l].alone /\ runs[l].cell = c /\ l \in Nat /\ r \in Nat
    BY <1>1 DEF Python!Of, GoOn, Python!Ids
  <2>2. out[c] \in {None, l} /\ pictures[c] \subseteq {l}
    BY <2>1 DEF CellsInv, Python!LoneRunShown
  <2>3. CASE c = Python!Cell(r)
    <3>1. r <= l /\ ~(r < l)
      BY <1>2, <2>1, <2>3 DEF CellsInv, AloneSince, Python!Cell
    <3>2. r = l
      BY <3>1, <2>1
    <3> QED BY <3>2, <2>2, <2>3
  <2>4. CASE c # Python!Cell(r)
    BY <2>2, <2>4
  <2> QED BY <2>3, <2>4
<1>7. Python!NoStaleProgress'
  <2> SUFFICES ASSUME NEW c \in Cells, Python!UnderWay(c)' = {}
               PROVE  status'[c] \notin Python!Progress
    BY DEF Python!NoStaleProgress
  <2>1. \A s \in Python!Of(c) : runs'[s].stage = "ended"
    BY <1>1 DEF Python!UnderWay
  <2>2. CASE c = Python!Cell(r)
    BY <1>1, <1>2, <2>1, <2>2
  <2>3. CASE c # Python!Cell(r)
    <3>1. \A s \in Python!Of(c) : s \in Python!Ids /\ s # r
      BY <2>3 DEF Python!Of, Python!Cell
    <3>2. Python!UnderWay(c) = {}
      BY <1>1, <2>1, <3>1 DEF Python!UnderWay
    <3> QED BY <2>3, <3>2 DEF CellsInv, Python!NoStaleProgress
  <2> QED BY <2>2, <2>3
<1> QED BY <1>1, <1>3, <1>4, <1>5, <1>6, <1>7

---------------------------------------------------------------------------
(* The initial states, and one lemma for each action.                      *)

LEMMA CellsInit == Python!Init => CellsInv
<1> SUFFICES ASSUME Python!Init PROVE CellsInv
  OBVIOUS
<1>1. runs = << >> /\ Python!Ids = {} /\ \A c \in Cells : Python!Of(c) = {}
  BY DEF Python!Init, Python!Ids, Python!Of
<1>2. Python!TypeOK
  <2>1. runs \in Seq(Python!Run)
    BY <1>1
  <2>2. status \in [Cells -> Python!Progress \cup {"blank", "noPython", "noOutput", "error"}]
    BY DEF Python!Init
  <2>3. out \in [Cells -> Python!Ids \cup {None}] /\ pictures \in [Cells -> SUBSET Python!Ids]
    BY DEF Python!Init, Python!Ids
  <2>4. style \in BOOLEAN /\ added \in BOOLEAN
    BY DEF Python!Init
  <2>5. opened \subseteq Python!Ids /\ scripts \in 0 .. 1
    BY DEF Python!Init
  <2>6. py \in {"none", "loading", "ready", "failed"} /\ font \in {"none", "fetching", "ready"}
    BY DEF Python!Init
  <2> QED BY <2>1, <2>2, <2>3, <2>4, <2>5, <2>6 DEF Python!TypeOK
<1>3. Python!OwnFigures
  BY <1>1, FS_EmptySet, PythonLibrary DEF Python!Init, Python!OwnFigures
<1>4. Python!NoStaleProgress
  BY DEF Python!Init, Python!NoStaleProgress, Python!Progress
<1>5. FontsAdded
  BY <1>1 DEF Python!Init, FontsAdded, Python!StyledWithFont
<1>6. AloneSince /\ Python!FontIsOptional
  BY <1>1 DEF AloneSince, Python!FontIsOptional
<1>7. Python!LoneRunShown /\ LoadedOnce
  BY <1>1 DEF Python!Init, Python!LoneRunShown, LoadedOnce
<1> QED BY <1>2, <1>3, <1>4, <1>5, <1>6, <1>7 DEF CellsInv

\* A run that is started empties its cell first, and asks for Python once.
LEMMA ClickKeeps ==
  ASSUME NEW c \in Cells, NEW k \in Codes
  PROVE  CellsInv /\ Python!Click(c, k) => CellsInv'
<1> SUFFICES ASSUME CellsInv, Python!Click(c, k) PROVE CellsInv'
  OBVIOUS
<1>1. PICK run : /\ run = [cell |-> c, code |-> k, stage |-> "python", cjk |-> FALSE,
                           alone |-> Python!UnderWay(c) = {}, result |-> "none"]
                 /\ runs' = Append(runs, run)
  BY DEF Python!Click
<1>2. run \in Python!Run
  BY <1>1 DEF Python!Run, Python!Awaiting, Python!Result
<1>3. /\ run.cell = c /\ run.stage = "python" /\ run.cjk = FALSE /\ run.result = "none"
      /\ run.alone = (Python!UnderWay(c) = {})
  BY <1>1
<1>4. /\ out' = [out EXCEPT ![c] = None] /\ pictures' = [pictures EXCEPT ![c] = {}]
      /\ UNCHANGED <<font, opened, style, added>>
      /\ Python!LoadPython(c)
  BY DEF Python!Click, Python!python
<1> DEFINE new == Len(runs) + 1
<1>5. /\ runs \in Seq(Python!Run) /\ runs' \in Seq(Python!Run) /\ Len(runs') = Len(runs) + 1
      /\ Len(runs) \in Nat /\ runs'[new] = run
      /\ \A r \in 1 .. Len(runs) : runs'[r] = runs[r]
  BY <1>1, <1>2 DEF CellsInv, Python!TypeOK
<1>6. /\ Python!Ids' = Python!Ids \cup {new} /\ new \notin Python!Ids /\ new \in Nat
      /\ \A r \in Python!Ids : runs'[r] = runs[r] /\ r < new /\ r \in Nat /\ ~(new < r)
  BY <1>5 DEF Python!Ids
<1>7. \A d \in Cells : Python!Of(d)' = IF d = c THEN Python!Of(d) \cup {new} ELSE Python!Of(d)
  BY <1>3, <1>5, <1>6 DEF Python!Of
<1> HIDE DEF new
<1>8. /\ out \in [Cells -> Python!Ids \cup {None}] /\ pictures \in [Cells -> SUBSET Python!Ids]
      /\ status \in [Cells -> Python!Progress \cup {"blank", "noPython", "noOutput", "error"}]
      /\ py \in {"none", "loading", "ready", "failed"} /\ scripts \in 0 .. 1
  BY DEF CellsInv, Python!TypeOK
<1>9. /\ py' \in {"none", "loading", "ready", "failed"} /\ scripts' \in 0 .. 1 /\ LoadedOnce'
      /\ status' \in [Cells -> Python!Progress \cup {"blank", "noPython", "noOutput", "error"}]
      /\ \A d \in Cells \ {c} : status'[d] = status[d]
  BY <1>4, <1>8 DEF Python!LoadPython, Python!load, Python!Say, CellsInv, LoadedOnce,
                    Python!Progress
<1>10. Python!TypeOK'
  <2>1. out' \in [Cells -> Python!Ids' \cup {None}] /\ pictures' \in [Cells -> SUBSET Python!Ids']
    BY <1>4, <1>6, <1>8
  <2> QED BY <1>4, <1>5, <1>6, <1>9, <2>1 DEF CellsInv, Python!TypeOK
<1>11. FontsAdded'
  BY <1>3, <1>4, <1>5, <1>6 DEF CellsInv, FontsAdded, Python!StyledWithFont
<1>12. Python!FontIsOptional'
  BY <1>3, <1>5, <1>6 DEF CellsInv, Python!FontIsOptional
<1>13. AloneSince'
  <2> SUFFICES ASSUME NEW r \in Python!Ids', runs'[r].alone,
                      NEW s \in Python!Ids', runs'[s].cell = runs'[r].cell, s < r
               PROVE  runs'[s].stage = "ended"
    BY DEF AloneSince, Python!Cell, Python!Of
  <2>2. CASE r = new
    <3>1. s # new
      BY <2>2, <1>6
    <3>2. s \in Python!Of(c) /\ runs'[s] = runs[s] /\ Python!UnderWay(c) = {}
      BY <2>2, <3>1, <1>3, <1>5, <1>6 DEF Python!Of
    <3> QED BY <3>2 DEF Python!UnderWay
  <2>3. CASE r \in Python!Ids
    <3>1. s \in Python!Ids
      BY <2>3, <1>6
    <3>2. runs'[r] = runs[r] /\ runs'[s] = runs[s] /\ s \in Python!Of(Python!Cell(r))
      BY <2>3, <3>1, <1>6 DEF Python!Of, Python!Cell
    <3> QED BY <2>3, <3>2 DEF CellsInv, AloneSince
  <2> QED BY <2>2, <2>3, <1>6
<1>14. Python!OwnFigures'
  BY <1>4, <1>7, <1>8, FS_EmptySet, PythonLibrary DEF CellsInv, Python!OwnFigures
<1>15. Python!LoneRunShown'
  <2> SUFFICES ASSUME NEW d \in Cells, NEW r \in Python!Of(d)', runs'[r].alone,
                      \A s \in Python!Of(d)' : s <= r
               PROVE  out'[d] \in {None, r} /\ pictures'[d] \subseteq {r}
    BY DEF Python!LoneRunShown
  <2>1. CASE d = c
    BY <2>1, <1>4, <1>8
  <2>2. CASE d # c
    <3>1. r \in Python!Of(d) /\ runs'[r] = runs[r] /\ \A s \in Python!Of(d) : s <= r
      BY <2>2, <1>6, <1>7 DEF Python!Of
    <3>2. out[d] \in {None, r} /\ pictures[d] \subseteq {r}
      BY <3>1 DEF CellsInv, Python!LoneRunShown
    <3> QED BY <2>2, <3>2, <1>4, <1>8
  <2> QED BY <2>1, <2>2
<1>16. Python!NoStaleProgress'
  <2> SUFFICES ASSUME NEW d \in Cells, Python!UnderWay(d)' = {}
               PROVE  status'[d] \notin Python!Progress
    BY DEF Python!NoStaleProgress
  <2>1. d # c
    BY <1>3, <1>5, <1>7 DEF Python!UnderWay
  <2>2. Python!UnderWay(d) = {}
    BY <2>1, <1>6, <1>7 DEF Python!UnderWay, Python!Of
  <2> QED BY <2>1, <2>2, <1>9 DEF CellsInv, Python!NoStaleProgress
<1> QED BY <1>9, <1>10, <1>11, <1>12, <1>13, <1>14, <1>15, <1>16 DEF CellsInv

\* Reset takes what the cell shows, and only a word of progress from its line.
LEMMA ResetKeeps == ASSUME NEW c \in Cells PROVE CellsInv /\ Python!Reset(c) => CellsInv'
<1> SUFFICES ASSUME CellsInv, Python!Reset(c) PROVE CellsInv'
  OBVIOUS
<1>1. /\ out' = [out EXCEPT ![c] = None] /\ pictures' = [pictures EXCEPT ![c] = {}]
      /\ status' = [status EXCEPT ![c] = "blank"]
      /\ UNCHANGED <<py, scripts, font, runs, opened, style, added>>
  BY DEF Python!Reset, Python!load, Python!python, Python!Say
<1>2. /\ out \in [Cells -> Python!Ids \cup {None}] /\ pictures \in [Cells -> SUBSET Python!Ids]
      /\ status \in [Cells -> Python!Progress \cup {"blank", "noPython", "noOutput", "error"}]
  BY DEF CellsInv, Python!TypeOK
<1>3. Python!Ids' = Python!Ids /\ \A d : Python!Of(d)' = Python!Of(d) /\ Python!UnderWay(d)' = Python!UnderWay(d)
  BY <1>1 DEF Python!Ids, Python!Of, Python!UnderWay
<1>4. Python!TypeOK'
  BY <1>1, <1>2, <1>3 DEF CellsInv, Python!TypeOK
<1>5. Python!OwnFigures'
  BY <1>1, <1>2, <1>3, FS_EmptySet, PythonLibrary DEF CellsInv, Python!OwnFigures
<1>6. Python!LoneRunShown'
  BY <1>1, <1>2, <1>3 DEF CellsInv, Python!LoneRunShown
<1>7. Python!NoStaleProgress'
  BY <1>1, <1>2, <1>3 DEF CellsInv, Python!NoStaleProgress, Python!Progress
<1>8. FontsAdded' /\ LoadedOnce' /\ Python!FontIsOptional'
  BY <1>1, <1>3 DEF CellsInv, FontsAdded, Python!StyledWithFont, LoadedOnce,
                    Python!FontIsOptional
<1>9. AloneSince'
  BY <1>1, <1>3 DEF CellsInv, AloneSince, Python!Cell
<1> QED BY <1>4, <1>5, <1>6, <1>7, <1>8, <1>9 DEF CellsInv

\* The interpreter is there, or its script has failed for good.
LEMMA PythonKeeps == CellsInv /\ (Python!PythonLoads \/ Python!PythonFails) => CellsInv'
<1> SUFFICES ASSUME CellsInv, Python!PythonLoads \/ Python!PythonFails PROVE CellsInv'
  OBVIOUS
<1>1. /\ UNCHANGED <<scripts, font, runs, status, out, pictures, opened, style, added>>
      /\ py = "loading" /\ py' \in {"ready", "failed"}
  BY DEF Python!PythonLoads, Python!PythonFails, Python!page, Python!python
<1>2. Python!Ids' = Python!Ids /\ \A d : Python!Of(d)' = Python!Of(d) /\ Python!UnderWay(d)' = Python!UnderWay(d)
  BY <1>1 DEF Python!Ids, Python!Of, Python!UnderWay
<1>3. Python!TypeOK' /\ LoadedOnce'
  BY <1>1, <1>2 DEF CellsInv, Python!TypeOK, LoadedOnce
<1>4. Python!OwnFigures' /\ Python!LoneRunShown' /\ Python!NoStaleProgress'
  BY <1>1, <1>2 DEF CellsInv, Python!OwnFigures, Python!LoneRunShown, Python!NoStaleProgress
<1>5. FontsAdded' /\ Python!FontIsOptional'
  BY <1>1, <1>2 DEF CellsInv, FontsAdded, Python!StyledWithFont, Python!FontIsOptional
<1>6. AloneSince'
  BY <1>1, <1>2 DEF CellsInv, AloneSince, Python!Cell
<1> QED BY <1>3, <1>4, <1>5, <1>6 DEF CellsInv

\* The font's continuations: the runs that waited go on, styled only if it came.
LEMMA FontKeeps ==
  ASSUME CellsInv, NEW ok \in BOOLEAN, runs' = Python!WithFont(ok),
         status' = Python!Running(Python!AwaitFont),
         UNCHANGED <<py, scripts, out, pictures, opened, style>>,
         font' \in {"none", "ready"}, added' \in BOOLEAN,
         added => added', ok => added', font' = "ready" => added'
  PROVE  CellsInv'
<1>1. /\ runs \in Seq(Python!Run) /\ Python!Ids = 1 .. Len(runs) /\ Len(runs) \in Nat
      /\ status \in [Cells -> Python!Progress \cup {"blank", "noPython", "noOutput", "error"}]
  BY DEF CellsInv, Python!TypeOK, Python!Ids
<1>2. ASSUME NEW r \in Python!Ids
      PROVE  /\ runs'[r] \in Python!Run
             /\ runs'[r].cell = runs[r].cell /\ runs'[r].code = runs[r].code
             /\ runs'[r].alone = runs[r].alone /\ runs'[r].result = runs[r].result
             /\ runs[r].stage = "ended" <=> runs'[r].stage = "ended"
             /\ runs'[r].cjk => runs[r].cjk \/ ok
  <2>1. runs[r] \in Python!Run
    BY RunTyped DEF CellsInv
  <2>2. CASE runs[r].stage = "font"
    <3>1. runs'[r] = [runs[r] EXCEPT !.stage = "paint", !.cjk = ok]
      BY <2>2 DEF Python!WithFont
    <3> QED BY <2>1, <2>2, <3>1 DEF Python!Run, Python!Awaiting
  <2>3. CASE runs[r].stage # "font"
    BY <2>1, <2>3 DEF Python!WithFont
  <2> QED BY <2>2, <2>3
<1>3. GoOn
  <2>1. DOMAIN runs' = 1 .. Len(runs) /\ runs' = [r \in 1 .. Len(runs) |-> runs'[r]]
    BY <1>1 DEF Python!WithFont
  <2>2. runs' \in [1 .. Len(runs) -> Python!Run]
    BY <1>1, <1>2, <2>1
  <2>3. runs' \in Seq(Python!Run) /\ Len(runs') = Len(runs)
    BY <1>1, <2>2
  <2> QED BY <1>2, <2>3 DEF GoOn
<1>4. /\ Python!Ids' = Python!Ids /\ AloneSince' /\ \A c \in Cells : Python!Of(c)' = Python!Of(c)
  BY <1>3, SameRuns DEF CellsInv
<1>5. \A c \in Cells : Python!UnderWay(c)' = Python!UnderWay(c)
  BY <1>2, <1>4 DEF Python!UnderWay, Python!Of
<1>6. status' \in [Cells -> Python!Progress \cup {"blank", "noPython", "noOutput", "error"}]
  BY <1>1 DEF Python!Running, Python!Progress
<1>7. Python!TypeOK'
  BY <1>3, <1>4, <1>6 DEF CellsInv, Python!TypeOK, GoOn
<1>8. FontsAdded'
  BY <1>2, <1>4 DEF CellsInv, FontsAdded, Python!StyledWithFont
<1>9. Python!FontIsOptional'
  BY <1>2, <1>4 DEF CellsInv, Python!FontIsOptional
<1>10. Python!OwnFigures' /\ LoadedOnce'
  BY <1>4 DEF CellsInv, Python!OwnFigures, LoadedOnce
<1>11. Python!LoneRunShown'
  BY <1>2, <1>4 DEF CellsInv, Python!LoneRunShown, Python!Of
<1>12. Python!NoStaleProgress'
  <2> SUFFICES ASSUME NEW c \in Cells, Python!UnderWay(c) = {}
               PROVE  status'[c] \notin Python!Progress
    BY <1>5 DEF Python!NoStaleProgress
  <2>1. \A r \in Python!AwaitFont : Python!Cell(r) # c
    BY DEF Python!AwaitFont, Python!UnderWay, Python!Of, Python!Cell
  <2>2. status'[c] = status[c]
    BY <2>1 DEF Python!Running
  <2> QED BY <2>2 DEF CellsInv, Python!NoStaleProgress
<1> QED BY <1>4, <1>7, <1>8, <1>9, <1>10, <1>11, <1>12 DEF CellsInv

\* The steps of a run up to the Python call: a run that fails says so and ends.
LEMMA AwaitsKeep ==
  ASSUME NEW r \in Python!Ids
  PROVE  CellsInv /\ (Python!NoPython(r) \/ Python!WithPython(r) \/ Python!PackagesFail(r)) => CellsInv'
<1> SUFFICES ASSUME CellsInv, Python!NoPython(r) \/ Python!WithPython(r) \/ Python!PackagesFail(r) PROVE CellsInv'
  OBVIOUS
<1>1. /\ runs[r] \in Python!Run /\ Python!Cell(r) \in Cells /\ r \in Nat
      /\ out \in [Cells -> Python!Ids \cup {None}] /\ runs \in Seq(Python!Run)
      /\ status \in [Cells -> Python!Progress \cup {"blank", "noPython", "noOutput", "error"}]
  BY RunTyped DEF CellsInv, Python!TypeOK, Python!Cell
<1>2. /\ UNCHANGED <<py, scripts, font, pictures, opened, style, added>>
      /\ out' = out \/ out' = [out EXCEPT ![Python!Cell(r)] = r]
      /\ runs[r].stage # "ended"
  BY SMTT(30) DEF Python!NoPython, Python!WithPython, Python!PackagesFail, Python!load, Python!python
<1>3. PICK phase, result, line :
        /\ runs' = [runs EXCEPT ![r] = [@ EXCEPT !.stage = phase, !.result = result]]
        /\ status' = [status EXCEPT ![Python!Cell(r)] = line]
        /\ phase \in Python!Awaiting \cup {"ended"}
        /\ result = runs[r].result \/ result \in {"noPython", "noPackages"}
        /\ line \in Python!Progress \cup {"noPython", "error"}
        /\ phase = "ended" => line \in {"noPython", "error"}
  <2>1. CASE Python!NoPython(r)
    <3>1. /\ runs' = [runs EXCEPT ![r] = [@ EXCEPT !.stage = "ended", !.result = "noPython"]]
          /\ status' = [status EXCEPT ![Python!Cell(r)] = "noPython"]
      BY <2>1, <1>1 DEF Python!NoPython, Python!End, Python!Say
    <3> QED BY <3>1
  <2>2. CASE Python!PackagesFail(r)
    <3>1. /\ runs' = [runs EXCEPT ![r] = [@ EXCEPT !.stage = "ended", !.result = "noPackages"]]
          /\ status' = [status EXCEPT ![Python!Cell(r)] = "error"]
      BY <2>2, <1>1 DEF Python!PackagesFail, Python!End, Python!Say
    <3> QED BY <3>1
  <2>3. CASE Python!WithPython(r)
    <3>1. PICK phase, line : /\ runs' = [runs EXCEPT ![r].stage = phase]
                             /\ status' = [status EXCEPT ![Python!Cell(r)] = line]
                             /\ phase \in {"packages", "paint"}
                             /\ line \in {"loadingPackages", "running"}
      BY <2>3 DEF Python!WithPython, Python!Goto, Python!Say
    <3>2. [runs[r] EXCEPT !.stage = phase]
            = [runs[r] EXCEPT !.stage = phase, !.result = runs[r].result]
      BY <1>1 DEF Python!Run
    <3>3. runs' = [runs EXCEPT ![r] = [@ EXCEPT !.stage = phase, !.result = runs[r].result]]
      BY <3>1, <3>2
    <3>4. phase \in Python!Awaiting /\ phase # "ended" /\ line \in Python!Progress
      BY <3>1 DEF Python!Awaiting, Python!Progress
    <3> QED BY <3>1, <3>3, <3>4
  <2> QED BY <2>1, <2>2, <2>3
<1>4. PICK run : run = [runs[r] EXCEPT !.stage = phase, !.result = result]
  OBVIOUS
<1>5. /\ Moved(r, run) /\ run.cjk = runs[r].cjk /\ run.stage = phase /\ run.result = result
  BY <1>1, <1>2, <1>3, <1>4 DEF Moved, Python!Run, Python!Result
<1>6. /\ GoOn /\ Python!Ids' = Python!Ids
  BY <1>5, MovedGoesOn, SameRuns DEF CellsInv
<1>7. Python!TypeOK' /\ LoadedOnce'
  <2>1. status' \in [Cells -> Python!Progress \cup {"blank", "noPython", "noOutput", "error"}]
    BY <1>1, <1>3
  <2>2. out' \in [Cells -> Python!Ids \cup {None}]
    BY <1>1, <1>2
  <2> QED BY <1>2, <1>6, <2>1, <2>2 DEF CellsInv, Python!TypeOK, GoOn, LoadedOnce
<1>8. run.code.outcome = "ends" => run.result # "raised"
  BY <1>3, <1>5 DEF CellsInv, Python!FontIsOptional, Moved
<1>9. run.cjk => added
  BY <1>5 DEF CellsInv, FontsAdded
<1>10. font' = "ready" => added'
  BY <1>2 DEF CellsInv, FontsAdded
<1>11. /\ \A c \in Cells \ {Python!Cell(r)} : /\ status'[c] = status[c] /\ out'[c] = out[c]
                                              /\ pictures'[c] = pictures[c]
       /\ status'[Python!Cell(r)] = line
       /\ out'[Python!Cell(r)] \in {out[Python!Cell(r)], r} /\ pictures'[Python!Cell(r)] = pictures[Python!Cell(r)]
  BY <1>1, <1>2, <1>3
<1>12. run.stage = "ended" => status'[Python!Cell(r)] \notin Python!Progress
  BY <1>3, <1>5, <1>11 DEF Python!Progress
<1>13. /\ FontsAdded' /\ AloneSince' /\ Python!FontIsOptional'
       /\ Python!OwnFigures' /\ Python!LoneRunShown' /\ Python!NoStaleProgress'
  <2>1. UNCHANGED added /\ style' = style
    BY <1>2
  <2> QED BY <1>5, <1>8, <1>9, <1>10, <1>11, <1>12, <2>1, StepKeeps
<1> QED BY <1>7, <1>13 DEF CellsInv

\* A chart with CJK text goes on with the font or waits for it; the others go on.
LEMMA WithPackagesKeeps == ASSUME NEW r \in Python!Ids PROVE CellsInv /\ Python!WithPackages(r) => CellsInv'
<1> SUFFICES ASSUME CellsInv, Python!WithPackages(r) PROVE CellsInv'
  OBVIOUS
<1>1. /\ runs[r] \in Python!Run /\ Python!Cell(r) \in Cells /\ r \in Nat /\ runs \in Seq(Python!Run)
      /\ status \in [Cells -> Python!Progress \cup {"blank", "noPython", "noOutput", "error"}]
      /\ font \in {"none", "fetching", "ready"}
  BY RunTyped DEF CellsInv, Python!TypeOK, Python!Cell
<1>2. /\ UNCHANGED <<py, scripts, out, pictures, opened, style, added>>
      /\ runs[r].stage # "ended"
      /\ font' \in {"none", "fetching", "ready"} /\ (font' = "ready" <=> font = "ready")
  BY <1>1, SMTT(30) DEF Python!WithPackages, Python!load, Python!python
<1>3. PICK phase, cjk :
        /\ runs' = [runs EXCEPT ![r] = [@ EXCEPT !.stage = phase, !.cjk = cjk]]
        /\ phase \in Python!Awaiting /\ phase # "ended"
        /\ cjk = runs[r].cjk \/ (cjk = TRUE /\ font = "ready")
  <2>1. CASE runs' = [runs EXCEPT ![r].stage = "paint", ![r].cjk = TRUE] /\ font = "ready"
    <3>1. runs' = [runs EXCEPT ![r] = [@ EXCEPT !.stage = "paint", !.cjk = TRUE]]
      BY <2>1, <1>1
    <3> QED BY <2>1, <3>1 DEF Python!Awaiting
  <2>2. ASSUME NEW phase \in {"font", "paint"}, Python!Goto(r, phase)
        PROVE  runs' = [runs EXCEPT ![r] = [@ EXCEPT !.stage = phase, !.cjk = runs[r].cjk]]
    <3>1. [runs[r] EXCEPT !.stage = phase]
            = [runs[r] EXCEPT !.stage = phase, !.cjk = runs[r].cjk]
      BY <1>1 DEF Python!Run
    <3> QED BY <2>2, <3>1 DEF Python!Goto
  <2>3. \A phase \in {"font", "paint"} : phase \in Python!Awaiting /\ phase # "ended"
    BY DEF Python!Awaiting
  <2>4. \/ runs' = [runs EXCEPT ![r].stage = "paint", ![r].cjk = TRUE] /\ font = "ready"
        \/ \E phase \in {"font", "paint"} : Python!Goto(r, phase)
    BY DEF Python!WithPackages
  <2> QED BY <2>1, <2>2, <2>3, <2>4
<1>4. status' = status \/ \E line \in Python!Progress : status' = [status EXCEPT ![Python!Cell(r)] = line]
  <2>1. "running" \in Python!Progress /\ "loadingFont" \in Python!Progress
    BY DEF Python!Progress
  <2> QED BY <2>1 DEF Python!WithPackages, Python!Say
<1>5. PICK run : run = [runs[r] EXCEPT !.stage = phase, !.cjk = cjk]
  OBVIOUS
<1>6. /\ Moved(r, run) /\ run.cjk = cjk /\ run.stage = phase /\ run.result = runs[r].result
  BY <1>1, <1>2, <1>3, <1>5 DEF Moved, Python!Run
<1>7. GoOn /\ Python!Ids' = Python!Ids
  BY <1>6, MovedGoesOn, SameRuns DEF CellsInv
<1>8. Python!TypeOK' /\ LoadedOnce'
  <2>1. status' \in [Cells -> Python!Progress \cup {"blank", "noPython", "noOutput", "error"}]
    BY <1>1, <1>4
  <2> QED BY <1>2, <1>7, <2>1 DEF CellsInv, Python!TypeOK, GoOn, LoadedOnce
<1>9. run.code.outcome = "ends" => run.result # "raised"
  BY <1>6 DEF CellsInv, Python!FontIsOptional, Moved
<1>10. (run.cjk => added) /\ (font' = "ready" => added')
  BY <1>2, <1>3, <1>6 DEF CellsInv, FontsAdded
<1>11. \A c \in Cells \ {Python!Cell(r)} : status'[c] = status[c]
  BY <1>1, <1>4
<1>12. /\ FontsAdded' /\ AloneSince' /\ Python!FontIsOptional'
       /\ Python!OwnFigures' /\ Python!LoneRunShown' /\ Python!NoStaleProgress'
  BY <1>2, <1>3, <1>6, <1>9, <1>10, <1>11, StepKeeps
<1> QED BY <1>8, <1>12 DEF CellsInv

\* The Python call: close("all") first, so the figures shown are the run's own.
LEMMA ExecuteKeeps == ASSUME NEW r \in Python!Ids PROVE CellsInv /\ Python!Execute(r) => CellsInv'
<1> SUFFICES ASSUME CellsInv, Python!Execute(r) PROVE CellsInv'
  OBVIOUS
<1>1. /\ runs[r] \in Python!Run /\ Python!Cell(r) \in Cells /\ r \in Nat /\ runs \in Seq(Python!Run)
      /\ status \in [Cells -> Python!Progress \cup {"blank", "noPython", "noOutput", "error"}]
      /\ out \in [Cells -> Python!Ids \cup {None}] /\ pictures \in [Cells -> SUBSET Python!Ids]
  BY RunTyped DEF CellsInv, Python!TypeOK, Python!Cell
<1>2. /\ UNCHANGED <<py, scripts, font, added>>
      /\ runs[r].stage # "ended"
      /\ style' = (style \/ runs[r].cjk)
      /\ out' = [out EXCEPT ![Python!Cell(r)] = r]
  BY DEF Python!Execute, Python!load
<1>3. Python!Drawn(r) \in {{}, {r}}
  BY DEF Python!Drawn
<1>4. /\ opened' \in {{}, {r}}
      /\ pictures' = pictures \/ \E kept \in {{}, {r}} : pictures' = [pictures EXCEPT ![Python!Cell(r)] = kept]
  BY <1>3 DEF Python!Execute
<1>5. PICK result, line :
        /\ Python!End(r, result) /\ result \in {"raised", "printed"}
        /\ Python!Say(Python!Cell(r), line) /\ line \in {"blank", "noOutput", "error"}
        /\ runs[r].code.outcome = "ends" => result # "raised"
  <2>1. CASE \/ runs[r].code.outcome = "raises" /\ Python!Say(Python!Cell(r), "error") /\ Python!End(r, "raised")
             \/ runs[r].code.outcome = "badfigure" /\ Python!Say(Python!Cell(r), "blank") /\ Python!End(r, "printed")
             \/ runs[r].code.outcome = "badsvg" /\ Python!Say(Python!Cell(r), "error") /\ Python!End(r, "raised")
    BY <2>1
  <2>2. CASE \E line \in {"blank", "noOutput"} : Python!Say(Python!Cell(r), line) /\ Python!End(r, "printed")
    BY <2>2
  <2> QED BY <2>1, <2>2 DEF Python!Execute
<1>6. PICK run : run = [runs[r] EXCEPT !.stage = "ended", !.result = result]
  OBVIOUS
<1>7. runs' = [runs EXCEPT ![r] = run] /\ status' = [status EXCEPT ![Python!Cell(r)] = line]
  BY <1>1, <1>5, <1>6 DEF Python!End, Python!Say
<1>8. /\ Moved(r, run) /\ run.cjk = runs[r].cjk /\ run.stage = "ended" /\ run.result = result
  BY <1>1, <1>2, <1>5, <1>6, <1>7 DEF Moved, Python!Run, Python!Result
<1>9. GoOn /\ Python!Ids' = Python!Ids
  BY <1>8, MovedGoesOn, SameRuns DEF CellsInv
<1>10. Python!TypeOK' /\ LoadedOnce'
  <2>1. status' \in [Cells -> Python!Progress \cup {"blank", "noPython", "noOutput", "error"}]
    BY <1>1, <1>5, <1>7
  <2>2. out' \in [Cells -> Python!Ids \cup {None}] /\ pictures' \in [Cells -> SUBSET Python!Ids]
    BY <1>1, <1>2, <1>4
  <2>3. style' \in BOOLEAN
    BY <1>2
  <2> QED BY <1>2, <1>4, <1>9, <2>1, <2>2, <2>3
     DEF CellsInv, Python!TypeOK, GoOn, LoadedOnce
<1>11. run.code.outcome = "ends" => run.result # "raised"
  BY <1>5, <1>8 DEF Moved
<1>12. (run.cjk => added) /\ (font' = "ready" => added')
  BY <1>2, <1>8 DEF CellsInv, FontsAdded
<1>13. /\ \A c \in Cells \ {Python!Cell(r)} : /\ status'[c] = status[c] /\ out'[c] = out[c]
                                              /\ pictures'[c] = pictures[c]
       /\ status'[Python!Cell(r)] = line /\ out'[Python!Cell(r)] = r
       /\ pictures'[Python!Cell(r)] \in {pictures[Python!Cell(r)], {}, {r}}
  BY <1>1, <1>2, <1>4, <1>7
<1>14. status'[Python!Cell(r)] \notin Python!Progress
  BY <1>5, <1>13 DEF Python!Progress
<1>15. /\ FontsAdded' /\ AloneSince' /\ Python!FontIsOptional'
       /\ Python!OwnFigures' /\ Python!LoneRunShown' /\ Python!NoStaleProgress'
  <2>1. style' => style \/ runs[r].cjk
    BY <1>2
  <2> QED BY <1>2, <1>8, <1>11, <1>12, <1>13, <1>14, <2>1, StepKeeps
<1> QED BY <1>10, <1>15 DEF CellsInv

LEMMA CellsNext == CellsInv /\ [Python!Next]_(Python!vars) => CellsInv'
<1> SUFFICES ASSUME CellsInv, [Python!Next]_(Python!vars) PROVE CellsInv'
  OBVIOUS
<1>1. ASSUME NEW c \in Cells, Python!Reset(c) PROVE CellsInv'
  BY <1>1, ResetKeeps
<1>2. ASSUME NEW c \in Cells, NEW k \in Codes, Python!Click(c, k) PROVE CellsInv'
  BY <1>2, ClickKeeps
<1>3. CASE Python!PythonLoads \/ Python!PythonFails
  BY <1>3, PythonKeeps
<1>4. CASE Python!FontLoads
  <2>1. /\ runs' = Python!WithFont(TRUE) /\ status' = Python!Running(Python!AwaitFont)
        /\ UNCHANGED <<py, scripts, out, pictures, opened, style>>
        /\ font' = "ready" /\ added' = TRUE
    BY <1>4 DEF Python!FontLoads, Python!load
  <2> QED BY <2>1, FontKeeps
<1>5. CASE Python!FontFails
  <2>1. /\ runs' = Python!WithFont(FALSE) /\ status' = Python!Running(Python!AwaitFont)
        /\ UNCHANGED <<py, scripts, out, pictures, opened, style>>
        /\ font' = "none" /\ added' = added
    BY <1>5 DEF Python!FontFails, Python!load, Python!python
  <2>2. added \in BOOLEAN
    BY DEF CellsInv, Python!TypeOK
  <2> QED BY <2>1, <2>2, FontKeeps
<1>6. ASSUME NEW r \in Python!Ids, Python!Continue(r) PROVE CellsInv'
  BY <1>6, AwaitsKeep, WithPackagesKeeps, ExecuteKeeps DEF Python!Continue
<1>7. CASE UNCHANGED Python!vars
  <2>1. UNCHANGED <<py, scripts, font, runs, status, out, pictures, opened, style, added>>
    BY <1>7 DEF Python!vars, Python!load, Python!page, Python!python
  <2>2. Python!Ids' = Python!Ids /\ \A d : Python!Of(d)' = Python!Of(d) /\ Python!UnderWay(d)' = Python!UnderWay(d)
    BY <2>1 DEF Python!Ids, Python!Of, Python!UnderWay
  <2>3. Python!TypeOK' /\ LoadedOnce'
    BY <2>1, <2>2 DEF CellsInv, Python!TypeOK, LoadedOnce
  <2>4. Python!OwnFigures' /\ Python!LoneRunShown' /\ Python!NoStaleProgress'
    BY <2>1, <2>2 DEF CellsInv, Python!OwnFigures, Python!LoneRunShown,
                      Python!NoStaleProgress
  <2>5. FontsAdded' /\ Python!FontIsOptional' /\ AloneSince'
    BY <2>1, <2>2 DEF CellsInv, FontsAdded, Python!StyledWithFont, Python!FontIsOptional,
                      AloneSince, Python!Cell
  <2> QED BY <2>3, <2>4, <2>5 DEF CellsInv
<1> QED BY <1>1, <1>2, <1>3, <1>4, <1>5, <1>6, <1>7
   DEF Python!Next, Python!Clicks, Python!Network

\* What the strengthened invariant says of what the reader sees.
LEMMA CellsSeen == CellsInv => Python!StyledWithFont /\ Python!FontIsOptional /\ Python!CellShowsItsRun /\ Python!NoStaleProgress
BY DEF CellsInv, FontsAdded, Python!CellShowsItsRun

---------------------------------------------------------------------------
(* The marks over the article. Its text nodes.                             *)

Chars == UNION {{a.text[x] : x \in DOMAIN a.text} : a \in Articles}

LEMMA MarksLibrary == \A S : Marks!Cardinality(S) = Cardinality(S)
BY Zenon DEF Marks!Cardinality, Cardinality

\* The text of an article is a sequence of letters.
LEMMA ArticleText ==
  ASSUME NEW a \in Articles
  PROVE  a.text \in Seq(Chars) /\ Len(a.text) \in Nat /\ DOMAIN a.text = 1 .. Len(a.text)
<1> DEFINE own == {a.text[x] : x \in DOMAIN a.text}
<1>1. a.text \in Seq(own) /\ own \subseteq Chars
  BY ArticlesAssumption DEF Chars
<1> HIDE DEF own
<1> QED BY <1>1, LenProperties, SeqMonotonic

\* Letters are the places of the text.
LEMMA LettersOf ==
  ASSUME article \in Articles PROVE Marks!Letters = 1 .. Len(article.text)
BY ArticleText DEF Marks!Letters

\* Two letters are in one node: all between them are there, with no break.
Linked(x, y, M) ==
  /\ \A z \in x .. y : z \in Marks!Letters \ M /\ (z < y => z \notin article.breaks)
  /\ \A z \in y .. x : z \in Marks!Letters \ M /\ (z < x => z \notin article.breaks)

\* A text node is what is linked to one of its letters.
LEMMA NodesAre ==
  ASSUME NEW M
  PROVE  Marks!TextIndex(M) = {{y \in Marks!Letters \ M : Linked(x, y, M)} : x \in Marks!Letters \ M}
BY Zenon DEF Marks!TextIndex, Linked

\* Linked letters that share one are linked.
LEMMA LinkedOn ==
  ASSUME article \in Articles, NEW M, NEW x \in Marks!Letters, NEW y \in Marks!Letters,
         NEW w \in Marks!Letters, Linked(x, y, M), Linked(y, w, M)
  PROVE  Linked(x, w, M)
<1>1. x \in Int /\ y \in Int /\ w \in Int
  BY LettersOf, ArticleText
<1>2. ASSUME NEW z \in x .. w
      PROVE  z \in Marks!Letters \ M /\ (z < w => z \notin article.breaks)
  <2>1. CASE z < y
    <3>1. z \in x .. y
      BY <1>1, <2>1
    <3> QED BY <2>1, <3>1 DEF Linked
  <2>2. CASE z >= y
    <3>1. z \in y .. w
      BY <1>1, <2>2
    <3> QED BY <3>1 DEF Linked
  <2> QED BY <1>1, <2>1, <2>2
<1>3. ASSUME NEW z \in w .. x
      PROVE  z \in Marks!Letters \ M /\ (z < x => z \notin article.breaks)
  <2>1. CASE z < y
    <3>1. z \in w .. y
      BY <1>1, <2>1
    <3> QED BY <2>1, <3>1 DEF Linked
  <2>2. CASE z >= y
    <3>1. z \in y .. x
      BY <1>1, <2>2
    <3> QED BY <3>1 DEF Linked
  <2> QED BY <1>1, <2>1, <2>2
<1> QED BY <1>2, <1>3 DEF Linked

\* Being linked goes both ways.
LEMMA LinkedBack ==
  ASSUME NEW M, NEW x, NEW y, Linked(x, y, M) PROVE Linked(y, x, M)
BY DEF Linked

\* A letter that is not marked is in a node, and in one.
LEMMA NodesCover ==
  ASSUME article \in Articles, NEW M
  PROVE  UNION Marks!TextIndex(M) = Marks!Letters \ M
<1>1. ASSUME NEW x \in Marks!Letters \ M PROVE Linked(x, x, M)
  <2>0. x \in Int
    BY LettersOf, ArticleText
  <2>1. \A z \in x .. x : z = x
    BY <2>0
  <2>2. ~(x < x)
    BY <2>0
  <2> QED BY <1>1, <2>1, <2>2 DEF Linked
<1> DEFINE Free == Marks!Letters \ M
           Node(x) == {y \in Free : Linked(x, y, M)}
<1>2. Marks!TextIndex(M) = {Node(x) : x \in Free}
  BY NodesAre
<1>3. \A x \in Free : x \in Node(x) /\ Node(x) \subseteq Free
  BY <1>1
<1> HIDE DEF Free, Node
<1>4. UNION {Node(x) : x \in Free} = Free
  BY <1>3
<1> QED BY <1>2, <1>4 DEF Free

\* No letter is in two text nodes.
LEMMA NodesApart ==
  ASSUME article \in Articles, NEW M, NEW A \in Marks!TextIndex(M),
         NEW B \in Marks!TextIndex(M), NEW x \in A, x \in B
  PROVE  A = B
<1> DEFINE Free == Marks!Letters \ M
<1>1. PICK a \in Free : A = {y \in Free : Linked(a, y, M)}
  BY NodesAre
<1>2. PICK b \in Free : B = {y \in Free : Linked(b, y, M)}
  BY NodesAre
<1>3. x \in Free /\ Linked(a, x, M) /\ Linked(b, x, M)
  BY <1>1, <1>2
<1> HIDE DEF Free
<1>4. \A y \in Free : y \in Marks!Letters
  BY DEF Free
<1>5. Linked(x, a, M) /\ Linked(x, b, M)
  BY <1>3, LinkedBack
<1>6. Linked(a, b, M) /\ Linked(b, a, M)
  BY <1>1, <1>2, <1>3, <1>4, <1>5, LinkedOn
<1>7. \A y \in Free : Linked(a, y, M) <=> Linked(b, y, M)
  BY <1>1, <1>2, <1>4, <1>6, LinkedOn
<1> QED BY <1>1, <1>2, <1>7

---------------------------------------------------------------------------
(* Drawing marks one after the other.                                      *)

\* What is left of a node once the first of some marks are drawn.
Left(node, drawing, i) ==
  {x \in node : \A j \in 1 .. i - 1 : \A y \in drawing[j] : y \in node => x < y}

\* The letters of one of the quotes.
Passage(index, passages, i) == Marks!FindAnchor(index, passages[i].anchor)

\* The nodes left when each of n marks is drawn.
IsBefore(f, n, nodes, index, passages) ==
  f = [i \in 1 .. n |-> IF i = 1 THEN nodes
                        ELSE Marks!MarkRange(f[i - 1], Passage(index, passages, i - 1))]

\* The recursive function of Draw is there.
LEMMA BeforeThere ==
  ASSUME NEW nodes, NEW index, NEW passages
  PROVE  \A n \in Nat :
           \E f : IsBefore(f, n, nodes, index, passages)
<1> DEFINE Step(f, i) == IF i = 1 THEN nodes ELSE Marks!MarkRange(f[i - 1], Passage(index, passages, i - 1))
           Eq(f, n) == f = [i \in 1 .. n |-> Step(f, i)]
           N == {n \in Nat : \E f : Eq(f, n)}
<1>1. 0 \in N
  <2> DEFINE f == [i \in 1 .. 0 |-> 0]
  <2>1. Eq(f, 0)
    OBVIOUS
  <2> HIDE DEF f, Eq
  <2> QED BY <2>1
<1>2. ASSUME NEW n \in Nat, n \in N PROVE n + 1 \in N
  <2>2. PICK f : Eq(f, n)
    <3> HIDE DEF Eq
    <3> QED BY <1>2
  <2> DEFINE g == [i \in 1 .. n + 1 |-> Step(f, i)]
  <2>3. ASSUME NEW i \in 1 .. n PROVE g[i] = f[i]
    <3> HIDE DEF Step
    <3>1. f[i] = Step(f, i)
      BY <2>2
    <3> QED BY <3>1
  <2>4. ASSUME NEW i \in 1 .. n + 1 PROVE Step(g, i) = Step(f, i)
    <3>1. i # 1 => i - 1 \in 1 .. n
      OBVIOUS
    <3>2. i # 1 => g[i - 1] = f[i - 1]
      <4> HIDE DEF g
      <4> QED BY <2>3, <3>1
    <3> HIDE DEF g
    <3> QED BY <3>2
  <2>5. Eq(g, n + 1)
    <3> HIDE DEF g, Step
    <3>1. [i \in 1 .. n + 1 |-> Step(g, i)] = [i \in 1 .. n + 1 |-> Step(f, i)]
      BY <2>4
    <3> QED BY <3>1 DEF g
  <2> HIDE DEF g, Eq
  <2> QED BY <2>5
<1> HIDE DEF N
<1>3. \A n \in Nat : n \in N
  BY <1>1, <1>2, NatInd, Zenon
<1> QED BY <1>3, Zenon DEF N, IsBefore


\* What is left of the nodes.
Remains(N, drawing, i) == {Left(node, drawing, i) : node \in N}

\* No letter is in two of the nodes.
NodesOwn(N) == \A A, B \in N : \A x : x \in A /\ x \in B => A = B

\* Drawing one more mark takes the letters at and after it out of their node.
LEMMA LeftNext ==
  ASSUME NEW N, NodesOwn(N), NEW d, NEW S, NEW i \in Nat \ {0},
         d[i] = S \cap UNION Remains(N, d, i)
  PROVE  Marks!MarkRange(Remains(N, d, i), S) = Remains(N, d, i + 1)
<1> DEFINE Cut(A) == {x \in A : \A y \in A \cap S : x < y}
<1>1. ASSUME NEW node \in N PROVE Cut(Left(node, d, i)) = Left(node, d, i + 1)
  <2>1. \A y : y \in d[i] /\ y \in node <=> y \in Left(node, d, i) \cap S
    <3>1. \A nd \in N : Left(nd, d, i) \subseteq nd
      BY Zenon DEF Left
    <3>2. ASSUME NEW y \in d[i], y \in node PROVE y \in Left(node, d, i) \cap S
      <4>1. PICK nd \in N : y \in Left(nd, d, i)
        BY <3>2 DEF Remains
      <4>2. nd = node
        BY <3>1, <3>2, <4>1 DEF NodesOwn
      <4> QED BY <4>1, <4>2
    <3>3. \A y \in Left(node, d, i) \cap S : y \in d[i] /\ y \in node
      BY <3>1 DEF Remains
    <3> QED BY <3>2, <3>3, Zenon
  <2>2. \A j : j \in 1 .. (i + 1) - 1 <=> j \in 1 .. i - 1 \/ j = i
    OBVIOUS
  <2>3. \A x : x \in Left(node, d, i + 1) <=>
                 /\ x \in Left(node, d, i)
                 /\ \A y \in d[i] : y \in node => x < y
    BY <2>2, Zenon DEF Left
  <2>4. \A x : x \in Cut(Left(node, d, i)) <=>
                 /\ x \in Left(node, d, i)
                 /\ \A y \in Left(node, d, i) \cap S : x < y
    BY Zenon
  <2> HIDE DEF Cut
  <2>5. \A x : x \in Cut(Left(node, d, i)) <=> x \in Left(node, d, i + 1)
    BY <2>1, <2>3, <2>4, Zenon
  <2> QED BY <2>5
<1>2. Marks!MarkRange(Remains(N, d, i), S) = {Cut(Left(node, d, i)) : node \in N}
  BY DEF Remains, Marks!MarkRange
<1> HIDE DEF Cut
<1> QED BY <1>1, <1>2 DEF Remains

IsDrawn(d, n, b, index, passages) ==
  \A i \in 1 .. n : d[i] = Passage(index, passages, i) \cap UNION b[i]

\* What the marks so far leave for the next: of every node, what is before the
\* letters marked in it.
LEMMA LeftAll ==
  ASSUME NEW N, NodesOwn(N), NEW n \in Nat, NEW b, NEW index, NEW passages, NEW d,
         IsBefore(b, n, N, index, passages),
         IsDrawn(d, n, b, index, passages)
  PROVE  \A i \in 1 .. n : b[i] = Remains(N, d, i)
<1>d. \A i \in 1 .. n : d[i] = Passage(index, passages, i) \cap UNION b[i]
  BY Zenon DEF IsDrawn
<1> DEFINE P == {i \in Nat : i + 1 <= n => b[i + 1] = Remains(N, d, i + 1)}
<1>0. \A i \in 1 .. n : b[i] = IF i = 1 THEN N ELSE Marks!MarkRange(b[i - 1], Passage(index, passages, i - 1))
  BY Zenon DEF IsBefore
<1>1. 0 \in P
  <2>1. \A node : Left(node, d, 1) = node
    <3>1. 1 .. 1 - 1 = {}
      OBVIOUS
    <3> QED BY <3>1 DEF Left
  <2>2. Remains(N, d, 1) = N
    BY <2>1 DEF Remains
  <2>3. 1 <= n => b[1] = N
    BY <1>0
  <2>4. 0 + 1 = 1 /\ 0 \in Nat
    OBVIOUS
  <2> QED BY <2>2, <2>3, <2>4
<1>2. ASSUME NEW k \in Nat, k \in P PROVE k + 1 \in P
  <2> SUFFICES ASSUME (k + 1) + 1 <= n
               PROVE  b[(k + 1) + 1] = Remains(N, d, (k + 1) + 1)
    OBVIOUS
  <2> DEFINE i == k + 1
  <2>1. i \in Nat \ {0} /\ i \in 1 .. n /\ i + 1 \in 1 .. n /\ i + 1 # 1 /\ (i + 1) - 1 = i
    OBVIOUS
  <2>2. b[i] = Remains(N, d, i)
    BY <1>2, <2>1
  <2> HIDE DEF i
  <2>3. b[i + 1] = Marks!MarkRange(b[i], Passage(index, passages, i))
    BY <1>0, <2>1
  <2>4. d[i] = Passage(index, passages, i) \cap UNION Remains(N, d, i)
    BY <1>d, <2>1, <2>2
  <2>5. Marks!MarkRange(Remains(N, d, i), Passage(index, passages, i)) = Remains(N, d, i + 1)
    <3> DEFINE S == Passage(index, passages, i)
    <3>1. d[i] = S \cap UNION Remains(N, d, i)
      BY <2>4
    <3> HIDE DEF S
    <3>2. Marks!MarkRange(Remains(N, d, i), S) = Remains(N, d, i + 1)
      BY <2>1, <3>1, LeftNext
    <3> QED BY <3>2 DEF S
  <2>6. b[i + 1] = Remains(N, d, i + 1)
    BY <2>2, <2>3, <2>5, Zenon
  <2> QED BY <2>6 DEF i
<1> HIDE DEF P
<1>3. \A i \in Nat : i \in P
  BY <1>1, <1>2, NatInd, Zenon
<1>4. ASSUME NEW i \in 1 .. n PROVE b[i] = Remains(N, d, i)
  <2> DEFINE k == i - 1
  <2>1. k \in Nat /\ k + 1 = i /\ i <= n
    OBVIOUS
  <2> HIDE DEF k
  <2>2. k \in P
    BY <1>3, <2>1
  <2> QED BY <2>1, <2>2 DEF P
<1> QED BY <1>4

\* The letters of a quote that are before every letter of their node that is marked.
Unmarked(N, S, d, i) ==
  {x \in S : \A j \in 1 .. i - 1 : \A y \in d[j] :
               (\E node \in N : {x, y} \subseteq node) => x < y}

\* The mark of a quote is what is left of it in the nodes.
LEMMA MarkIs ==
  ASSUME NEW N, NodesOwn(N), NEW S, S \subseteq UNION N, NEW d, NEW i
  PROVE  S \cap UNION Remains(N, d, i) = Unmarked(N, S, d, i)
<1>1. ASSUME NEW x \in S, NEW node \in N, x \in Left(node, d, i),
             NEW j \in 1 .. i - 1, NEW y \in d[j], NEW nd \in N, {x, y} \subseteq nd
      PROVE  x < y
  <2>1. x \in node
    BY <1>1 DEF Left
  <2>2. nd = node
    BY <1>1, <2>1 DEF NodesOwn
  <2> QED BY <1>1, <2>2, Zenon DEF Left
<1>2. ASSUME NEW x \in S,
             \A j \in 1 .. i - 1 : \A y \in d[j] : (\E node \in N : {x, y} \subseteq node) => x < y
      PROVE  \E node \in N : x \in Left(node, d, i)
  <2>1. PICK node \in N : x \in node
    OBVIOUS
  <2>2. \A y : y \in node => {x, y} \subseteq node
    BY <2>1
  <2>3. x \in Left(node, d, i)
    BY <1>2, <2>1, <2>2, Zenon DEF Left
  <2> QED BY <2>3
<1>3. \A x : x \in S \cap UNION Remains(N, d, i) <=>
               x \in S /\ \E node \in N : x \in Left(node, d, i)
  BY Zenon DEF Remains
<1> DEFINE T == {x \in S : \A j \in 1 .. i - 1 : \A y \in d[j] :
                          (\E node \in N : {x, y} \subseteq node) => x < y}
           R == S \cap UNION Remains(N, d, i)
<1>4. ASSUME NEW x \in R PROVE x \in T
  <2>1. x \in S /\ \E node \in N : x \in Left(node, d, i)
    BY <1>3, <1>4, Zenon
  <2>2. PICK node \in N : x \in Left(node, d, i)
    BY <2>1
  <2>3. ASSUME NEW j \in 1 .. i - 1, NEW y \in d[j], NEW nd \in N, {x, y} \subseteq nd PROVE x < y
    BY <1>1, <2>1, <2>2, <2>3
  <2> QED BY <2>1, <2>3, Zenon
<1>5. ASSUME NEW x \in T PROVE x \in R
  BY <1>2, <1>3, <1>5, Zenon
<1> HIDE DEF R, T
<1>6. R = T
  BY <1>4, <1>5
<1> QED BY <1>6 DEF R, T, Unmarked


---------------------------------------------------------------------------
(* The index of the letters outside the marks.                             *)

Rank(T, x) == Cardinality({y \in T : y <= x})

\* The index counts the letters of the nodes in the order of the text.
LEMMA IndexIs ==
  ASSUME article \in Articles, NEW nodes, UNION nodes \subseteq Marks!Letters
  PROVE  LET T == UNION nodes
             index == Marks!Index(nodes)
         IN  /\ Cardinality(T) \in Nat
             /\ DOMAIN index = 1 .. Cardinality(T)
             /\ \A o \in 1 .. Cardinality(T) : index[o] \in T /\ Rank(T, index[o]) = o
             /\ \A x, y \in T : Rank(T, x) = Rank(T, y) => x = y
             /\ \A x \in T : Rank(T, x) \in 1 .. Cardinality(T)
<1> DEFINE T == UNION nodes
           n == Len(article.text)
           C == Cardinality(T)
<1>1. n \in Nat /\ T \in SUBSET (1 .. n)
  BY LettersOf, ArticleText
<1> DEFINE Theirs(x) == Marks!Cardinality({y \in T : y <= x})
           Whole == Marks!Cardinality(T)
<1>2. Marks!Index(nodes) = [o \in 1 .. Whole |-> CHOOSE x \in T : Theirs(x) = o]
  BY Zenon DEF Marks!Index
<1>a. Whole = C /\ \A x : Theirs(x) = Rank(T, x)
  BY MarksLibrary, Zenon DEF Rank
<1> HIDE DEF T, n, Theirs, Whole
<1>3. /\ C \in Nat
      /\ \A x \in T : Rank(T, x) \in 1 .. C
      /\ \A x, y \in T : x # y => Rank(T, x) # Rank(T, y)
      /\ \A o \in 1 .. C : \E x \in T : Rank(T, x) = o
  BY <1>1, Ranked DEF Rank
<1> HIDE DEF C
<1>4. ASSUME NEW o \in 1 .. C
      PROVE  Marks!Index(nodes)[o] \in T /\ Rank(T, Marks!Index(nodes)[o]) = o
  <2>1. \E x \in T : Theirs(x) = o
    BY <1>3, <1>a, Zenon
  <2> DEFINE c == CHOOSE x \in T : Theirs(x) = o
  <2>2. c \in T /\ Theirs(c) = o
    BY <2>1, Zenon
  <2>3. Marks!Index(nodes)[o] = c
    BY <1>2, <1>a, Zenon
  <2> QED BY <1>a, <2>2, <2>3, Zenon
<1>5. DOMAIN Marks!Index(nodes) = 1 .. C
  BY <1>2, <1>a
<1> QED BY <1>3, <1>4, <1>5, Zenon DEF T, C

\* The letters at the head of the article that no mark is before are at their
\* own places.
LEMMA IndexHead ==
  ASSUME article \in Articles, NEW nodes, UNION nodes \subseteq Marks!Letters,
         NEW b \in Nat, 1 .. b \subseteq UNION nodes
  PROVE  b <= Cardinality(UNION nodes) /\ \A o \in 1 .. b : Marks!Index(nodes)[o] = o
<1> DEFINE T == UNION nodes
           C == Cardinality(T)
           index == Marks!Index(nodes)
<1>1. /\ C \in Nat
      /\ \A o \in 1 .. C : index[o] \in T /\ Rank(T, index[o]) = o
      /\ \A x, y \in T : Rank(T, x) = Rank(T, y) => x = y
      /\ \A x \in T : Rank(T, x) \in 1 .. C
  BY IndexIs, Zenon
<1>2. T \subseteq Int /\ \A x \in T : x >= 1
  BY LettersOf, ArticleText
<1> HIDE DEF C, index, T
<1>3. ASSUME NEW o \in 1 .. b PROVE Rank(T, o) = o /\ o \in T /\ o \in 1 .. C /\ index[o] = o
  <2>1. {y \in T : y <= o} = 1 .. o
    <3>1. \A y \in 1 .. o : y \in T /\ y <= o
      BY DEF T
    <3>2. \A y \in T : y <= o => y \in 1 .. o
      BY <1>2
    <3> QED BY <3>1, <3>2
  <2>2. Rank(T, o) = o
    <3>1. o \in Nat
      OBVIOUS
    <3>2. Cardinality(1 .. o) = o
      BY <3>1, CountTo
    <3> QED BY <2>1, <3>2, Zenon DEF Rank
  <2>3. o \in T
    BY DEF T
  <2>4. o \in 1 .. C
    BY <1>1, <2>2, <2>3
  <2>5. index[o] \in T /\ Rank(T, index[o]) = o
    BY <1>1, <2>4
  <2>6. index[o] = o
    BY <1>1, <2>2, <2>3, <2>5
  <2> QED BY <2>2, <2>3, <2>4, <2>6
<1>4. b <= C
  <2>1. CASE b = 0
    BY <1>1, <2>1
  <2>2. CASE b # 0
    <3>1. b \in 1 .. b
      BY <2>2
    <3> QED BY <1>1, <1>3, <3>1
  <2> QED BY <2>1, <2>2
<1> QED BY <1>3, <1>4 DEF C, index, T

\* The text outside the marks.
LEMMA TextOfIndex ==
  ASSUME article \in Articles, NEW nodes, UNION nodes \subseteq Marks!Letters
  PROVE  LET wholly == Marks!TextOf(Marks!Index(nodes))
         IN  /\ wholly \in Seq(Chars) /\ Len(wholly) = Cardinality(UNION nodes)
             /\ \A o \in 1 .. Len(wholly) : wholly[o] = article.text[Marks!Index(nodes)[o]]
<1> DEFINE C == Cardinality(UNION nodes)
           index == Marks!Index(nodes)
           wholly == Marks!TextOf(index)
<1>1. C \in Nat /\ DOMAIN index = 1 .. C /\ \A o \in 1 .. C : index[o] \in UNION nodes
  BY IndexIs, Zenon
<1> HIDE DEF C, index
<1>2. wholly = [o \in 1 .. C |-> article.text[index[o]]]
  BY <1>1 DEF Marks!TextOf
<1>3. \A o \in 1 .. C : article.text[index[o]] \in Chars
  <2>1. \A x \in Marks!Letters : article.text[x] \in Chars
    BY DEF Marks!Letters, Chars
  <2> QED BY <1>1, <2>1
<1> HIDE DEF wholly
<1>4. wholly \in Seq(Chars) /\ Len(wholly) = C
  BY <1>1, <1>2, <1>3
<1>5. \A o \in 1 .. C : wholly[o] = article.text[index[o]]
  BY <1>2
<1> QED BY <1>4, <1>5 DEF C, index, wholly

\* With no marks the index is the article.
LEMMA WholeText ==
  ASSUME article \in Articles
  PROVE  /\ Marks!TextOf(Marks!Index(Marks!TextIndex({}))) = article.text
         /\ \A o \in 1 .. Len(article.text) : Marks!Index(Marks!TextIndex({}))[o] = o
<1> DEFINE nodes == Marks!TextIndex({})
           n == Len(article.text)
           wholly == Marks!TextOf(Marks!Index(nodes))
<1>1. UNION nodes = 1 .. n /\ Marks!Letters = 1 .. n /\ n \in Nat
  BY NodesCover, LettersOf, ArticleText
<1>2. Cardinality(UNION nodes) = n
  BY <1>1, CountTo
<1>3. \A o \in 1 .. n : Marks!Index(nodes)[o] = o
  BY <1>1, IndexHead, Zenon
<1>4. /\ wholly \in Seq(Chars) /\ Len(wholly) = n
      /\ \A o \in 1 .. Len(wholly) : wholly[o] = article.text[Marks!Index(nodes)[o]]
  BY <1>1, <1>2, TextOfIndex, Zenon
<1> HIDE DEF wholly
<1>5. \A o \in 1 .. n : wholly[o] = article.text[o]
  BY <1>3, <1>4
<1>6. article.text \in Seq(Chars)
  BY ArticleText
<1>7. wholly = article.text
  BY <1>4, <1>5, <1>6, SeqEqual
<1> QED BY <1>3, <1>7 DEF wholly, n


\* A mark is drawn where its passage meets what the marks before it left.
LEMMA DrawIs ==
  ASSUME NEW nodes, NodesOwn(nodes), NEW passages, Len(passages) \in Nat
  PROVE  LET d == Marks!Draw(nodes, passages)
             index == Marks!Index(nodes)
         IN  /\ DOMAIN d = 1 .. Len(passages)
             /\ \A i \in 1 .. Len(passages) :
                  d[i] = Passage(index, passages, i) \cap UNION Remains(nodes, d, i)
<1> DEFINE n == Len(passages)
           index == Marks!Index(nodes)
           Eq(f) == IsBefore(f, n, nodes, index, passages)
           b == CHOOSE f : Eq(f)
           d == Marks!Draw(nodes, passages)
<1>1. Eq(b)
  <2>1. \E f : Eq(f)
    BY BeforeThere, Zenon
  <2> QED BY <2>1, Zenon
<1>2. d = [i \in 1 .. n |-> Passage(index, passages, i) \cap UNION b[i]]
  BY Zenon DEF Marks!Draw, Passage, IsBefore
<1> HIDE DEF d, b, index
<1>3. DOMAIN d = 1 .. n /\ \A i \in 1 .. n : d[i] = Passage(index, passages, i) \cap UNION b[i]
  BY <1>2
<1>4. \A i \in 1 .. n : b[i] = Remains(nodes, d, i)
  <2>1. IsDrawn(d, n, b, index, passages)
    BY <1>3 DEF IsDrawn
  <2>2. n \in Nat
    OBVIOUS
  <2> HIDE DEF n, Eq
  <2>3. IsBefore(b, n, nodes, index, passages)
    BY <1>1 DEF Eq
  <2> QED BY <2>1, <2>2, <2>3, LeftAll
<1> QED BY <1>3, <1>4 DEF d, index

---------------------------------------------------------------------------
(* Finding a quote again.                                                  *)

Anchored(a) == a.exact \in Seq(Chars) /\ a.prefix \in Seq(Chars) /\ a.suffix \in Seq(Chars)

\* A score counts letters of the context that agree.
LEMMA ScoreIs ==
  ASSUME NEW words, NEW a, Anchored(a), NEW w
  PROVE  Marks!Score(words, a, w) \in 0 .. Len(a.prefix) + Len(a.suffix)
<1>1. Len(a.prefix) \in Nat /\ Len(a.suffix) \in Nat
  BY LenProperties DEF Anchored
<1> DEFINE before == Len(a.prefix) <= w /\ Marks!Stands(a.prefix, words, w - Len(a.prefix))
           after == Marks!Stands(a.suffix, words, w + Len(a.exact))
<1>2. Marks!Score(words, a, w)
        = (IF before THEN Len(a.prefix) ELSE 0) + (IF after THEN Len(a.suffix) ELSE 0)
  BY Zenon DEF Marks!Score
<1> DEFINE x == Len(a.prefix)
           y == Len(a.suffix)
<1> HIDE DEF before, after, x, y
<1>3. x \in Nat /\ y \in Nat
  BY <1>1 DEF x, y
<1>4. Marks!Score(words, a, w) = (IF before THEN x ELSE 0) + (IF after THEN y ELSE 0)
  BY <1>2 DEF x, y
<1>5. Marks!Score(words, a, w) \in 0 .. x + y
  BY <1>3, <1>4
<1> QED BY <1>5 DEF x, y

\* The places where a quote's context fits best.
Best(words, a) ==
  LET ps == Marks!Positions(a.exact, words)
  IN  {w \in ps : \A r \in ps : Marks!Score(words, a, r) <= Marks!Score(words, a, w)}

\* The least of a set is in it and below the others.
LEMMA LeastIs ==
  ASSUME NEW S \in SUBSET Nat, S # {}
  PROVE  Marks!Least(S) \in S /\ \A r \in S : Marks!Least(S) <= r
<1>1. \E w \in S : \A r \in S : w <= r
  BY LeastOf
<1> QED BY <1>1, Zenon DEF Marks!Least

\* Of the places where a passage stands, some score best, and the first of
\* these is taken.
LEMMA BestIs ==
  ASSUME NEW words \in Seq(Chars), NEW a, Anchored(a), Marks!Positions(a.exact, words) # {}
  PROVE  /\ Best(words, a) # {} /\ Best(words, a) \subseteq Nat
         /\ Marks!Least(Best(words, a)) \in Best(words, a)
         /\ \A r \in Best(words, a) : Marks!Least(Best(words, a)) <= r
<1> DEFINE ps == Marks!Positions(a.exact, words)
           N == Len(a.prefix) + Len(a.suffix)
           Value(w) == Marks!Score(words, a, w)
           D == {Value(w) : w \in ps}
<1>1. N \in Nat
  <2> DEFINE x == Len(a.prefix)
             y == Len(a.suffix)
  <2>1. x \in Nat /\ y \in Nat
    BY LenProperties DEF Anchored
  <2> HIDE DEF x, y
  <2>2. x + y \in Nat
    BY <2>1
  <2> QED BY <2>2 DEF x, y
<1>2. \A w \in ps : Value(w) \in 0 .. N
  BY ScoreIs
<1>3. ps \subseteq Nat /\ ps # {}
  BY LenProperties DEF Marks!Positions
<1>4. Best(words, a) = {w \in ps : \A r \in ps : Value(r) <= Value(w)}
  BY Zenon DEF Best
<1> HIDE DEF ps, N, Value
<1>5. D \in SUBSET (0 .. N) /\ D # {}
  BY <1>2, <1>3
<1>6. Max(D) \in D /\ \A v \in D : v <= Max(D)
  <2> HIDE DEF D
  <2> QED BY <1>1, <1>5, MaxOf
<1>7. PICK w \in ps : Value(w) = Max(D)
  BY <1>6
<1>8. \A r \in ps : Value(r) <= Value(w)
  BY <1>6, <1>7
<1>9. Best(words, a) # {} /\ Best(words, a) \in SUBSET Nat
  BY <1>3, <1>4, <1>8
<1> QED BY <1>9, LeastIs

\* In the whole article a quote is found letter by letter.
LEMMA FoundIs ==
  ASSUME article \in Articles, NEW m, Anchored(m.anchor)
  PROVE  LET ps == Marks!Positions(m.anchor.exact, article.text)
             w == Marks!Least(Best(article.text, m.anchor))
         IN  /\ ps = {} => Marks!Found(m) = {}
             /\ ps # {} => /\ Marks!Found(m) = w + 1 .. w + Len(m.anchor.exact)
                           /\ w \in Best(article.text, m.anchor)
             /\ Marks!Found(m) \subseteq Marks!Letters
<1> DEFINE a == m.anchor
           words == article.text
           ps == Marks!Positions(a.exact, words)
           w == Marks!Least(Best(words, a))
           index == Marks!Index(Marks!TextIndex({}))
           k == Len(a.exact)
<1>1. Marks!TextOf(index) = words /\ \A o \in 1 .. Len(words) : index[o] = o
  BY WholeText, Zenon
<1>2. Marks!Found(m) = IF ps = {} THEN {} ELSE {index[o] : o \in w + 1 .. w + k}
  BY <1>1, Zenon DEF Marks!Found, Marks!FindAnchor, Best
<1>3. words \in Seq(Chars) /\ Marks!Letters = 1 .. Len(words) /\ Len(words) \in Nat /\ k \in Nat
  BY ArticleText, LettersOf, LenProperties DEF Anchored
<1>4. ASSUME ps # {}
      PROVE  /\ w \in Best(words, a) /\ w \in Nat /\ w + k <= Len(words)
             /\ {index[o] : o \in w + 1 .. w + k} = w + 1 .. w + k
             /\ w + 1 .. w + k \subseteq 1 .. Len(words)
  <2>1. w \in Best(words, a) /\ Best(words, a) \subseteq Nat
    BY <1>3, <1>4, BestIs, Zenon
  <2>2. w \in ps
    BY <2>1 DEF Best
  <2> HIDE DEF w, index
  <2>3. w \in Nat /\ w + k <= Len(words)
    BY <2>1, <2>2, Zenon DEF Marks!Positions, Marks!Stands
  <2>4. \A o \in w + 1 .. w + k : o \in 1 .. Len(words) /\ index[o] = o
    BY <1>1, <1>3, <2>3
  <2> HIDE DEF k, words
  <2> QED BY <2>1, <2>3, <2>4
<1> HIDE DEF w, index, k, words, ps
<1>5. CASE ps = {}
  BY <1>2, <1>5 DEF w, index, k, words, ps
<1>6. CASE ps # {}
  BY <1>2, <1>3, <1>4, <1>6 DEF w, index, k, words, ps
<1> QED BY <1>5, <1>6


\* The marks of a page that starts anew.
LEMMA MarksDrawn ==
  ASSUME article \in Articles, NEW passages, Len(passages) \in Nat,
         \A i \in 1 .. Len(passages) : Anchored(passages[i].anchor)
  PROVE  LET d == Marks!Draw(Marks!TextIndex({}), passages)
         IN  /\ DOMAIN d = 1 .. Len(passages)
             /\ \A i \in 1 .. Len(passages) :
                  d[i] = {x \in Marks!Found(passages[i]) :
                            \A j \in 1 .. i - 1 : \A y \in d[j] : Marks!SameNode(x, y) => x < y}
<1> DEFINE nodes == Marks!TextIndex({})
           index == Marks!Index(nodes)
           n == Len(passages)
           d == Marks!Draw(nodes, passages)
<1>1. NodesOwn(nodes) /\ UNION nodes = Marks!Letters
  <2>1. UNION nodes = Marks!Letters \ {}
    BY NodesCover, Zenon
  <2>2. \A A, B \in nodes : \A x : x \in A /\ x \in B => A = B
    BY NodesApart, Zenon
  <2> HIDE DEF nodes
  <2> QED BY <2>1, <2>2 DEF NodesOwn
<1>2. \A x, y : Marks!SameNode(x, y) <=> \E node \in nodes : {x, y} \subseteq node
  BY Zenon DEF Marks!SameNode
<1>3. \A i : Passage(index, passages, i) = Marks!Found(passages[i])
  BY Zenon DEF Passage, Marks!Found
<1>4. \A i \in 1 .. n : Marks!Found(passages[i]) \subseteq UNION nodes
  BY <1>1, FoundIs, Zenon
<1>5. /\ DOMAIN d = 1 .. n
      /\ \A i \in 1 .. n : d[i] = Passage(index, passages, i) \cap UNION Remains(nodes, d, i)
  BY <1>1, DrawIs, Zenon
<1> HIDE DEF nodes, index, n, d
<1>6. ASSUME NEW i \in 1 .. n
      PROVE  d[i] = {x \in Marks!Found(passages[i]) :
                       \A j \in 1 .. i - 1 : \A y \in d[j] : Marks!SameNode(x, y) => x < y}
  <2> DEFINE S == Marks!Found(passages[i])
             T == {x \in S : \A j \in 1 .. i - 1 : \A y \in d[j] :
                               (\E node \in nodes : {x, y} \subseteq node) => x < y}
  <2>1. d[i] = S \cap UNION Remains(nodes, d, i) /\ S \subseteq UNION nodes
    BY <1>3, <1>4, <1>5
  <2>2. S \cap UNION Remains(nodes, d, i) = T
    <3> HIDE DEF S
    <3>1. S \cap UNION Remains(nodes, d, i) = Unmarked(nodes, S, d, i)
      BY <1>1, <2>1, MarkIs
    <3> QED BY <3>1, Zenon DEF Unmarked
  <2>3. T = {x \in S : \A j \in 1 .. i - 1 : \A y \in d[j] : Marks!SameNode(x, y) => x < y}
    <3> HIDE DEF S
    <3> QED BY <1>2
  <2> HIDE DEF T
  <2> QED BY <2>1, <2>2, <2>3
<1> QED BY <1>5, <1>6 DEF nodes, n, d

---------------------------------------------------------------------------
(* Texts that agree.                                                       *)

\* What a part of a text is.
LEMMA SubIs ==
  ASSUME NEW words \in Seq(Chars), NEW i \in Nat \ {0}, NEW j \in Nat, j <= Len(words), i <= j + 1
  PROVE  /\ SubSeq(words, i, j) \in Seq(Chars)
         /\ Len(SubSeq(words, i, j)) = (j + 1) - i
         /\ \A o \in 1 .. (j + 1) - i : SubSeq(words, i, j)[o] = words[(i - 1) + o]
<1> DEFINE a == i - 1
<1>1. a \in Nat /\ a + 1 = i /\ a <= j /\ j - a = (j + 1) - i
  OBVIOUS
<1> HIDE DEF a
<1>2. /\ SubSeq(words, a + 1, j) \in Seq(Chars) /\ Len(SubSeq(words, a + 1, j)) = j - a
      /\ \A o \in 1 .. j - a : SubSeq(words, a + 1, j)[o] = words[a + o]
  BY <1>1, CutAt
<1> DEFINE u == SubSeq(words, a + 1, j)
<1>3. SubSeq(words, i, j) = u
  BY <1>1
<1> HIDE DEF u
<1>4. u \in Seq(Chars) /\ Len(u) = j - a /\ \A o \in 1 .. j - a : u[o] = words[a + o]
  BY <1>2 DEF u
<1> QED BY <1>1, <1>3, <1>4 DEF a

Agree(words, others, b) ==
  b <= Len(words) /\ b <= Len(others) /\ \A o \in 1 .. b : words[o] = others[o]

SameParts(words, others, b) ==
  \A i, j \in Nat : (i # 0 /\ j <= b /\ i <= j + 1) => SubSeq(words, i, j) = SubSeq(others, i, j)

\* Texts that agree up to a place have the same parts up to it.
LEMMA SubSame ==
  ASSUME NEW words \in Seq(Chars), NEW others \in Seq(Chars), NEW b \in Nat,
         Agree(words, others, b)
  PROVE  SameParts(words, others, b)
<1> SUFFICES ASSUME NEW i \in Nat, NEW j \in Nat, i # 0, j <= b, i <= j + 1
             PROVE  SubSeq(words, i, j) = SubSeq(others, i, j)
  BY Zenon DEF SameParts
<1> DEFINE u == SubSeq(words, i, j)
           v == SubSeq(others, i, j)
           k == (j + 1) - i
<1>1. Len(words) \in Nat /\ Len(others) \in Nat /\ j <= Len(words) /\ j <= Len(others)
  BY LenProperties DEF Agree
<1>2. u \in Seq(Chars) /\ Len(u) = k /\ \A o \in 1 .. k : u[o] = words[(i - 1) + o]
  BY <1>1, SubIs
<1>3. v \in Seq(Chars) /\ Len(v) = k /\ \A o \in 1 .. k : v[o] = others[(i - 1) + o]
  BY <1>1, SubIs
<1>4. \A o \in 1 .. k : (i - 1) + o \in 1 .. b
  OBVIOUS
<1> HIDE DEF u, v, k
<1>5. \A o \in 1 .. k : u[o] = v[o]
  BY <1>2, <1>3, <1>4 DEF Agree
<1>6. u = v
  BY <1>2, <1>3, <1>5, SeqEqual
<1> QED BY <1>6 DEF u, v

\* A passage stands in both of two texts that agree as far as it reaches, or in
\* neither.
LEMMA StandsSame ==
  ASSUME NEW words \in Seq(Chars), NEW others \in Seq(Chars), NEW b \in Nat,
         Agree(words, others, b), NEW exact \in Seq(Chars), NEW w \in Nat, w + Len(exact) <= b
  PROVE  Marks!Stands(exact, words, w) <=> Marks!Stands(exact, others, w)
<1> DEFINE j == w + Len(exact)
           i == w + 1
<1>1. j \in Nat /\ i \in Nat \ {0} /\ i <= j + 1 /\ j <= b
  BY LenProperties
<1>2. j <= Len(words) /\ j <= Len(others)
  BY <1>1, LenProperties DEF Agree
<1>3. (Marks!Stands(exact, words, w) <=> j <= Len(words) /\ SubSeq(words, i, j) = exact)
      /\ (Marks!Stands(exact, others, w) <=> j <= Len(others) /\ SubSeq(others, i, j) = exact)
  BY Zenon DEF Marks!Stands
<1> HIDE DEF i, j
<1>4. SubSeq(words, i, j) = SubSeq(others, i, j)
  <2>1. SameParts(words, others, b)
    BY SubSame
  <2> QED BY <1>1, <2>1 DEF SameParts
<1> QED BY <1>2, <1>3, <1>4


---------------------------------------------------------------------------
(* What a mark remembers.                                                  *)

\* The context of a passage in a text.
From(w) == IF w < CTX THEN 0 ELSE w - CTX
UpTo(words, last_) == IF last_ + CTX < Len(words) THEN last_ + CTX ELSE Len(words)
Before(words, first) == SubSeq(words, From(first - 1) + 1, first - 1)
After(words, last_) == SubSeq(words, last_ + 1, UpTo(words, last_))

IsPassage(m, first, end) ==
  /\ first <= end /\ m.span = first .. end
  /\ m.anchor.exact = SubSeq(m.article.text, first, end)
  /\ (m.clear /\ Marks!Least(Marks!Positions(m.anchor.exact, m.article.text)) = first - 1) =>
       /\ m.anchor.prefix = Before(m.article.text, first)
       /\ m.anchor.suffix = After(m.article.text, end)

\* A passage of one version of the article; where it stands first and no mark is
\* near, what is stored around it is what that version has around it.
GoodMark(m) ==
  /\ m.article \in Articles /\ Anchored(m.anchor)
  /\ \E first, end \in 1 .. Len(m.article.text) : IsPassage(m, first, end)

\* A selected passage stands where it was selected.
LEMMA PassageStands ==
  ASSUME NEW words \in Seq(Chars), NEW first \in 1 .. Len(words), NEW end \in 1 .. Len(words),
         first <= end
  PROVE  LET exact == SubSeq(words, first, end)
         IN  /\ exact \in Seq(Chars) /\ Len(exact) = (end + 1) - first
             /\ first - 1 \in Marks!Positions(exact, words)
<1> DEFINE exact == SubSeq(words, first, end)
           w == first - 1
           k == Len(exact)
<1>1. Len(words) \in Nat /\ first \in Nat \ {0} /\ end \in Nat /\ end <= Len(words) /\ first <= end + 1
  BY LenProperties
<1>2. exact \in Seq(Chars) /\ k = (end + 1) - first
  BY <1>1, SubIs
<1>3. w + 1 = first /\ w \in 0 .. Len(words)
  BY <1>1
<1> HIDE DEF w, k
<1>4. w + k = end
  BY <1>1, <1>2, <1>3
<1> HIDE DEF exact
<1>5. SubSeq(words, w + 1, w + k) = exact
  BY <1>3, <1>4 DEF exact
<1>6. Marks!Stands(exact, words, w)
  BY <1>1, <1>4, <1>5, Zenon DEF Marks!Stands, k
<1>7. w \in Marks!Positions(exact, words)
  BY <1>3, <1>6, Zenon DEF Marks!Positions
<1> QED BY <1>2, <1>7 DEF exact, w, k

\* The one place where a passage stands is the place.
LEMMA PositionsOne ==
  ASSUME NEW words \in Seq(Chars), NEW exact, Marks!Cardinality(Marks!Positions(exact, words)) = 1,
         NEW w \in Marks!Positions(exact, words)
  PROVE  Marks!Positions(exact, words) = {w}
<1> DEFINE ps == Marks!Positions(exact, words)
<1>1. IsFiniteSet(ps)
  <2>1. ps \subseteq 0 .. Len(words) /\ Len(words) \in Nat
    BY LenProperties DEF Marks!Positions
  <2>2. IsFiniteSet(0 .. Len(words))
    BY <2>1, FS_Interval
  <2> QED BY <2>1, <2>2, FS_Subset
<1>2. Cardinality(ps) = 1
  BY MarksLibrary, Zenon
<1> HIDE DEF ps
<1>3. \E x : ps = {x}
  BY <1>1, <1>2, FS_Singleton
<1>4. w \in ps
  BY DEF ps
<1>5. ps = {w}
  BY <1>3, <1>4
<1> QED BY <1>5 DEF ps

\* The whole context fits where the passage came from.
LEMMA ContextFits ==
  ASSUME NEW words \in Seq(Chars), NEW first \in 1 .. Len(words), NEW end \in 1 .. Len(words),
         first <= end, CTX \in Nat, NEW a, Anchored(a), a.exact = SubSeq(words, first, end),
         a.prefix = Before(words, first), a.suffix = After(words, end)
  PROVE  Marks!Score(words, a, first - 1) = Len(a.prefix) + Len(a.suffix)
<1> DEFINE w == first - 1
           f == From(w)
           u == UpTo(words, end)
           k == Len(a.exact)
<1>1. Len(words) \in Nat /\ first \in Nat \ {0} /\ end \in Nat /\ end <= Len(words)
  BY LenProperties
<1>2. w \in Nat /\ f \in Nat /\ f <= w /\ w <= end /\ w + 1 = first
  BY <1>1 DEF From
<1>3. u \in Nat /\ end <= u /\ u <= Len(words)
  BY <1>1 DEF UpTo
<1>4. k = (end + 1) - first
  BY PassageStands, Zenon
<1>5. a.prefix = SubSeq(words, f + 1, w) /\ a.suffix = SubSeq(words, end + 1, u)
  BY DEF Before, After
<1> HIDE DEF w, f, u, k
<1>6. w + k = end
  BY <1>1, <1>2, <1>4
<1>7. Len(a.prefix) = w - f
  BY <1>1, <1>2, <1>5, CutAt
<1>8. Len(a.suffix) = u - end
  BY <1>1, <1>3, <1>5, CutAt
<1>9. Len(a.prefix) <= w /\ w - Len(a.prefix) = f /\ f + Len(a.prefix) = w
  BY <1>2, <1>7
<1>10. Marks!Stands(a.prefix, words, w - Len(a.prefix))
  <2>1. SubSeq(words, f + 1, f + Len(a.prefix)) = a.prefix /\ f + Len(a.prefix) <= Len(words)
    BY <1>1, <1>2, <1>5, <1>9
  <2> QED BY <1>9, <2>1, Zenon DEF Marks!Stands
<1>11. Marks!Stands(a.suffix, words, w + k)
  <2>1. end + Len(a.suffix) = u
    BY <1>1, <1>3, <1>8
  <2>2. SubSeq(words, end + 1, end + Len(a.suffix)) = a.suffix /\ end + Len(a.suffix) <= Len(words)
    BY <1>3, <1>5, <2>1
  <2> QED BY <1>6, <2>2, Zenon DEF Marks!Stands
<1>12. Marks!Score(words, a, w) = Len(a.prefix) + Len(a.suffix)
  BY <1>9, <1>10, <1>11, Zenon DEF Marks!Score, k
<1> QED BY <1>12 DEF w


\* A passage is found where it was selected.
LEMMA GoodFound ==
  ASSUME article \in Articles, NEW m, GoodMark(m), m.article = article,
         LET ps == Marks!Positions(m.anchor.exact, article.text)
         IN  \/ Marks!Cardinality(ps) = 1
             \/ m.clear /\ Marks!Least(ps) + 1 \in m.span /\ \A x \in m.span : x > Marks!Least(ps)
  PROVE  Marks!Found(m) = m.span
<1> DEFINE words == article.text
           a == m.anchor
           ps == Marks!Positions(a.exact, words)
           l == Marks!Least(Best(words, a))
<1>1. Anchored(a) /\ words \in Seq(Chars) /\ Len(words) \in Nat /\ CTX \in Nat
  BY ArticleText, ArticlesAssumption DEF GoodMark
<1>2. PICK first \in 1 .. Len(words), end \in 1 .. Len(words) : IsPassage(m, first, end)
  BY Zenon DEF GoodMark
<1>3. first <= end /\ m.span = first .. end /\ a.exact = SubSeq(words, first, end)
  BY <1>2, Zenon DEF IsPassage
<1> DEFINE w == first - 1
<1>4. w \in ps /\ Len(a.exact) = (end + 1) - first
  <2> DEFINE exact == SubSeq(words, first, end)
  <2>1. Len(exact) = (end + 1) - first /\ w \in Marks!Positions(exact, words)
    <3> HIDE DEF words
    <3> QED BY <1>1, <1>3, PassageStands
  <2> HIDE DEF exact
  <2>2. a.exact = exact
    BY <1>3 DEF exact
  <2> QED BY <2>1, <2>2
<1>5. ps # {} /\ ps \subseteq Nat
  BY <1>1, <1>4, LenProperties DEF Marks!Positions
<1>6. Marks!Found(m) = l + 1 .. l + Len(a.exact) /\ l \in Best(words, a)
  BY <1>1, <1>5, FoundIs, Zenon
<1>7. l \in ps
  BY <1>6 DEF Best
<1>8. CASE Marks!Cardinality(ps) = 1
  <2>1. ps = {w}
    BY <1>1, <1>4, <1>8, PositionsOne, Zenon
  <2> HIDE DEF w, l, ps
  <2>2. l = w
    BY <1>7, <2>1
  <2>3. l + 1 .. l + Len(a.exact) = first .. end
    <3>1. l + 1 = first /\ l + Len(a.exact) = end
      BY <1>4, <2>2 DEF w
    <3> QED BY <3>1
  <2> QED BY <1>3, <1>6, <2>3
<1>9. CASE m.clear /\ Marks!Least(ps) + 1 \in m.span /\ \A x \in m.span : x > Marks!Least(ps)
  <2> DEFINE L == Marks!Least(ps)
             N == Len(a.prefix) + Len(a.suffix)
  <2>1. L \in ps /\ \A r \in ps : L <= r
    BY <1>5, LeastIs
  <2> HIDE DEF ps
  <2>2. L \in Nat /\ L + 1 \in first .. end /\ first > L
    <3>1. first \in m.span
      BY <1>3
    <3> HIDE DEF L
    <3> QED BY <1>3, <1>5, <1>9, <2>1, <3>1 DEF L
  <2>3. L = w
    <3> HIDE DEF L
    <3> QED BY <2>2
  <2>4. a.prefix = Before(words, first) /\ a.suffix = After(words, end)
    BY <1>2, <1>9, <2>3, Zenon DEF IsPassage, ps
  <2>5. Marks!Score(words, a, w) = N
    <3> HIDE DEF words, a, ps
    <3> QED BY <1>1, <1>3, <2>4, ContextFits
  <2>6. \A r \in ps : Marks!Score(words, a, r) \in 0 .. N
    BY <1>1, ScoreIs, Zenon
  <2>7. \A r \in ps : Marks!Score(words, a, r) <= Marks!Score(words, a, w)
    <3> HIDE DEF N, w
    <3> QED BY <2>5, <2>6
  <2>8. w \in Best(words, a)
    BY <1>4, <2>7, Zenon DEF Best, ps
  <2>9. l <= w
    BY <1>1, <1>5, <2>8, BestIs, Zenon DEF ps
  <2> HIDE DEF L
  <2>10. w <= l
    BY <1>7, <2>1, <2>3
  <2>11. l = w
    <3>1. l \in Nat /\ w \in Nat
      BY <1>4, <1>5, <1>7
    <3> HIDE DEF l, w
    <3> QED BY <2>9, <2>10, <3>1
  <2> HIDE DEF l
  <2>12. l + 1 .. l + Len(a.exact) = first .. end
    <3>1. l + 1 = first /\ l + Len(a.exact) = end
      BY <1>4, <2>11
    <3> QED BY <3>1
  <2> QED BY <1>3, <1>6, <2>12
<1> QED BY <1>8, <1>9

---------------------------------------------------------------------------
(* A passage selected now.                                                 *)

\* The least of a set, from its definition.
LEMMA PositionIsLeast ==
  ASSUME NEW S \in SUBSET Nat, NEW w \in S, \A r \in S : w <= r
  PROVE  Marks!Least(S) = w
<1>1. Marks!Least(S) \in S /\ \A r \in S : Marks!Least(S) <= r
  BY LeastIs
<1> DEFINE l == Marks!Least(S)
<1> HIDE DEF l
<1>2. l \in S /\ l <= w /\ w <= l
  BY <1>1 DEF l
<1>3. l \in Nat /\ w \in Nat
  BY <1>2
<1>4. l = w
  BY <1>2, <1>3
<1> QED BY <1>4 DEF l

\* Where a passage stands first in the article, and no mark comes before the
\* end of b letters, it stands first in what is outside the marks.
LEMMA FirstOutside ==
  ASSUME NEW words \in Seq(Chars), NEW others \in Seq(Chars), NEW b \in Nat,
         Agree(words, others, b), NEW exact \in Seq(Chars), NEW w \in Nat, w + Len(exact) <= b,
         w \in Marks!Positions(exact, words), Marks!Least(Marks!Positions(exact, words)) = w
  PROVE  w \in Marks!Positions(exact, others) /\ Marks!Least(Marks!Positions(exact, others)) = w
<1> DEFINE ps == Marks!Positions(exact, words)
           qs == Marks!Positions(exact, others)
           k == Len(exact)
<1>1. Len(words) \in Nat /\ Len(others) \in Nat /\ k \in Nat
      /\ b <= Len(words) /\ b <= Len(others)
  BY LenProperties DEF Agree
<1>2. /\ \A r : r \in ps <=> r \in 0 .. Len(words) /\ Marks!Stands(exact, words, r)
      /\ \A r : r \in qs <=> r \in 0 .. Len(others) /\ Marks!Stands(exact, others, r)
  BY Zenon DEF Marks!Positions
<1>3. ps \in SUBSET Nat /\ qs \in SUBSET Nat
  <2> HIDE DEF ps, qs
  <2> QED BY <1>1, <1>2
<1>4. \A r \in Nat : r + k <= b => (Marks!Stands(exact, words, r) <=> Marks!Stands(exact, others, r))
  BY StandsSame, Zenon
<1>5. \A r \in ps : w <= r
  <2>1. ps # {}
    OBVIOUS
  <2>2. \A r \in ps : Marks!Least(ps) <= r
    BY <1>3, <2>1, LeastIs
  <2> QED BY <2>2
<1> HIDE DEF ps, qs, k
<1>6. w \in qs
  <2>1. w \in 0 .. Len(others) /\ w + k <= b /\ w \in ps
    BY <1>1 DEF k, ps
  <2> QED BY <1>2, <1>4, <2>1
<1>7. ASSUME NEW r \in qs PROVE w <= r
  <2>1. r \in Nat /\ w + k <= b
    BY <1>3 DEF k
  <2>2. ASSUME r < w PROVE FALSE
    <3>1. r + k <= b /\ r \in 0 .. Len(words)
      BY <1>1, <2>1, <2>2
    <3>2. r \in ps
      BY <1>2, <1>4, <2>1, <3>1
    <3> QED BY <1>5, <2>1, <2>2, <3>2
  <2> QED BY <2>1, <2>2
<1>8. Marks!Least(qs) = w
  BY <1>3, <1>6, <1>7, PositionIsLeast
<1> QED BY <1>6, <1>8 DEF qs


\* What an anchor holds: the passage, and the context of its first place in the
\* text outside the marks.
LEMMA AnchorIs ==
  ASSUME article \in Articles, NEW first \in Marks!Letters, NEW end \in Marks!Letters, first <= end
  PROVE  LET others == Marks!TextOf(Marks!Index(Marks!TextIndex(Marks!Marked)))
             a == Marks!BuildAnchor(first, end)
             ps == Marks!Positions(a.exact, others)
             idx == Marks!Least(ps)
         IN  /\ others \in Seq(Chars) /\ Len(others) <= Len(article.text)
             /\ Anchored(a)
             /\ a.exact = SubSeq(article.text, first, end)
             /\ ps # {} => /\ a.prefix = SubSeq(others, From(idx) + 1, idx)
                           /\ a.suffix = After(others, idx + Len(a.exact))
<1> DEFINE words == article.text
           nodes == Marks!TextIndex(Marks!Marked)
           others == Marks!TextOf(Marks!Index(nodes))
           exact == SubSeq(words, first, end)
           ps == Marks!Positions(exact, others)
           idx == Marks!Least(ps)
           k == Len(exact)
           a == Marks!BuildAnchor(first, end)
<1>1. words \in Seq(Chars) /\ Len(words) \in Nat /\ Marks!Letters = 1 .. Len(words) /\ CTX \in Nat
  BY ArticleText, LettersOf, ArticlesAssumption
<1>2. UNION nodes \subseteq Marks!Letters
  BY NodesCover
<1>3. others \in Seq(Chars) /\ Len(others) = Cardinality(UNION nodes) /\ Len(others) \in Nat
  <2>1. others \in Seq(Chars) /\ Len(others) = Cardinality(UNION nodes)
    BY <1>2, TextOfIndex, Zenon
  <2> QED BY <2>1, LenProperties
<1>4. Len(others) <= Len(words)
  <2>1. IsFiniteSet(1 .. Len(words)) /\ Cardinality(1 .. Len(words)) = Len(words)
    BY <1>1, CountTo
  <2> HIDE DEF nodes
  <2>2. UNION nodes \subseteq 1 .. Len(words)
    BY <1>1, <1>2
  <2>3. Cardinality(UNION nodes) <= Cardinality(1 .. Len(words))
    BY <2>1, <2>2, FS_Subset
  <2> QED BY <1>3, <2>1, <2>3
<1>5. exact \in Seq(Chars) /\ k \in Nat
  <2>1. first \in 1 .. Len(words) /\ end \in 1 .. Len(words)
    BY <1>1
  <2> HIDE DEF words
  <2>2. exact \in Seq(Chars)
    BY <1>1, <2>1, PassageStands
  <2> QED BY <2>2, LenProperties
<1>6. /\ a.exact = exact
      /\ a.prefix = IF ps = {} THEN << >> ELSE SubSeq(others, From(idx) + 1, idx)
      /\ a.suffix = IF ps = {} THEN << >> ELSE SubSeq(others, (idx + k) + 1, UpTo(others, idx + k))
  BY DEF Marks!BuildAnchor, From, UpTo
<1> HIDE DEF words, nodes, others, exact, idx, k, a
<1>7. ASSUME ps # {}
      PROVE  /\ idx \in Nat /\ idx + k <= Len(others)
             /\ SubSeq(others, From(idx) + 1, idx) \in Seq(Chars)
             /\ SubSeq(others, (idx + k) + 1, UpTo(others, idx + k)) \in Seq(Chars)
  <2>1. ps \in SUBSET Nat
    BY <1>3 DEF Marks!Positions
  <2>2. idx \in ps
    BY <1>7, <2>1, LeastIs DEF idx
  <2>3. idx \in Nat /\ idx + k <= Len(others)
    BY <2>1, <2>2, Zenon DEF Marks!Positions, Marks!Stands, k
  <2>4. From(idx) \in Nat /\ From(idx) <= idx /\ idx <= Len(others)
    BY <1>1, <1>3, <1>5, <2>3 DEF From
  <2>5. SubSeq(others, From(idx) + 1, idx) \in Seq(Chars)
    BY <1>3, <2>3, <2>4, CutAt
  <2> DEFINE j == idx + k
             u == UpTo(others, j)
  <2>6. j \in Nat /\ u \in Nat /\ j <= u /\ u <= Len(others)
    BY <1>1, <1>3, <1>5, <2>3 DEF UpTo
  <2> HIDE DEF j, u
  <2>7. SubSeq(others, j + 1, u) \in Seq(Chars)
    BY <1>3, <2>6, CutAt
  <2> QED BY <2>3, <2>5, <2>7 DEF j, u
<1> HIDE DEF ps
<1>8. Anchored(a)
  <2>1. << >> \in Seq(Chars)
    OBVIOUS
  <2>2. a.exact \in Seq(Chars) /\ a.prefix \in Seq(Chars)
    BY <1>5, <1>6, <1>7, <2>1, Zenon
  <2>3. a.suffix \in Seq(Chars)
    BY <1>6, <1>7, <2>1, Zenon
  <2> QED BY <2>2, <2>3 DEF Anchored
<1>9. ps # {} => a.prefix = SubSeq(others, From(idx) + 1, idx) /\ a.suffix = After(others, idx + k)
  BY <1>6, Zenon DEF After
<1> QED BY <1>3, <1>4, <1>6, <1>8, <1>9, Zenon DEF words, nodes, others, exact, ps, idx, k, a

\* With no mark before it or within its context, that of a passage that stands
\* first where it was selected is the context in the article.
LEMMA AnchorFits ==
  ASSUME article \in Articles, NEW first \in Marks!Letters, NEW end \in Marks!Letters, first <= end,
         \A x \in Marks!Marked : x > end + CTX,
         Marks!Least(Marks!Positions(SubSeq(article.text, first, end), article.text)) = first - 1
  PROVE  /\ Marks!BuildAnchor(first, end).prefix = Before(article.text, first)
         /\ Marks!BuildAnchor(first, end).suffix = After(article.text, end)
<1> DEFINE words == article.text
           nodes == Marks!TextIndex(Marks!Marked)
           others == Marks!TextOf(Marks!Index(nodes))
           exact == SubSeq(words, first, end)
           k == Len(exact)
           w == first - 1
           a == Marks!BuildAnchor(first, end)
           b == UpTo(words, end)
<1>1. words \in Seq(Chars) /\ Len(words) \in Nat /\ Marks!Letters = 1 .. Len(words) /\ CTX \in Nat
  BY ArticleText, LettersOf, ArticlesAssumption
<1>2. UNION nodes = Marks!Letters \ Marks!Marked
  BY NodesCover
<1>3. others \in Seq(Chars) /\ Len(others) <= Len(words) /\ Len(others) \in Nat /\ a.exact = exact
  BY AnchorIs, LenProperties
<1>4. Marks!Positions(exact, others) # {} =>
        /\ a.prefix = SubSeq(others, From(Marks!Least(Marks!Positions(exact, others))) + 1,
                             Marks!Least(Marks!Positions(exact, others)))
        /\ a.suffix = After(others, Marks!Least(Marks!Positions(exact, others)) + k)
  BY <1>3, AnchorIs, Zenon
<1>5. b \in Nat /\ end <= b /\ b <= end + CTX /\ b <= Len(words)
  BY <1>1 DEF UpTo
<1>6. 1 .. b \subseteq UNION nodes
  <2>1. ASSUME NEW o \in 1 .. b PROVE o \in Marks!Letters /\ o \notin Marks!Marked
    <3>1. o \in 1 .. Len(words) /\ ~(o > end + CTX)
      <4> HIDE DEF b, words
      <4> QED BY <1>1, <1>5
    <3> QED BY <1>1, <3>1
  <2> QED BY <1>2, <2>1
<1>7. Agree(words, others, b)
  <2>1. b <= Cardinality(UNION nodes) /\ \A o \in 1 .. b : Marks!Index(nodes)[o] = o
    BY <1>2, <1>5, <1>6, IndexHead
  <2>2. Len(others) = Cardinality(UNION nodes)
        /\ \A o \in 1 .. Len(others) : others[o] = words[Marks!Index(nodes)[o]]
    BY <1>2, TextOfIndex
  <2> HIDE DEF b, others, words, nodes
  <2>3. \A o \in 1 .. b : o \in 1 .. Len(others)
    BY <1>3, <1>5, <2>1, <2>2
  <2> QED BY <1>5, <2>1, <2>2, <2>3 DEF Agree
<1>8. /\ exact \in Seq(Chars) /\ k = (end + 1) - first /\ w \in Marks!Positions(exact, words)
  <2>1. first \in 1 .. Len(words) /\ end \in 1 .. Len(words)
    BY <1>1
  <2> HIDE DEF words
  <2> QED BY <1>1, <2>1, PassageStands
<1>9. w \in Nat /\ w <= end /\ first \in Nat /\ end \in Nat
  BY <1>1
<1>10. Marks!Least(Marks!Positions(exact, words)) = w
  OBVIOUS
<1> HIDE DEF words, nodes, others, exact, k, a, b
<1>11. w + k = end
  BY <1>1, <1>8, <1>9
<1> HIDE DEF w
<1>12. w \in Marks!Positions(exact, others) /\ Marks!Least(Marks!Positions(exact, others)) = w
  <2>1. w + Len(exact) <= b
    BY <1>5, <1>11 DEF k
  <2> QED BY <1>1, <1>3, <1>5, <1>7, <1>8, <1>9, <1>10, <2>1, FirstOutside, SMTT(30)
<1>13. a.prefix = SubSeq(others, From(w) + 1, w) /\ a.suffix = After(others, end)
  BY <1>4, <1>11, <1>12
<1>14. SameParts(words, others, b)
  BY <1>1, <1>3, <1>5, <1>7, SubSame
<1>15. SubSeq(others, From(w) + 1, w) = SubSeq(words, From(w) + 1, w)
  <2> DEFINE f == From(w) + 1
  <2>1. f \in Nat /\ f # 0 /\ f <= w + 1 /\ w <= b
    BY <1>1, <1>5, <1>9 DEF From
  <2> HIDE DEF f
  <2> QED BY <1>9, <1>14, <2>1 DEF SameParts, f
<1>16. After(others, end) = After(words, end)
  <2>1. UpTo(others, end) = b
    <3>1. b <= Len(others)
      BY <1>7 DEF Agree
    <3>2. b = IF end + CTX < Len(words) THEN end + CTX ELSE Len(words)
      BY DEF b, UpTo
    <3> QED BY <1>1, <1>3, <1>5, <1>9, <3>1, <3>2 DEF UpTo
  <2> DEFINE f == end + 1
  <2>2. f \in Nat /\ f # 0 /\ f <= b + 1 /\ b <= b
    BY <1>5, <1>9
  <2> HIDE DEF f
  <2>3. SubSeq(words, f, b) = SubSeq(others, f, b)
    BY <1>5, <1>14, <2>2 DEF SameParts
  <2>4. UpTo(words, end) = b
    BY DEF b
  <2> QED BY <2>1, <2>3, <2>4 DEF After, f
<1> QED BY <1>13, <1>15, <1>16 DEF Before, words, a, w


---------------------------------------------------------------------------
(* The marks of the page, for every version of the article.                *)

\* Finding and nodes, of the article as a parameter.
FoundIn(words, a) ==
  IF Marks!Positions(a.exact, words) = {} THEN {}
  ELSE LET w == Marks!Least(Best(words, a)) IN w + 1 .. w + Len(a.exact)

Together(art, x, y) ==
  /\ {x, y} \subseteq DOMAIN art.text
  /\ \A z \in x .. y : z \in DOMAIN art.text /\ (z < y => z \notin art.breaks)
  /\ \A z \in y .. x : z \in DOMAIN art.text /\ (z < x => z \notin art.breaks)

\* Where an anchor is found depends on the article and the anchor.
LEMMA FoundAs ==
  ASSUME article \in Articles, NEW m, Anchored(m.anchor)
  PROVE  Marks!Found(m) = FoundIn(article.text, m.anchor)
<1> DEFINE ps == Marks!Positions(m.anchor.exact, article.text)
           w == Marks!Least(Best(article.text, m.anchor))
<1>1. /\ ps = {} => Marks!Found(m) = {}
      /\ ps # {} => Marks!Found(m) = w + 1 .. w + Len(m.anchor.exact)
  BY FoundIs, Zenon
<1> QED BY <1>1, Zenon DEF FoundIn

\* So does which letters are in one node.
LEMMA TogetherAs ==
  ASSUME article \in Articles, NEW x, NEW y
  PROVE  Marks!SameNode(x, y) <=> Together(article, x, y)
<1> DEFINE nodes == Marks!TextIndex({})
           Free == Marks!Letters \ {}
           Node(v) == {z \in Free : Linked(v, z, {})}
<1>1. nodes = {Node(v) : v \in Free}
  BY NodesAre
<1>2. Marks!SameNode(x, y) <=> \E node \in nodes : x \in node /\ y \in node
  BY DEF Marks!SameNode
<1>3. Free = DOMAIN article.text /\ Free = Marks!Letters
  BY DEF Marks!Letters
<1>4. Together(article, x, y) <=> x \in Free /\ y \in Free /\ Linked(x, y, {})
  <2>1. Marks!Letters = DOMAIN article.text /\ Marks!Letters \ {} = DOMAIN article.text
    BY DEF Marks!Letters
  <2> HIDE DEF Free
  <2> QED BY <1>3, <2>1 DEF Together, Linked
<1> HIDE DEF nodes, Free
<1>5. ASSUME Marks!SameNode(x, y) PROVE Together(article, x, y)
  <2>1. PICK v \in Free : x \in Node(v) /\ y \in Node(v)
    BY <1>1, <1>2, <1>5
  <2>2. x \in Free /\ y \in Free /\ Linked(v, x, {}) /\ Linked(v, y, {})
    BY <2>1
  <2>3. Linked(x, v, {})
    BY <2>2, LinkedBack
  <2>4. x \in Marks!Letters /\ v \in Marks!Letters /\ y \in Marks!Letters
    BY <1>3, <2>1, <2>2
  <2>5. Linked(x, y, {})
    BY <2>2, <2>3, <2>4, LinkedOn
  <2> QED BY <1>4, <2>2, <2>5
<1>6. ASSUME Together(article, x, y) PROVE Marks!SameNode(x, y)
  <2>1. x \in Free /\ y \in Free /\ Linked(x, y, {})
    BY <1>4, <1>6
  <2>2. x \in UNION nodes
    BY <1>3, <2>1, NodesCover DEF nodes, Free
  <2>3. PICK v \in Free : x \in Node(v)
    BY <1>1, <2>2
  <2>4. Linked(v, x, {})
    BY <2>3
  <2>5. x \in Marks!Letters /\ v \in Marks!Letters /\ y \in Marks!Letters
    BY <1>3, <2>1, <2>3
  <2>6. Linked(v, y, {})
    BY <2>1, <2>4, <2>5, LinkedOn
  <2>7. y \in Node(v)
    BY <2>1, <2>6
  <2> QED BY <1>1, <1>2, <2>3, <2>7
<1> QED BY <1>5, <1>6

\* The marks and the moved comments of the passages of one article.
MarksAre(art, passages, drawing) ==
  /\ DOMAIN drawing = 1 .. Len(passages)
  /\ \A i \in 1 .. Len(passages) :
       drawing[i] = {x \in FoundIn(art.text, passages[i].anchor) :
                       \A j \in 1 .. i - 1 : \A y \in drawing[j] : Together(art, x, y) => x < y}

MovedAre(art, comments, moved) ==
  moved = {i \in DOMAIN comments : FoundIn(art.text, comments[i].anchor) = {}}

Anchor == [exact : Seq(Chars), prefix : Seq(Chars), suffix : Seq(Chars)]
Remembered == {m \in [anchor : Anchor, article : Articles, span : SUBSET Nat, clear : BOOLEAN] :
                 GoodMark(m)}

\* The marks and the moved comments are those of the lists and of the article
\* on show, and every anchor, wherever it is kept, is of some version of it.
MarksInv ==
  /\ article \in Articles
  /\ stored \in [Marks!Sorts -> Seq(Remembered)]
  /\ anchors \in [Marks!Sorts -> Seq(Remembered)]
  /\ selected = None \/ selected \in Remembered
  /\ loaded \in BOOLEAN
  /\ loaded => /\ MarksAre(article, anchors["comment"] \o anchors["note"], drawn)
               /\ MovedAre(article, anchors["comment"], orphans)

\* A stored mark's anchor is one made in some version of the article.
LEMMA RememberedIs ==
  ASSUME NEW m \in Remembered PROVE GoodMark(m) /\ Anchored(m.anchor)
<1>1. GoodMark(m)
  BY DEF Remembered
<1> QED BY <1>1 DEF GoodMark

\* The two lists.
LEMMA SortsAre == Marks!Sorts = {"comment", "note"}
BY DEF Marks!Sorts

\* Both lists together.
LEMMA ShownAre ==
  ASSUME NEW lists_ \in [Marks!Sorts -> Seq(Remembered)]
  PROVE  LET both == lists_["comment"] \o lists_["note"]
         IN  /\ lists_["comment"] \in Seq(Remembered)
             /\ both \in Seq(Remembered) /\ Len(both) \in Nat /\ DOMAIN both = 1 .. Len(both)
             /\ \A i \in 1 .. Len(both) : both[i] \in Remembered /\ Anchored(both[i].anchor)
             /\ Len(lists_["comment"]) \in Nat /\ Len(lists_["comment"]) <= Len(both)
             /\ DOMAIN lists_["comment"] = 1 .. Len(lists_["comment"])
             /\ \A i \in 1 .. Len(lists_["comment"]) : both[i] = lists_["comment"][i]
<1> DEFINE u == lists_["comment"]
           v == lists_["note"]
           both == u \o v
<1>1. u \in Seq(Remembered) /\ v \in Seq(Remembered)
  BY SortsAre
<1> HIDE DEF u, v
<1>2. /\ both \in Seq(Remembered) /\ Len(both) = Len(u) + Len(v)
      /\ Len(u) \in Nat /\ Len(v) \in Nat /\ DOMAIN u = 1 .. Len(u)
      /\ \A i \in 1 .. Len(u) : both[i] = u[i]
  BY <1>1, ConcatProperties, LenProperties
<1> HIDE DEF both
<1>3. Len(both) \in Nat /\ DOMAIN both = 1 .. Len(both)
      /\ \A i \in 1 .. Len(both) : both[i] \in Remembered
  BY <1>2, LenProperties, ElementOfSeq
<1>4. \A i \in 1 .. Len(both) : Anchored(both[i].anchor)
  BY <1>3, RememberedIs
<1>5. Len(u) <= Len(both)
  <2> DEFINE a == Len(u)
             b == Len(v)
  <2>1. a \in Nat /\ b \in Nat /\ Len(both) = a + b
    BY <1>2
  <2> HIDE DEF a, b
  <2>2. a <= Len(both)
    BY <2>1
  <2> QED BY <2>2 DEF a
<1> QED BY <1>1, <1>2, <1>3, <1>4, <1>5 DEF u, v, both


\* What Redraw makes.
LEMMA Redrawn ==
  ASSUME article \in Articles, NEW lists_ \in [Marks!Sorts -> Seq(Remembered)],
         NEW drawing, drawing = Marks!Draw(Marks!TextIndex({}), lists_["comment"] \o lists_["note"]),
         NEW moved, moved = {i \in DOMAIN lists_["comment"] :
           Marks!FindAnchor(Marks!Index(Marks!TextIndex({})), lists_["comment"][i].anchor) = {}}
  PROVE  /\ MarksAre(article, lists_["comment"] \o lists_["note"], drawing)
         /\ MovedAre(article, lists_["comment"], moved)
<1> DEFINE u == lists_["comment"]
           both == u \o lists_["note"]
<1>1. /\ u \in Seq(Remembered) /\ Len(both) \in Nat
      /\ \A i \in 1 .. Len(both) : Anchored(both[i].anchor)
      /\ DOMAIN u = 1 .. Len(u) /\ Len(u) \in Nat
  BY ShownAre, Zenon
<1>2. \A i \in DOMAIN u : Anchored(u[i].anchor)
  BY <1>1, ElementOfSeq, RememberedIs
<1> HIDE DEF both, u
<1>3. /\ DOMAIN drawing = 1 .. Len(both)
      /\ \A i \in 1 .. Len(both) :
           drawing[i] = {x \in Marks!Found(both[i]) :
                           \A j \in 1 .. i - 1 : \A y \in drawing[j] : Marks!SameNode(x, y) => x < y}
  <2>1. drawing = Marks!Draw(Marks!TextIndex({}), both)
    BY Zenon DEF both, u
  <2> DEFINE d == Marks!Draw(Marks!TextIndex({}), both)
  <2>2. /\ DOMAIN d = 1 .. Len(both)
        /\ \A i \in 1 .. Len(both) :
             d[i] = {x \in Marks!Found(both[i]) :
                       \A j \in 1 .. i - 1 : \A y \in d[j] : Marks!SameNode(x, y) => x < y}
    BY <1>1, MarksDrawn, Zenon
  <2>3. drawing = d
    BY <2>1
  <2> HIDE DEF d
  <2> QED BY <2>2, <2>3
<1>4. \A i \in 1 .. Len(both) : Marks!Found(both[i]) = FoundIn(article.text, both[i].anchor)
  BY <1>1, FoundAs, Zenon
<1>5. \A x, y : Marks!SameNode(x, y) <=> Together(article, x, y)
  BY TogetherAs, Zenon
<1>6. MarksAre(article, both, drawing)
  <2>1. ASSUME NEW i \in 1 .. Len(both)
        PROVE  drawing[i] = {x \in FoundIn(article.text, both[i].anchor) :
                  \A j \in 1 .. i - 1 : \A y \in drawing[j] : Together(article, x, y) => x < y}
    <3> DEFINE S == Marks!Found(both[i])
               T == FoundIn(article.text, both[i].anchor)
    <3>1. S = T
      BY <1>4
    <3>2. drawing[i] = {x \in S : \A j \in 1 .. i - 1 : \A y \in drawing[j] : Marks!SameNode(x, y) => x < y}
      BY <1>3
    <3> HIDE DEF S, T
    <3>3. {x \in S : \A j \in 1 .. i - 1 : \A y \in drawing[j] : Marks!SameNode(x, y) => x < y}
            = {x \in T : \A j \in 1 .. i - 1 : \A y \in drawing[j] : Together(article, x, y) => x < y}
      BY <1>5, <3>1
    <3> QED BY <3>2, <3>3, Zenon DEF T
  <2> QED BY <1>3, <2>1, Zenon DEF MarksAre
<1>7. MovedAre(article, u, moved)
  <2>1. \A i \in DOMAIN u :
          Marks!FindAnchor(Marks!Index(Marks!TextIndex({})), u[i].anchor) = FoundIn(article.text, u[i].anchor)
    <3>1. \A i \in DOMAIN u : Marks!Found(u[i]) = FoundIn(article.text, u[i].anchor)
      BY <1>2, FoundAs, Zenon
    <3> QED BY <3>1, Zenon DEF Marks!Found
  <2>2. moved = {i \in DOMAIN u :
                   Marks!FindAnchor(Marks!Index(Marks!TextIndex({})), u[i].anchor) = {}}
    BY Zenon DEF u
  <2>3. moved = {i \in DOMAIN u : FoundIn(article.text, u[i].anchor) = {}}
    BY <2>1, <2>2
  <2> QED BY <2>3, Zenon DEF MovedAre
<1> QED BY <1>6, <1>7 DEF both, u

\* MarksInv holds first.
LEMMA MarksStart ==
  ASSUME Marks!Init PROVE MarksInv
<1>1. article \in Articles /\ stored = Marks!Nothing /\ anchors = Marks!Nothing /\ loaded = FALSE
      /\ selected = None
  BY DEF Marks!Init
<1>2. Marks!Nothing \in [Marks!Sorts -> Seq(Remembered)]
  BY DEF Marks!Nothing
<1> QED BY <1>1, <1>2 DEF MarksInv

\* An answer is drawn.
LEMMA ComesKeeps ==
  ASSUME MarksInv, Marks!ListComes PROVE MarksInv'
<1>0. PICK sort \in Marks!Sorts : \E answer \in {stored[sort], << >>} :
        /\ anchors' = [anchors EXCEPT ![sort] = answer]
        /\ loaded' = (loaded \/ sort = "comment")
  BY Zenon DEF Marks!ListComes
<1>1. PICK answer \in {stored[sort], << >>} :
        /\ anchors' = [anchors EXCEPT ![sort] = answer]
        /\ loaded' = (loaded \/ sort = "comment")
  BY <1>0, Zenon
<1>2. article' = article /\ stored' = stored /\ selected' = selected
  BY Zenon DEF Marks!ListComes
<1>3. IF loaded' THEN Marks!Redraw(anchors'["comment"], anchors'["note"])
      ELSE drawn' = drawn /\ orphans' = orphans
  BY Zenon DEF Marks!ListComes
<1>4. article \in Articles /\ stored \in [Marks!Sorts -> Seq(Remembered)]
      /\ anchors \in [Marks!Sorts -> Seq(Remembered)] /\ loaded \in BOOLEAN
      /\ (selected = None \/ selected \in Remembered)
  BY Zenon DEF MarksInv
<1>5. answer \in Seq(Remembered)
  <2>1. << >> \in Seq(Remembered)
    OBVIOUS
  <2>2. stored[sort] \in Seq(Remembered)
    BY <1>4
  <2> QED BY <2>1, <2>2
<1>6. anchors' \in [Marks!Sorts -> Seq(Remembered)]
  BY <1>1, <1>4, <1>5
<1>7. loaded' \in BOOLEAN
  BY <1>1, <1>4
<1>8. ASSUME loaded'
      PROVE  /\ MarksAre(article', anchors'["comment"] \o anchors'["note"], drawn')
             /\ MovedAre(article', anchors'["comment"], orphans')
  <2>1. Marks!Redraw(anchors'["comment"], anchors'["note"])
    BY <1>3, <1>8
  <2>2. drawn' = Marks!Draw(Marks!TextIndex({}), anchors'["comment"] \o anchors'["note"])
    BY <2>1, Zenon DEF Marks!Redraw
  <2>3. orphans' = {i \in DOMAIN anchors'["comment"] :
          Marks!FindAnchor(Marks!Index(Marks!TextIndex({})), anchors'["comment"][i].anchor) = {}}
    BY <2>1, Zenon DEF Marks!Redraw
  <2> DEFINE L == anchors'
             d == drawn'
             o == orphans'
  <2>4. L \in [Marks!Sorts -> Seq(Remembered)]
    BY <1>6
  <2>5. d = Marks!Draw(Marks!TextIndex({}), L["comment"] \o L["note"])
    BY <2>2
  <2>6. o = {i \in DOMAIN L["comment"] :
               Marks!FindAnchor(Marks!Index(Marks!TextIndex({})), L["comment"][i].anchor) = {}}
    BY <2>3
  <2> HIDE DEF L, d, o
  <2>7. /\ MarksAre(article, L["comment"] \o L["note"], d)
        /\ MovedAre(article, L["comment"], o)
    BY <1>4, <2>4, <2>5, <2>6, Redrawn, Zenon
  <2> QED BY <1>2, <2>7, Zenon DEF L, d, o
<1> QED BY <1>2, <1>4, <1>6, <1>7, <1>8, Zenon DEF MarksInv


\* A selection is of some version of the article.
LEMMA SelectionKeeps ==
  ASSUME MarksInv, Marks!Select PROVE MarksInv'
<1>1. /\ article' = article /\ stored' = stored /\ anchors' = anchors /\ loaded' = loaded
      /\ drawn' = drawn /\ orphans' = orphans
  BY Zenon DEF Marks!Select
<1>2. /\ article \in Articles /\ stored \in [Marks!Sorts -> Seq(Remembered)]
      /\ anchors \in [Marks!Sorts -> Seq(Remembered)] /\ loaded \in BOOLEAN
      /\ loaded => /\ MarksAre(article, anchors["comment"] \o anchors["note"], drawn)
                   /\ MovedAre(article, anchors["comment"], orphans)
  BY Zenon DEF MarksInv
<1>3. selected' = None \/ selected' \in Remembered
  <2>1. CASE selected' = None
    BY <2>1
  <2>2. ASSUME NEW first \in Marks!Letters, NEW end \in Marks!Letters, end + 1 - first \in Lengths,
               selected' = [anchor |-> Marks!BuildAnchor(first, end), article |-> article,
                            span |-> first .. end, clear |-> \A x \in Marks!Marked : x > end + CTX]
        PROVE  selected' \in Remembered
    <3> DEFINE a == Marks!BuildAnchor(first, end)
               words == article.text
               clear == \A x \in Marks!Marked : x > end + CTX
               m == [anchor |-> a, article |-> article, span |-> first .. end, clear |-> clear]
    <3>1. words \in Seq(Chars) /\ Len(words) \in Nat /\ Marks!Letters = 1 .. Len(words)
      BY <1>2, ArticleText, LettersOf
    <3>2. first <= end
      <4>1. end + 1 - first \in Nat \ {0} /\ first \in Nat /\ end \in Nat
        BY <2>2, <3>1, ArticlesAssumption
      <4> QED BY <4>1
    <3>3. Anchored(a) /\ a.exact = SubSeq(words, first, end)
      BY <1>2, <3>2, AnchorIs
    <3>4. a \in Anchor
      <4>1. a = [exact |-> a.exact, prefix |-> a.prefix, suffix |-> a.suffix]
        BY DEF Marks!BuildAnchor
      <4> HIDE DEF a
      <4>2. a.exact \in Seq(Chars) /\ a.prefix \in Seq(Chars) /\ a.suffix \in Seq(Chars)
        BY <3>3 DEF Anchored
      <4> QED BY <4>1, <4>2 DEF Anchor
    <3>5. (clear /\ Marks!Least(Marks!Positions(a.exact, words)) = first - 1) =>
             a.prefix = Before(words, first) /\ a.suffix = After(words, end)
      <4>1. ASSUME clear, Marks!Least(Marks!Positions(SubSeq(words, first, end), words)) = first - 1
            PROVE  a.prefix = Before(words, first) /\ a.suffix = After(words, end)
        BY <1>2, <2>2, <3>2, <4>1, AnchorFits, Zenon
      <4>2. a.exact = SubSeq(words, first, end)
        BY <3>3
      <4> HIDE DEF a, clear
      <4> QED BY <4>1, <4>2
    <3>6. first \in 1 .. Len(words) /\ end \in 1 .. Len(words) /\ first .. end \in SUBSET Nat
      BY <3>1
    <3>7. clear \in BOOLEAN
      OBVIOUS
    <3> HIDE DEF a, clear
    <3>8. /\ m.anchor = a /\ m.article = article /\ m.span = first .. end /\ m.clear = clear
          /\ m \in [anchor : Anchor, article : Articles, span : SUBSET Nat, clear : BOOLEAN]
      BY <1>2, <3>4, <3>6, <3>7
    <3>9. selected' = m
      BY <2>2 DEF a, clear
    <3> HIDE DEF m
    <3>10. IsPassage(m, first, end)
      <4> HIDE DEF words
      <4>1. m.article.text = words
        BY <3>8 DEF words
      <4> QED BY <3>2, <3>3, <3>5, <3>8, <4>1, Zenon DEF IsPassage
    <3>11. GoodMark(m)
      BY <1>2, <3>3, <3>6, <3>8, <3>10, Zenon DEF GoodMark
    <3>12. m \in Remembered
      BY <3>8, <3>11 DEF Remembered
    <3> QED BY <3>9, <3>12
  <2> QED BY <2>1, <2>2, Zenon DEF Marks!Select
<1> QED BY <1>1, <1>2, <1>3, Zenon DEF MarksInv

\* What is left of a list without one place.
LEMMA RemovedAt ==
  ASSUME NEW S, NEW s \in Seq(S), NEW i \in DOMAIN s PROVE Marks!RemoveAt(s, i) \in Seq(S)
<1> DEFINE n == Len(s)
<1>1. n \in Nat /\ i \in 1 .. n
  BY LenProperties
<1>2. SubSeq(s, 1, i - 1) \in Seq(S)
  <2> DEFINE a == 0
             b == i - 1
  <2>1. a \in Nat /\ b \in Nat /\ a <= b /\ b <= n /\ a + 1 = 1
    BY <1>1
  <2> HIDE DEF a, b
  <2>2. SubSeq(s, a + 1, b) \in Seq(S)
    BY <2>1, CutAt
  <2> QED BY <2>1, <2>2 DEF b
<1>3. SubSeq(s, i + 1, n) \in Seq(S)
  BY <1>1, CutAt
<1> QED BY <1>2, <1>3, ConcatProperties DEF Marks!RemoveAt

\* What is on the server changes, and nothing on the page is drawn.
LEMMA StoreKeeps ==
  ASSUME MarksInv, stored' \in [Marks!Sorts -> Seq(Remembered)],
         selected' = None \/ selected' \in Remembered,
         article' = article /\ anchors' = anchors /\ loaded' = loaded,
         drawn' = drawn /\ orphans' = orphans
  PROVE  MarksInv'
BY Zenon DEF MarksInv

\* A post adds a good anchor and redraws nothing.
LEMMA PostKeeps ==
  ASSUME MarksInv, Marks!Post PROVE MarksInv'
<1>1. PICK sort \in Marks!Sorts : stored' = [stored EXCEPT ![sort] = Append(@, selected)]
  BY Zenon DEF Marks!Post
<1>2. /\ selected # None /\ selected' = None /\ article' = article /\ anchors' = anchors
      /\ loaded' = loaded /\ drawn' = drawn /\ orphans' = orphans
  BY Zenon DEF Marks!Post
<1>3. stored \in [Marks!Sorts -> Seq(Remembered)] /\ selected \in Remembered
  BY <1>2, Zenon DEF MarksInv
<1>4. Append(stored[sort], selected) \in Seq(Remembered)
  BY <1>3, AppendProperties
<1>5. stored' \in [Marks!Sorts -> Seq(Remembered)]
  BY <1>1, <1>3, <1>4
<1> QED BY <1>2, <1>5, StoreKeeps

\* A deletion takes an anchor away and redraws nothing.
LEMMA DeletionKeeps ==
  ASSUME MarksInv, Marks!Delete PROVE MarksInv'
<1>1. PICK sort \in Marks!Sorts : \E i \in DOMAIN stored[sort] :
        stored' = [stored EXCEPT ![sort] = Marks!RemoveAt(@, i)]
  BY Zenon DEF Marks!Delete
<1>2. PICK i \in DOMAIN stored[sort] : stored' = [stored EXCEPT ![sort] = Marks!RemoveAt(@, i)]
  BY <1>1, Zenon
<1>3. /\ selected' = selected /\ article' = article /\ anchors' = anchors
      /\ loaded' = loaded /\ drawn' = drawn /\ orphans' = orphans
  BY Zenon DEF Marks!Delete
<1>4. stored \in [Marks!Sorts -> Seq(Remembered)] /\ (selected = None \/ selected \in Remembered)
  BY Zenon DEF MarksInv
<1>5. Marks!RemoveAt(stored[sort], i) \in Seq(Remembered)
  <2>1. stored[sort] \in Seq(Remembered)
    BY <1>4
  <2> QED BY <2>1, RemovedAt
<1>6. stored' \in [Marks!Sorts -> Seq(Remembered)]
  BY <1>2, <1>4, <1>5
<1> QED BY <1>3, <1>4, <1>6, StoreKeeps

\* Another version leaves anchors of the old one, which were good in it.
LEMMA PublishKeeps ==
  ASSUME MarksInv, Marks!Publish PROVE MarksInv'
<1>1. /\ article' \in Articles /\ anchors' = Marks!Nothing /\ loaded' = FALSE
      /\ selected' = None /\ stored' = stored
  BY DEF Marks!Publish
<1>2. Marks!Nothing \in [Marks!Sorts -> Seq(Remembered)]
  BY DEF Marks!Nothing
<1>3. stored \in [Marks!Sorts -> Seq(Remembered)]
  BY Zenon DEF MarksInv
<1> QED BY <1>1, <1>2, <1>3 DEF MarksInv

\* Every action keeps MarksInv.
LEMMA MarksStep ==
  ASSUME MarksInv, Marks!Next PROVE MarksInv'
BY ComesKeeps, SelectionKeeps, PostKeeps, DeletionKeeps, PublishKeeps, Zenon DEF Marks!Next

\* MarksInv is about the variables it names.
LEMMA MarksStutter ==
  ASSUME MarksInv, UNCHANGED <<article, stored, anchors, loaded, drawn, orphans, selected>>
  PROVE  MarksInv'
<1>1. /\ article' = article /\ stored' = stored /\ anchors' = anchors /\ loaded' = loaded
      /\ drawn' = drawn /\ orphans' = orphans /\ selected' = selected
  OBVIOUS
<1>2. /\ stored \in [Marks!Sorts -> Seq(Remembered)]
      /\ selected = None \/ selected \in Remembered
  BY Zenon DEF MarksInv
<1>3. /\ stored' \in [Marks!Sorts -> Seq(Remembered)]
      /\ selected' = None \/ selected' \in Remembered
  BY <1>1, <1>2
<1> QED BY <1>1, <1>3, StoreKeeps

\* Every step of the marks keeps MarksInv.
LEMMA MarksNext == MarksInv /\ [Marks!Next]_(Marks!vars) => MarksInv'
<1> SUFFICES ASSUME MarksInv, [Marks!Next]_(Marks!vars) PROVE MarksInv'
  OBVIOUS
<1>1. CASE Marks!Next
  BY <1>1, MarksStep
<1>2. CASE UNCHANGED Marks!vars
  <2>1. UNCHANGED <<article, stored, anchors, loaded, drawn, orphans, selected>>
    BY <1>2, Zenon DEF Marks!vars
  <2> QED BY <2>1, MarksStutter
<1> QED BY <1>1, <1>2, Zenon

\* What the invariant says of the page.
LEMMA MarksShow ==
  ASSUME MarksInv PROVE Marks!MarksOfLists /\ Marks!FoundAgain
<1>1. CASE ~loaded
  <2>1. Marks!Shown = << >>
    BY <1>1 DEF Marks!Shown
  <2>2. DOMAIN Marks!Shown = {}
    BY <2>1
  <2> QED BY <2>2 DEF Marks!MarksOfLists, Marks!FoundAgain
<1>2. CASE loaded
  <2> DEFINE u == anchors["comment"]
             both == u \o anchors["note"]
  <2>1. Marks!Shown = both
    BY <1>2, Zenon DEF Marks!Shown
  <2>2. article \in Articles /\ anchors \in [Marks!Sorts -> Seq(Remembered)]
        /\ MarksAre(article, both, drawn) /\ MovedAre(article, u, orphans)
    BY <1>2, Zenon DEF MarksInv
  <2>3. /\ both \in Seq(Remembered) /\ Len(both) \in Nat /\ DOMAIN both = 1 .. Len(both)
        /\ \A i \in 1 .. Len(both) : both[i] \in Remembered /\ Anchored(both[i].anchor)
        /\ DOMAIN u = 1 .. Len(u) /\ \A i \in 1 .. Len(u) : both[i] = u[i]
    BY <2>2, ShownAre, Zenon
  <2> HIDE DEF both
  <2>4. ASSUME NEW i \in 1 .. Len(both)
        PROVE  Marks!Found(both[i]) = FoundIn(article.text, both[i].anchor)
    BY <2>2, <2>3, FoundAs, Zenon
  <2>5. \A x, y : Marks!SameNode(x, y) <=> Together(article, x, y)
    BY <2>2, TogetherAs, Zenon
  <2>6. Marks!MarksOfLists
    <3>1. ASSUME NEW i \in 1 .. Len(both)
          PROVE  drawn[i] = {x \in Marks!Found(both[i]) :
                    \A j \in 1 .. i - 1 : \A y \in drawn[j] : Marks!SameNode(x, y) => x < y}
      <4> DEFINE S == Marks!Found(both[i])
                 T == FoundIn(article.text, both[i].anchor)
      <4>1. S = T
        BY <2>4
      <4>2. drawn[i] = {x \in T : \A j \in 1 .. i - 1 : \A y \in drawn[j] : Together(article, x, y) => x < y}
        BY <2>2, Zenon DEF MarksAre
      <4> HIDE DEF S, T
      <4>3. {x \in T : \A j \in 1 .. i - 1 : \A y \in drawn[j] : Together(article, x, y) => x < y}
              = {x \in S : \A j \in 1 .. i - 1 : \A y \in drawn[j] : Marks!SameNode(x, y) => x < y}
        BY <2>5, <4>1
      <4> QED BY <4>2, <4>3, Zenon DEF S
    <3>2. ASSUME NEW i \in DOMAIN u, i \in 1 .. Len(both)
          PROVE  i \in orphans <=> Marks!Found(both[i]) = {}
      <4>1. both[i] = u[i]
        BY <2>3
      <4>2. i \in orphans <=> FoundIn(article.text, u[i].anchor) = {}
        BY <2>2, Zenon DEF MovedAre
      <4> QED BY <2>4, <3>2, <4>1, <4>2
    <3> HIDE DEF u
    <3> QED BY <2>1, <2>3, <3>1, <3>2, Zenon DEF Marks!MarksOfLists, u
  <2>7. Marks!FoundAgain
    <3>1. \A i \in 1 .. Len(both) : GoodMark(both[i])
      BY <2>3, RememberedIs
    <3> QED BY <2>1, <2>2, <2>3, <3>1, GoodFound, Zenon DEF Marks!FoundAgain
  <2> QED BY <2>6, <2>7
<1> QED BY <1>1, <1>2

---------------------------------------------------------------------------
(* The page: in the behaviours of each component its invariant holds, and  *)
(* what the lists keep holds in all of them.                               *)

PageInv == /\ part \in Parts
           /\ ListsInv
           /\ part = "composers" => DraftsInv
           /\ part = "marks"     => MarksInv
           /\ part = "widgets"   => WidgetsInv
           /\ part = "cells"     => CellsInv
           /\ part = "figure"    => FigureInv
           /\ part = "shell"     => ShellInv

LEMMA PageStarts == PageInit => PageInv
<1> SUFFICES ASSUME PageInit PROVE PageInv
  OBVIOUS
<1>1. part \in Parts /\ ListsInv
  BY ListsInit, Zenon DEF PageInit
<1>2. part = "composers" => DraftsInv
  BY BoundsAssumption, DraftsInit, Zenon DEF PageInit
<1>3. part = "widgets" => WidgetsInv
  BY WidgetsInit, Zenon DEF PageInit
<1>4. part = "cells" => CellsInv
  BY CellsInit, Zenon DEF PageInit
<1>5. part = "figure" => FigureInv
  BY FigureInit, Zenon DEF PageInit
<1>6. part = "shell" => ShellInv
  BY ShellInit, Zenon DEF PageInit
<1>7. part = "marks" => MarksInv
  BY MarksStart, Zenon DEF PageInit
<1> QED BY <1>1, <1>2, <1>3, <1>4, <1>5, <1>6, <1>7, Zenon DEF PageInv

\* A step of the page is, for each component whose behaviour it is, a step of it.
LEMMA OwnSteps ==
  ASSUME [PageNext]_pageVars
  PROVE  /\ part' = part
         /\ [Next]_vars
         /\ part = "composers" => [Drafts!Next]_(Drafts!vars)
         /\ part = "marks"     => [Marks!Next]_(Marks!vars)
         /\ part = "widgets"   => [Widgets!Next]_(Widgets!vars)
         /\ part = "cells"     => [Python!Next]_(Python!vars)
         /\ part = "figure"    => [Figure!Next]_(Figure!vars)
         /\ part = "shell"     => [Reading!Next]_(Reading!vars)
<1>1. CASE PageNext
  BY <1>1, Zenon DEF PageNext, lists, vars
<1>2. CASE UNCHANGED pageVars
  <2>1. part' = part /\ UNCHANGED <<lists, composers, marks, widgets, cells, figure, shell>>
    BY <1>2, Zenon DEF pageVars
  <2>2. UNCHANGED vars
    BY <2>1, Zenon DEF lists, vars
  <2>3. UNCHANGED Drafts!vars
    BY <2>1, Zenon DEF composers, Drafts!vars
  <2>4. UNCHANGED Widgets!vars
    BY <2>1, Zenon DEF widgets, Widgets!vars, Widgets!menuVars, Widgets!buttonVars
  <2>5. UNCHANGED Python!vars
    BY <2>1, Zenon DEF cells, Python!vars, Python!load, Python!page, Python!python
  <2>6. UNCHANGED Figure!vars
    BY <2>1, Zenon DEF figure, Figure!vars, Figure!loading, Figure!settings, Figure!clock,
                            Figure!picture
  <2>7. UNCHANGED Reading!vars
    BY <2>1, Zenon
       DEF shell, Reading!vars, Reading!columns, Reading!overlays, Reading!search, Reading!scroll
  <2>8. UNCHANGED Marks!vars
    BY <2>1, Zenon DEF marks, Marks!vars
  <2> QED BY <2>1, <2>2, <2>3, <2>4, <2>5, <2>6, <2>7, <2>8, Zenon
<1> QED BY <1>1, <1>2, Zenon

LEMMA PageKeeps == PageInv /\ [PageNext]_pageVars => PageInv'
<1> SUFFICES ASSUME PageInv, [PageNext]_pageVars PROVE PageInv'
  OBVIOUS
<1>1. part' = part /\ part \in Parts /\ ListsInv'
  BY OwnSteps, ListsNext, Zenon DEF PageInv
<1>2. part = "composers" => DraftsInv'
  BY OwnSteps, BoundsAssumption, DraftsNext, Zenon DEF PageInv
<1>3. part = "widgets" => WidgetsInv'
  BY OwnSteps, WidgetsNext, Zenon DEF PageInv
<1>4. part = "cells" => CellsInv'
  BY OwnSteps, CellsNext, Zenon DEF PageInv
<1>5. part = "figure" => FigureInv'
  BY OwnSteps, FigureNext, Zenon DEF PageInv
<1>6. part = "shell" => ShellInv'
  BY OwnSteps, ShellNext, Zenon DEF PageInv
<1>7. part = "marks" => MarksInv'
  BY OwnSteps, MarksNext, Zenon DEF PageInv
<1> QED BY <1>1, <1>2, <1>3, <1>4, <1>5, <1>6, <1>7, Zenon DEF PageInv

---------------------------------------------------------------------------
(* The theorems.                                                           *)

\* The strengthened invariant holds on the page.
THEOREM Invariance == PageSpec => []PageInv
BY PageStarts, PageKeeps, PTL DEF PageSpec

\* The state of the lists keeps its types: what is on show is always a list.
THEOREM TypeCorrect == PageSpec => []TypeOK
BY Invariance, PTL DEF PageInv, ListsInv

\* Every list asked for once a write's answer had arrived shows the write, in
\* whatever order requests are served and answered, and whichever are lost.
THEOREM PageReadsItsWrites == PageSpec => []ReadsYourWrites
BY Invariance, PTL DEF PageInv, ListsInv

\* However typing, sending, cancelling, selecting and answers interleave, no text is
\* submitted twice, each is sent as what it was begun as, a note never in public, and
\* the popover never comes to bar every further selection.
THEOREM TextsSentAsBegun == PageSpec => []SentAsBegun
<1>1. PageInv => SentAsBegun
  BY DraftsSent, Zenon DEF PageInv, SentAsBegun
<1> QED BY <1>1, Invariance, PTL

\* The menu shows the list of the tab chosen last, and the button comes to be right
\* again after overlaps and errors, in whatever order requests are answered.
THEOREM WidgetsAreTrue == PageSpec => []WidgetsTrue
<1>1. PageInv => WidgetsTrue
  BY WidgetsShow, Zenon DEF PageInv, WidgetsTrue
<1> QED BY <1>1, Invariance, PTL

\* Charts name the CJK font only once the interpreter has it, and a program that
\* comes to an end does not fail for want of it, however fetches and runs overlap.
THEOREM FontHonoured == PageSpec => []StyledWithFont
<1>1. PageInv => StyledWithFont
  BY CellsSeen, Zenon DEF PageInv, StyledWithFont
<1> QED BY <1>1, Invariance, PTL

\* The interpreter is shared and keeps the figures of runs that raised, yet a cell
\* shows the figures of one run of its own, and of its latest run if it ran alone.
THEOREM CellsShowTheirRuns == PageSpec => []CellShowsItsRun
<1>1. PageInv => CellShowsItsRun
  BY CellsSeen, Zenon DEF PageInv, CellShowsItsRun
<1> QED BY <1>1, Invariance, PTL

\* No status line is left saying that something goes on in a cell that is quiet.
THEOREM ProgressIsTrue == PageSpec => []NoStaleProgress
<1>1. PageInv => NoStaleProgress
  BY CellsSeen, Zenon DEF PageInv, NoStaleProgress
<1> QED BY <1>1, Invariance, PTL

\* However play, pause, seek and mountFigures interleave with frames and imports,
\* there is one loop of frames, while playing only, and the figure mounts once.
THEOREM OneLoopOneMount == PageSpec => []OneLoop
<1>1. PageInv => OneLoop
  BY FigureSeen, Zenon DEF PageInv, OneLoop
<1> QED BY <1>1, Invariance, PTL

\* The picture is of the position the transport shows, and what was announced last
\* is what a figure at rest shows.
THEOREM PictureIsTold == PageSpec => []PictureTold
<1>1. PageInv => PictureTold
  BY FigureSeen, Zenon DEF PageInv, PictureTold
<1> QED BY <1>1, Invariance, PTL

\* Whatever was drawn, asked for or deleted before, the marks over the article are
\* those a page that starts anew with the same lists would draw, and the comments
\* said to have moved are those whose quote is nowhere in it.
THEOREM MarksAreOfLists == PageSpec => []MarksOfLists
<1>1. PageInv => MarksOfLists
  BY MarksShow, Zenon DEF PageInv, MarksOfLists
<1> QED BY <1>1, Invariance, PTL

\* A passage selected where it stands first, or alone, with no mark near, is found
\* there again in the version of the article it was selected in.
THEOREM PassagesFoundAgain == PageSpec => []FoundAgain
<1>1. PageInv => FoundAgain
  BY MarksShow, Zenon DEF PageInv, FoundAgain
<1> QED BY <1>1, Invariance, PTL

\* The page is held still while something is over it, of which there is one, however
\* the window is resized in between.
THEOREM OverlaysAreHeld == PageSpec => []OverlaysHold
<1>1. PageInv => OverlaysHold
  <2>1. ShellInv => Reading!OverlaysHold
    BY DEF ShellInv, Switches, Held, Reading!OverlaysHold, Reading!DrawerShown,
           Reading!TocDrawerShown
  <2> QED BY <2>1, Zenon DEF PageInv, OverlaysHold
<1> QED BY <1>1, Invariance, PTL

\* The active heading is that of the position once no event and no frame is due, and
\* the selection of the search dialog is 0 or of an item listed, unless an ArrowDown
\* over an empty list has made it -1 and no key, pointer or query has moved it since.
THEOREM ShellIsTrue == PageSpec => []ShellFollows
<1>1. PageInv => ShellFollows
  <2>1. ShellInv => Reading!ShellFollows
    BY Zenon DEF ShellInv, Framed, Selected, Reading!ShellFollows
  <2> QED BY <2>1, Zenon DEF PageInv, ShellFollows
<1> QED BY <1>1, Invariance, PTL
=============================================================================
