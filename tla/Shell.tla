------------------------------- MODULE Shell -------------------------------
(***************************************************************************)
(* The reader shell of an open page, app/src/Reader.tsx: the viewport it   *)
(* adapts to, the columns and drawers, the hold on the page's scrolling,   *)
(* the search dialog, and the active heading that follows the scroll       *)
(* position through one animation frame.                                   *)
(*                                                                         *)
(* An event handler is one action together with the effects its state      *)
(* changes run. Left out: the settings panel and what it chooses (palette, *)
(* fonts, sizes), the widths of the columns, the progress ring, which is   *)
(* set with the active heading, and links that leave the page.             *)
(***************************************************************************)
EXTENDS Integers

CONSTANTS
  Sections,  \* the headings the page can be scrolled to
  Queries,   \* what can stand in the search field, "" among it
  Hits       \* items listed for each of them, the empty state's for ""

VARIABLES
  width,     \* the viewport: "phone", "narrow" or "wide"
  nav, toc,  \* the docked columns are open: settings, kept over visits
  drawer, tocDrawer, searchOpen,
  held,      \* document.body.style.overflow is "hidden"
  q, docs, sel,               \* SearchModal's: the query, the index, the selection
  early,     \* not in the code: ArrowDown moved the selection last, and nothing was listed
  pos,       \* the section at the top of the window
  told,      \* a scroll or resize event is due
  ticking, frame,             \* onScroll's flag, and the frame it has asked for
  active,    \* activeId
  shifted    \* the layout has changed since the last update, without an event

columns  == <<nav, toc>>
overlays == <<drawer, tocDrawer>>
search   == <<searchOpen, q, docs, sel, early>>
scroll   == <<pos, told, ticking, frame, active, shifted>>
vars     == <<width, columns, overlays, search, held, scroll>>

Mobile    == width = "phone"
TocDocked == width = "wide"

\* What is on the screen over the article.
DrawerShown    == Mobile /\ drawer
TocDrawerShown == ~TocDocked /\ tocDrawer

\* The dialog's state is that of its component: it begins anew with each opening.
NewSearch == q' = "" /\ docs' = "none" /\ sel' = 0 /\ early' = FALSE

NoSearch == searchOpen' = FALSE /\ NewSearch

Init ==
  /\ width \in {"phone", "narrow", "wide"}
  /\ nav \in BOOLEAN /\ toc \in BOOLEAN
  /\ drawer = FALSE /\ tocDrawer = FALSE /\ held = FALSE
  /\ searchOpen = FALSE /\ q = "" /\ docs = "none" /\ sel = 0 /\ early = FALSE
  /\ pos \in Sections /\ active = pos
  /\ told = FALSE /\ ticking = FALSE /\ frame = FALSE /\ shifted = FALSE

---------------------------------------------------------------------------
(* Drawers and columns                                                     *)

\* Mutants: a drawer opens beside the other; the second drawer does not hold the
\* page.
SidebarButton_Beside ==
  /\ IF Mobile THEN drawer' = ~drawer /\ UNCHANGED <<tocDrawer, columns>>
               ELSE nav' = ~nav /\ UNCHANGED <<toc, overlays>>
  /\ UNCHANGED <<width, search, scroll>>

Hold_Drawer == held' = (drawer' \/ searchOpen')

SidebarButton ==
  /\ IF Mobile THEN tocDrawer' = FALSE /\ drawer' = ~drawer /\ UNCHANGED columns
               ELSE nav' = ~nav /\ UNCHANGED <<toc, overlays>>
  /\ UNCHANGED <<width, search, scroll>>

TocButton ==
  /\ IF TocDocked THEN toc' = ~toc /\ UNCHANGED <<nav, overlays>>
                  ELSE drawer' = FALSE /\ tocDrawer' = ~tocDrawer /\ UNCHANGED columns
  /\ UNCHANGED <<width, search, scroll>>

\* The scrim, or a link of the drawer to another page.
LeaveDrawer ==
  /\ \/ DrawerShown /\ drawer' = FALSE /\ UNCHANGED tocDrawer
     \/ TocDrawerShown /\ tocDrawer' = FALSE /\ UNCHANGED drawer
  /\ UNCHANGED <<width, columns, search, scroll>>

\* onMq and onScroll, which listens for resizes too; lines wrap anew.
Resize ==
  /\ width' \in {"phone", "narrow", "wide"}
  /\ pos' \in Sections /\ told' = TRUE
  /\ UNCHANGED <<columns, overlays, search, ticking, frame, active, shifted>>

\* The effect of overlayOpen.
Hold == held' = (drawer' \/ tocDrawer' \/ searchOpen')

---------------------------------------------------------------------------
(* The search dialog                                                       *)

Items == IF docs = "index" THEN Hits[q] ELSE 0

OpenSearch == /\ ~searchOpen
              /\ searchOpen' = TRUE /\ NewSearch
              /\ UNCHANGED <<width, columns, overlays, scroll>>

\* Escape, the backdrop, or the chord that opened it.
CloseSearch == /\ searchOpen
               /\ NoSearch
               /\ UNCHANGED <<width, columns, overlays, scroll>>

IndexArrives == /\ searchOpen /\ docs = "none"
                /\ docs' \in {"index", "empty"}
                /\ UNCHANGED <<searchOpen, q, sel, early>>

\* Mutant: the selection is not taken back when the results change.
Type_Stays == /\ searchOpen
              /\ q' \in Queries \ {q}
              /\ UNCHANGED <<searchOpen, docs, sel, early>>

Type == /\ searchOpen
        /\ q' \in Queries \ {q} /\ sel' = 0 /\ early' = FALSE
        /\ UNCHANGED <<searchOpen, docs>>

ArrowDown == /\ sel' = IF sel + 1 < Items THEN sel + 1 ELSE Items - 1
             /\ early' = (Items = 0)

ArrowUp == /\ sel' = IF sel > 0 THEN sel - 1 ELSE 0
           /\ early' = FALSE

Hover == sel' \in 0 .. Items - 1 /\ early' = FALSE

Select == /\ searchOpen
          /\ ArrowDown \/ ArrowUp \/ Hover
          /\ UNCHANGED <<searchOpen, q, docs>>

InDialog == /\ IndexArrives \/ Type \/ Select
            /\ UNCHANGED <<width, columns, overlays, scroll>>

---------------------------------------------------------------------------
(* The scroll position and the active heading                              *)

MoveTo(section) == pos' = section /\ told' = TRUE

Scroll == /\ ~held
          /\ \E section \in Sections \ {pos} : MoveTo(section)
          /\ UNCHANGED <<width, columns, overlays, search,
                         ticking, frame, active, shifted>>

\* A heading in the column or the drawer, which it closes.
FollowHeading ==
  /\ TocDrawerShown \/ (TocDocked /\ toc)
  /\ \E section \in Sections : MoveTo(section)
  /\ tocDrawer' = (tocDrawer /\ TocDocked)
  /\ UNCHANGED <<width, columns, drawer, search, ticking, frame, active, shifted>>

\* A hit in the page that is open: the address changes, the dialog stays.
FollowHit ==
  /\ searchOpen /\ sel \in 0 .. Items - 1
  /\ \E section \in Sections : MoveTo(section)
  /\ UNCHANGED <<width, columns, overlays, search,
                 ticking, frame, active, shifted>>

OnScroll == /\ told
            /\ told' = FALSE
            /\ ticking' = TRUE
            /\ frame' = (frame \/ ~ticking)
            /\ UNCHANGED <<width, columns, overlays, search,
                           pos, active, shifted>>

\* Mutant: the flag is never taken back.
Update_Ticking == /\ frame /\ frame' = FALSE
                  /\ active' = pos /\ shifted' = FALSE
                  /\ UNCHANGED <<width, columns, overlays, search,
                                 pos, told, ticking>>

Update == /\ frame /\ frame' = FALSE
          /\ ticking' = FALSE
          /\ active' = pos /\ shifted' = FALSE
          /\ UNCHANGED <<width, columns, overlays, search, pos, told>>

\* A figure mounts, a picture loads or the comments arrive above the window.
LayoutShifts ==
  /\ \E section \in Sections \ {pos} : pos' = section /\ shifted' = TRUE
  /\ UNCHANGED <<width, columns, overlays, search,
                 told, ticking, frame, active>>

Next == /\ \/ SidebarButton \/ TocButton \/ LeaveDrawer \/ Resize
           \/ OpenSearch \/ CloseSearch \/ InDialog
           \/ Scroll \/ FollowHeading \/ FollowHit \/ OnScroll \/ Update \/ LayoutShifts
        /\ Hold

Spec == Init /\ [][Next]_vars

---------------------------------------------------------------------------
(* However the window is resized while they are open, the two drawers are  *)
(* never over the article together, and the page does not scroll under a   *)
(* drawer or the dialog (Reader.tsx:192-193).                              *)
OverlaysHold == /\ ~(DrawerShown /\ TocDrawerShown)
                /\ DrawerShown \/ TocDrawerShown \/ searchOpen => held

(* The page is held still while a drawer or the dialog is open, and only   *)
(* then (Reader.tsx:192-193, "meanwhile"): it can be scrolled whenever     *)
(* nothing is over it.                                                     *)
HeldMeanwhile == held => DrawerShown \/ TocDrawerShown \/ searchOpen

(* Scroll events that come while a frame is due are dropped, yet the       *)
(* active heading is that of the position once no event and no frame is    *)
(* due, unless the layout has shifted since without an event.              *)
HeadingFollows == ~told /\ ~frame /\ ~shifted => active = pos

(* "Keep the selection in range as results change" (Reader.tsx:531): while *)
(* items are listed, the selection is one of them, the one that is         *)
(* highlighted and that Enter opens.                                       *)
SelectionInRange == Items > 0 => sel \in 0 .. Items - 1

(* The items change with the query and with the index, the selection with  *)
(* keys and pointer. The selection is 0 or of an item listed, but for one  *)
(* case: an ArrowDown while nothing is listed makes it -1, and it is -1    *)
(* until the next key, pointer or query, whatever is listed meanwhile.     *)
SelectionWithin == IF early THEN sel = -1 ELSE sel = 0 \/ sel \in 0 .. Items - 1

\* What the page tells of the position is true, and of the hits but for that case.
ShellFollows == HeadingFollows /\ SelectionWithin
============================================================================
