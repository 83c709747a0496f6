--------------------------- MODULE AccountWidgets ---------------------------
(***************************************************************************)
(* The account widgets of an open page (src/app/src/account.tsx): the menu *)
(* of the signed-in reader, whose tabs ask for a list each time they are   *)
(* chosen, and the bookmark button, set by the list of bookmarks and by    *)
(* the answers to its toggles. No answer is tied to what was asked last.   *)
(*                                                                         *)
(* The server is one bit, whether the page is bookmarked (Account models   *)
(* the statements); only this page toggles it. A list is the tab it is of. *)
(***************************************************************************)
EXTENDS Naturals

CONSTANTS MaxAsks,    \* bound: times a tab is chosen
          MaxToggles  \* bound: clicks on the button

VARIABLES me,      \* the shared answer to /api/me: "asked", "reader", "nobody"
          menu,    \* "closed", the tab on show, or "gone" with the header
          items,   \* the tab whose list is on show, "none" or "empty"
          asked,   \* lists asked for since the menu opened; they are numbered
          asks,    \* list requests under way
          shown,   \* the number of the request whose answer is on show
          on,      \* what the button shows
          saved,   \* the page is bookmarked
          toggles, \* clicks so far
          calls,   \* the button's requests under way
          sure,    \* the button's last request was alone under way and answered
          spent    \* tabs chosen so far

menuVars   == <<menu, items, asked, asks, shown, spent>>
buttonVars == <<on, saved, toggles, calls, sure>>
vars       == <<me, menuVars, buttonVars>>

Tabs == {"bookmarks", "comments", "notes"}

Call == [n: 0 .. MaxToggles, alone: BOOLEAN,
         served: BOOLEAN, answer: BOOLEAN]

TypeOK == /\ me \in {"asked", "reader", "nobody"}
          /\ menu \in Tabs \cup {"closed", "gone"}
          /\ items \in Tabs \cup {"none", "empty"}
          /\ asks \subseteq [n: 1 .. MaxAsks, tab: Tabs]
          /\ on \in BOOLEAN /\ saved \in BOOLEAN /\ sure \in BOOLEAN
          /\ calls \subseteq Call

Init == /\ me = "asked"
        /\ menu = "closed" /\ items = "none" /\ spent = 0
        /\ asked = 0 /\ asks = {} /\ shown = 0
        /\ on = FALSE /\ saved \in BOOLEAN
        /\ toggles = 0 /\ calls = {} /\ sure = FALSE

\* useMe: every widget awaits one request; the button then asks for its list.
Me == /\ me = "asked"
      /\ \/ me' = "nobody" /\ UNCHANGED calls
         \/ me' = "reader" /\ calls' = {[n |-> 0, alone |-> TRUE, served |-> FALSE, answer |-> FALSE]}
      /\ UNCHANGED <<menuVars, on, saved, toggles, sure>>

---------------------------------------------------------------------------
(* The menu.                                                               *)

\* Mutant: the list is asked for when the menu opens, and not again.
Choose_Once(tab) ==
  /\ menu' = tab /\ spent' = spent + 1
  /\ IF menu = "closed" THEN /\ items' = "none" /\ asked' = 1
                             /\ asks' = {[n |-> 1, tab |-> tab]}
                        ELSE UNCHANGED <<items, asked, asks>>
  /\ UNCHANGED shown

\* The effect on [tab]: what is on show goes, the tab's list is asked for.
Choose(tab) ==
  /\ menu' = tab /\ items' = "none" /\ spent' = spent + 1
  /\ asked' = asked + 1
  /\ asks' = asks \cup {[n |-> asked + 1, tab |-> tab]}
  /\ UNCHANGED shown

OpenMenu == /\ me = "reader" /\ menu = "closed" /\ spent < MaxAsks
            /\ Choose("bookmarks")
            /\ UNCHANGED <<me, buttonVars>>

ChooseTab == /\ menu \in Tabs /\ spent < MaxAsks
             /\ \E tab \in Tabs \ {menu} : Choose(tab)
             /\ UNCHANGED <<me, buttonVars>>

\* The menu is unmounted; answers to what it asked for change nothing.
CloseMenu == /\ menu \in Tabs
             /\ menu' = "closed" /\ items' = "none"
             /\ asked' = 0 /\ asks' = {} /\ shown' = 0
             /\ UNCHANGED <<me, spent, buttonVars>>

\* A list, or the empty one if none came.
ItemsCome(ask) == /\ ask \in asks
                  /\ asks' = asks \ {ask}
                  /\ items' \in {ask.tab, "empty"} /\ shown' = ask.n
                  /\ UNCHANGED <<me, menu, asked, spent, buttonVars>>

\* An error body is no list: rendering it throws, and Contained takes the header
\* away.
HeaderFails(ask) == /\ ask \in asks
                    /\ asks' = {} /\ asked' = 0 /\ shown' = 0
                    /\ menu' = "gone" /\ items' = "none"
                    /\ UNCHANGED <<me, spent, buttonVars>>

---------------------------------------------------------------------------
(* The button.                                                             *)

Toggle == /\ me = "reader" /\ toggles < MaxToggles
          /\ toggles' = toggles + 1
          /\ calls' = {[call EXCEPT !.alone = FALSE] : call \in calls} \cup
                        {[n |-> toggles + 1, alone |-> calls = {}, served |-> FALSE, answer |-> FALSE]}
          /\ sure' = FALSE
          /\ UNCHANGED <<me, menuVars, on, saved>>

\* The server reads, or flips and reads, in some order of its own.
Carry(call) ==
  /\ ~call.served
  /\ saved' = IF call.n = 0 THEN saved ELSE ~saved
  /\ calls' = (calls \ {call}) \cup {[call EXCEPT !.served = TRUE, !.answer = saved']}
  /\ UNCHANGED <<me, menuVars, on, toggles, sure>>

\* Mutant: the button flips what it shows.
Shows_Flipped(call) == IF call.n = 0 THEN call.answer ELSE ~on

\* The answer says what to show.
Shows(call) == call.answer

Answered(call) ==
  /\ call.served
  /\ on' = Shows(call) /\ sure' = call.alone
  /\ calls' = calls \ {call}
  /\ UNCHANGED <<me, menuVars, saved, toggles>>

\* No answer changes nothing; the error body of a toggle says of no bookmark,
\* and the button shows none.
Failed(call) ==
  /\ on' \in {on} \cup IF call.n > 0 THEN {FALSE} ELSE {}
  /\ calls' = calls \ {call}
  /\ UNCHANGED <<me, menuVars, saved, toggles, sure>>

---------------------------------------------------------------------------
Next == \/ Me \/ OpenMenu \/ ChooseTab \/ CloseMenu \/ Toggle
        \/ \E ask \in asks : ItemsCome(ask) \/ HeaderFails(ask)
        \/ \E call \in calls : Carry(call) \/ Answered(call) \/ Failed(call)

Spec == Init /\ [][Next]_vars

---------------------------------------------------------------------------
(* Properties.                                                             *)

\* When the list asked for last has come last, it is the list of the chosen tab,
\* however the tabs were chosen and the answers lost meanwhile. An older answer
\* that comes later puts another tab's list under the chosen one.
ItemsOfTab == (asked > 0 /\ shown = asked) => items \in {menu, "empty"}

\* A button whose last request was the only one under way shows what the server
\* has, also after requests that overlapped, failed or were refused. Overlapping
\* ones may be answered out of order, and leave it wrong.
ButtonTrue == TypeOK /\ (sure /\ calls = {} => on = saved)
=============================================================================
