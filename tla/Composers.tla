----------------------------- MODULE Composers -----------------------------
(***************************************************************************)
(* What the reader types in the comment section (src/app/src/comments.tsx):*)
(* the composer above the list, the one under a thread, the one in place   *)
(* of a comment being edited, and the popover over a selected passage that *)
(* becomes a mark or a private note. A handler awaits the answer to its    *)
(* write and then closes what it finds open. CommentsView has the lists    *)
(* and the rest of the handlers. One comment is edited at a time.          *)
(*                                                                         *)
(* A text is known by its number and a passage by its name; each composer  *)
(* holds one text or none. Of the lists only whether they have any thread  *)
(* matters here: a list that failed has none.                              *)
(***************************************************************************)
EXTENDS Naturals, FiniteSets, Sequences

CONSTANTS Passages,  \* what the reader may select in the article
          Comments,  \* comments the reader may answer or edit
          MaxTexts,  \* bound: texts the reader begins
          MaxPosts   \* bound: writes under way

VARIABLES open,      \* place -> what its composer is about, or Nothing
          mark,      \* the passage selected, or Nothing
          text,      \* place -> the number of the text in its composer, or 0
          texts,     \* texts begun so far
          aim,       \* text -> what the composer it was begun in was about
          posts,     \* writes whose answers have not come
          listed     \* the list on show has its threads

vars == <<open, mark, text, texts, aim, posts, listed>>

Nothing == "none"
Places  == {"top", "reply", "edit", "popover"}

\* replyTo, editing and composing.
Subjects(place) == CASE place = "top"     -> {"page"}
                     [] place = "popover" -> {"comment", "note"}
                     [] OTHER             -> Comments

\* A composer is on the page: its text lives as long as that.
OnShow(place) == /\ open[place] # Nothing
                 /\ place \in {"reply", "edit"} => listed
                 /\ place = "popover" => mark # Nothing

\* What a text would be sent as.
Aim(place) == [place |-> place, subject |-> open[place],
               passage |-> IF place = "popover" THEN mark ELSE Nothing]

TypeOK == /\ \A place \in Places : open[place] \in Subjects(place) \cup {Nothing}
          /\ mark \in Passages \cup {Nothing}
          /\ texts \in 0 .. MaxTexts
          /\ text \in [Places -> 0 .. texts] /\ DOMAIN aim = 1 .. texts
          /\ \A post \in posts : post.text \in DOMAIN aim
          /\ listed \in BOOLEAN

Init == /\ open = [place \in Places |-> IF place = "top" THEN "page" ELSE Nothing]
        /\ mark = Nothing
        /\ text = [place \in Places |-> 0]
        /\ texts = 0 /\ aim = << >> /\ posts = {}
        /\ listed \in BOOLEAN

\* A composer that leaves the page, or is another's now, takes its text along.
Kept(closed) == text' = [place \in Places |-> IF place \in closed THEN 0 ELSE text[place]]

----------------------------------------------------------------------------
(* The reader.                                                             *)

\* Mutant: the selection is followed while the popover's composer is open.
Select_Always == /\ \E passage \in Passages \cup {Nothing} : mark' = passage
                 /\ Kept({place \in {"popover"} : mark' = Nothing})
                 /\ UNCHANGED <<open, texts, aim, posts, listed>>

\* check: a selection is taken, or given up, only while nothing is composed.
Select == /\ open["popover"] = Nothing
          /\ \E passage \in Passages \cup {Nothing} : mark' = passage
          /\ UNCHANGED <<open, text, texts, aim, posts, listed>>

\* The buttons: Reply and Edit of a comment, Comment and Note of a selection.
Open(place) == /\ place # "top"
               /\ place \in {"reply", "edit"} => listed
               /\ place = "edit" => open[place] = Nothing
               /\ place = "popover" => mark # Nothing /\ open[place] = Nothing
               /\ \E subject \in Subjects(place) \ {open[place]} :
                    open' = [open EXCEPT ![place] = subject]
               /\ Kept({place})
               /\ UNCHANGED <<mark, texts, aim, posts, listed>>

Cancel(place) == /\ place # "top" /\ OnShow(place)
                 /\ open' = [open EXCEPT ![place] = Nothing]
                 /\ mark' = IF place = "popover" THEN Nothing ELSE mark
                 /\ Kept({place})
                 /\ UNCHANGED <<texts, aim, posts, listed>>

Type(place) == /\ OnShow(place) /\ text[place] = 0
               /\ texts < MaxTexts
               /\ texts' = texts + 1
               /\ text' = [text EXCEPT ![place] = texts + 1]
               /\ aim' = Append(aim, Aim(place))
               /\ UNCHANGED <<open, mark, posts, listed>>

Sends(place) == /\ OnShow(place) /\ text[place] # 0
                /\ Cardinality(posts) < MaxPosts
                /\ posts' = posts \cup {[text |-> text[place], aim |-> Aim(place),
                                         gone |-> FALSE]}

\* Mutant: the text goes when the answer comes.
Submit_TextStays(place) == /\ Sends(place)
                           /\ UNCHANGED <<open, mark, text, texts, aim, listed>>

\* submit: the text is handed over and its composer emptied at once.
Submit(place) == /\ Sends(place)
                 /\ Kept({place})
                 /\ UNCHANGED <<open, mark, texts, aim, listed>>

----------------------------------------------------------------------------
(* The answers.                                                            *)

\* What an answer closes: postNote the popover, post the composer under a
\* thread as well, whether or not they are where the text came from.
Closed(place, subject) ==
  CASE place = "edit" -> {"edit"}
    [] place = "popover" /\ subject = "note" -> {"popover"}
    [] OTHER -> {"reply", "popover"}

\* An edit closes the composer of its own comment, if that is still on the page.
Answered(post) ==
  LET closed == {place \in Closed(post.aim.place, post.aim.subject) :
                   place = "edit" => open["edit"] = post.aim.subject /\ ~post.gone}
  IN /\ posts' = posts \ {post}
     /\ open' = [place \in Places |-> IF place \in closed THEN Nothing ELSE open[place]]
     /\ mark' = IF "popover" \in closed THEN Nothing ELSE mark
     /\ Kept(closed)
     /\ UNCHANGED <<texts, aim, listed>>

\* A post that is refused, or any write that is lost, ends its handler.
Failed(post) == /\ posts' = posts \ {post}
                /\ UNCHANGED <<open, mark, text, texts, aim, listed>>

\* A list request is answered, or fails and empties the list: the comments go
\* with the composers in their place; which thread was being answered stays.
Refreshed == /\ listed' = ~listed
             /\ IF listed' THEN UNCHANGED <<open, text, posts>>
                ELSE /\ open' = [open EXCEPT !["edit"] = Nothing]
                     /\ Kept({"reply", "edit"})
                     /\ posts' = {[post EXCEPT !.gone = TRUE] : post \in posts}
             /\ UNCHANGED <<mark, texts, aim>>

Next == \/ Select \/ Refreshed
        \/ \E place \in Places :
             Open(place) \/ Cancel(place) \/ Type(place) \/ Submit(place)
        \/ \E post \in posts : Answered(post) \/ Failed(post)

Spec == Init /\ [][Next]_vars

----------------------------------------------------------------------------
(* Properties.                                                             *)

Holding(n) == Cardinality({place \in Places : text[place] = n})
                + Cardinality({post \in posts : post.text = n})

\* A text is in one composer or in one write, never in both and never in two:
\* a second click while the answer is awaited does not post it again.
OneSubmission == TypeOK /\ \A n \in 1 .. texts : Holding(n) <= 1

\* A text is sent as what it was begun as: under the same comment, for the same
\* passage, and a private note never as a public comment, whatever was
\* selected, opened, closed and answered since.
SentAsBegun == /\ \A post \in posts : aim[post.text] = post.aim
               /\ \A place \in Places : text[place] # 0 => aim[text[place]] = Aim(place)

\* The popover is never left composing about no passage: it would not be on
\* the page, and while it composes no selection is taken, so none could follow.
NeverStuck == open["popover"] # Nothing => mark # Nothing
=============================================================================
