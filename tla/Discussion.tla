----------------------------- MODULE Discussion -----------------------------
(***************************************************************************)
(* What the comment sections promise their readers: a page holds threads,  *)
(* each a top-level comment with one level of replies. Posting, replying,  *)
(* editing and removing are single steps here; how the service splits them *)
(* into look-ups and writes is module CommentsAPI, which implements this.  *)
(***************************************************************************)
CONSTANTS Ids, Pages, Users, Bodies

VARIABLES content, \* the comments readers see: id -> page, thread, author, body
          roots,   \* every thread ever opened: id of its first comment -> page
          used     \* ids that were ever posted; none is posted again

vars == <<content, roots, used>>

Comment == [page: Pages, thread: Ids, author: Users, body: Bodies]

Init == /\ content = [i \in {} |-> i]
        /\ roots = [i \in {} |-> i]
        /\ used = {}

Publish(i, c) ==
  /\ used' = used \cup {i}
  /\ content' = [j \in DOMAIN content \cup {i} |-> IF j = i THEN c ELSE content[j]]

Post(i, page, author, body) ==
  /\ Publish(i, [page |-> page, thread |-> i, author |-> author, body |-> body])
  /\ roots' = [j \in DOMAIN roots \cup {i} |-> IF j = i THEN page ELSE roots[j]]

\* A thread stays open to replies after its first comment is removed.
Reply(i, thread, author, body) ==
  /\ thread \in DOMAIN roots
  /\ Publish(i, [page |-> roots[thread], thread |-> thread,
                 author |-> author, body |-> body])
  /\ UNCHANGED roots

Edit(i, body) ==
  /\ i \in DOMAIN content
  /\ content' = [content EXCEPT ![i].body = body]
  /\ UNCHANGED <<roots, used>>

Remove(i) ==
  /\ i \in DOMAIN content
  /\ content' = [j \in DOMAIN content \ {i} |-> content[j]]
  /\ UNCHANGED <<roots, used>>

\* A comment of an id that was never posted.
Speak(i) ==
  /\ i \notin used
  /\ \E author \in Users, body \in Bodies :
       \/ \E page \in Pages : Post(i, page, author, body)
       \/ \E thread \in Ids : Reply(i, thread, author, body)

Next == \E i \in Ids : \/ Speak(i)
                       \/ \E body \in Bodies : Edit(i, body)
                       \/ Remove(i)

Spec == Init /\ [][Next]_vars
===========================================================================
