------------------------------- MODULE MCPage -------------------------------
(* An instance of Page for TLC.                                            *)
EXTENDS Page, TLC

\* A post, a deletion and a private note.
OfEachSort == "p" :> "post" @@ "d" :> "delete" @@ "n" :> "note"

\* A paragraph with an element in it, where passages stand twice, and the
\* same paragraph cut, with a letter more at its start.
Paragraph  == [text |-> <<"a", "b", "a", "b", "a">>, breaks |-> {4}]
Revised    == [text |-> <<"b", "a", "b", "c">>, breaks |-> {3}]
MCArticles == {Paragraph, Revised}

Chart(cjk, outcome) ==
  [pkgs |-> TRUE, mpl |-> TRUE, cjk |-> cjk, draws |-> TRUE, outcome |-> outcome]

\* A cell that prints, one that only prints but mentions matplotlib and CJK
\* text, and charts that end in each of the ways a chart can.
Text     == [pkgs |-> FALSE, mpl |-> FALSE, cjk |-> FALSE, draws |-> FALSE,
             outcome |-> "ends"]
CjkText  == [Chart(TRUE, "ends") EXCEPT !.draws = FALSE]
Programs == {Text, CjkText, Chart(FALSE, "ends"), Chart(TRUE, "ends"),
             Chart(FALSE, "raises"), Chart(FALSE, "badfigure"), Chart(FALSE, "badsvg")}

\* A short and a longer timeline that a parameter switches between.
Durations == "short" :> 4 @@ "long" :> 6
KeysOf   == "short" :> {2} @@ "long" :> {0, 2, 6}

\* Two sections; a query with two hits and one with none.
MCHits == "" :> 1 @@ "x" :> 2 @@ "y" :> 0
=============================================================================
