------------------------------- MODULE MCTurn -------------------------------
(* The responses that Turn is checked with: every way of having words or not. *)
EXTENDS Turn

CallOf(name, spoken, object) == [name |-> name, spoken |-> spoken, object |-> object]
Express == CallOf("express", TRUE, TRUE)
Wordless == CallOf("express", FALSE, TRUE)
NoObject == CallOf("express", FALSE, FALSE)
Motion == CallOf("motion", FALSE, TRUE)
Direction == CallOf("informational", FALSE, TRUE)

With(text, calls) == [text |-> text, calls |-> calls]

MCResponses ==
    {With(TRUE, <<>>), With(FALSE, <<>>),
     With(FALSE, <<Express>>), With(FALSE, <<Motion, Express>>),
     With(FALSE, <<Express, Direction>>), With(TRUE, <<Motion>>),
     With(FALSE, <<Wordless, Express>>), With(FALSE, <<NoObject>>)}
=============================================================================
