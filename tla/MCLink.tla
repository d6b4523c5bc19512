------------------------------- MODULE MCLink -------------------------------
(***************************************************************************)
(* An instance of Link for TLC.                                            *)
(***************************************************************************)
EXTENDS Link

Done    == [tag |-> 15, raw |-> <<12>>]
Refused == [tag |-> 11, raw |-> <<1>>]
Uid     == [tag |-> 153, raw |-> <<26, 15>>] \* it says its length; its payload
                                            \* looks like a frame's beginning
Novel   == [tag |-> 2, raw |-> <<15, 1>>]   \* a tag the table does not have

Answers   == {Uid, Novel}
Replies   == Answers \cup {Done, Refused}
Leftovers == {<<15, 12>>}                   \* the end of an older frame
=============================================================================
