------------------------------ MODULE MCLayout ------------------------------
(***************************************************************************)
(* An instance of Layout for TLC: every row of up to three of the          *)
(* elements, and a code with three more.                                   *)
(***************************************************************************)
EXTENDS Layout

Of(kind, size, flex) ==
    [kind |-> kind, size |-> size, flex |-> flex, glyph |-> 0, line |-> 0, align |-> "left"]

Text(size, flex, glyph, align) ==
    [kind |-> "text", size |-> size, flex |-> flex, glyph |-> glyph, line |-> 5, align |-> align]

Elements == {Of("qr", 3, 0), Of("qr", 4, 1), Of("barcode", 9, 0), Text(5, 1, 2, "center"),
             Text(12, 2, 4, "right"), Of("contain", 7, 1), Of("cover", 7, 1), Of("stretch", 7, 1)}

Caption == {Text(5, 1, 2, "left"), Text(3, 0, 3, "left"), Of("barcode", 2, 1)}

\* Text of which no line fits across the tape.
Tall == [Text(5, 1, 2, "left") EXCEPT !.line = 15]

All == Elements \cup Caption \cup {Of("qr", 6, 0), Tall}

UpToThree == UNION {[1..n -> Elements] : n \in 1..3}

Captioned == {<<Of("qr", 6, 0)>> \o s : s \in [1..3 -> Caption]}

AllRows == UpToThree \cup Captioned \cup {<<Tall>>}

Labels == [modules : 3..9, lines : {<<>>, <<3>>, <<4, 2>>, <<4, 3, 2>>}]

Lengths == {1, 3, 4, 9, 13, 15, 16, 17, 19, 20, 22, 23, 26, 28, 29, 30, 31, 40}
=============================================================================
