------------------------------- MODULE Layout -------------------------------
(***************************************************************************)
(* How one label is laid out (render/), in pixels along the tape.          *)
(*                                                                         *)
(* A horizontal label is a row of elements (layout.BoxLayout, elements).   *)
(* On tape without a pitch a first pass measures the row to find the       *)
(* label's length; the drawing pass measures it again, shares the pixels   *)
(* out (_distribute) and draws each element in the box it was granted.     *)
(* A vertical label is a code over lines of text (vertical.py).            *)
(*                                                                         *)
(* The font decides how wide text is, and the payload how many modules a   *)
(* code has: here each is a number that comes with the element.  A text    *)
(* also has a glyph, the widest piece that _wrap and _fit leave unmeasured *)
(* (a letter on its own, an ellipsis), and a line, the height of one at    *)
(* its smallest size.                                                      *)
(***************************************************************************)
EXTENDS Integers, Sequences, FiniteSets

CONSTANTS
    Element,   \* the elements a row may be made of
    Rows,      \* the rows to lay out: sequences of elements
    Columns,   \* the vertical labels: [modules, lines]
    Pinned,    \* the lengths a label may be given
    Tape,      \* pixels across the tape
    Gap, Padding,
    MinAuto, MaxAuto  \* what an auto label is at least and at most

MIN_QR_MODULE_PX == 2
LINE_GAP_PX      == 1
AUTO             == 0

Kind  == {"qr", "barcode", "text", "contain", "cover", "stretch"}
Align == {"left", "center", "right"}

ASSUME LayoutAssumption ==
    /\ Element \subseteq [kind : Kind, size : Nat \ {0}, flex : Nat,
                          glyph : Nat, line : Nat, align : Align]
    /\ Rows \subseteq Seq(Element)
    /\ Columns # {} /\ Columns \subseteq [modules : Nat \ {0}, lines : Seq(Nat \ {0})]
    /\ Pinned \subseteq Nat \ {0}
    /\ {Tape, Gap, Padding, MinAuto, MaxAuto} \subseteq Nat
    /\ MinAuto <= MaxAuto

VARIABLES
    row,      \* the row's elements, <<>> for a vertical label
    column,   \* the vertical label
    pinned,   \* the length asked for, or AUTO
    length,   \* the canvas
    pc,       \* the pass: "measure", "draw", "place", "column"; "done", "refused"
    natural,  \* what the elements measured in this pass
    sizes,    \* what they are granted
    cursor,   \* where the next one starts
    boxes,    \* what has been drawn: each one's box and the ink in it
    edges     \* a vertical label's code: where its modules begin

vars == <<row, column, pinned, length, pc, natural, sizes, cursor, boxes, edges>>

\* render_label: a label is vertical, or a row that takes the length asked for.
Init ==
    /\ \/ row \in Rows /\ pinned \in Pinned \cup {AUTO}
          /\ pc = IF pinned = AUTO THEN "measure" ELSE "draw"
       \/ row = <<>> /\ pinned \in Pinned \cup {AUTO} /\ pc = "column"
    /\ IF pc = "column" THEN column \in Columns ELSE column = CHOOSE c \in Columns : TRUE
    /\ length = pinned
    /\ natural = <<>> /\ sizes = <<>> /\ cursor = 0 /\ boxes = <<>> /\ edges = <<>>

-----------------------------------------------------------------------------
AtLeast(a, b) == IF a > b THEN a ELSE b
AtMost(a, b)  == IF a < b THEN a ELSE b

\* Sums(s)[n] adds up the first n of s.
Sums(s) ==
    LET sum[n \in Nat] == IF n = 0 THEN 0 ELSE sum[n - 1] + s[n]
    IN  sum

Total(s) == Sums(s)[Len(s)]

Across == AtLeast(0, Tape - 2 * Padding)

\* _inner and _gaps: what a row has for its elements.
Budget(w) == AtLeast(0, w - 2 * Padding) - Gap * (Len(row) - 1)

Refuse ==
    /\ pc' = "refused"
    /\ UNCHANGED <<row, column, pinned, length, natural, sizes, cursor, boxes, edges>>

(***************************************************************************)
(* The elements' measure().  A code has a whole number of pixels to the    *)
(* module, at least MIN_QR_MODULE_PX; bars are as wide as they are; a      *)
(* picture keeps its proportions or, stretched, takes the room as it is,   *)
(* which is negative when the gaps are wider than the label.               *)
(***************************************************************************)
Module(e, w) == AtMost(w, Across) \div e.size

\* What an element is wide on its own: nothing, where there is no height.
Wide(e) == IF Across > 0 THEN e.size ELSE 0

DoesNotFit(e, avail) ==
    \/ e.kind = "qr" /\ Module(e, avail) < MIN_QR_MODULE_PX
    \/ e.kind = "barcode" /\ Across > 0 /\ e.size > avail

MeasureUnguarded(e, avail) == AtMost(avail, e.size)

CodeWidth(e, avail) == Module(e, avail) * e.size

TextWidth(e, avail) == AtMost(AtLeast(0, avail), Wide(e))

PictureWidth(e, avail) ==
    CASE e.kind = "stretch" -> avail
      [] e.kind = "cover"   -> AtLeast(1, AtLeast(avail, Wide(e)))
      [] OTHER              -> AtLeast(1, AtMost(avail, Wide(e)))

Measure(e, avail) ==
    CASE e.kind = "qr"      -> CodeWidth(e, avail)
      [] e.kind = "barcode" -> Wide(e)
      [] e.kind = "text"    -> TextWidth(e, avail)
      [] OTHER              -> PictureWidth(e, avail)

MeasureWith(avail) ==
    /\ Len(natural) < Len(row)
    /\ LET e == row[Len(natural) + 1]
       IN  IF DoesNotFit(e, avail) THEN Refuse
           ELSE /\ natural' = Append(natural, Measure(e, avail))
                /\ UNCHANGED <<row, column, pinned, length, pc, sizes, cursor, boxes, edges>>

\* BoxLayout.measure: each element in what those before it have left.
MeasureNext ==
    /\ pc = "measure"
    /\ MeasureWith(AtLeast(0, Budget(MaxAuto) - Total(natural)))

ContentUnpadded == Total(natural) + Gap * (Len(row) - 1)

Content == Total(natural) + Gap * (Len(row) - 1) + 2 * Padding

\* compose: the canvas of an auto label.
SizeToContent ==
    /\ pc = "measure" /\ Len(natural) = Len(row)
    /\ length' = AtLeast(MinAuto, AtMost(Content, MaxAuto))
    /\ pc' = "draw" /\ natural' = <<>>
    /\ UNCHANGED <<row, column, pinned, sizes, cursor, boxes, edges>>

\* BoxLayout.draw: each element in all there is.
MeasureAgain ==
    /\ pc = "draw"
    /\ MeasureWith(Budget(length))

-----------------------------------------------------------------------------
(***************************************************************************)
(* _distribute                                                             *)
(***************************************************************************)
Magnitude(x) == IF x < 0 THEN -x ELSE x

\* int(a / b): rounded toward zero.
Cut(a, b) ==
    LET q == Magnitude(a) \div Magnitude(b)
    IN  IF (a < 0) = (b < 0) THEN q ELSE -q

\* total or 1: what is divided by.
OrOne(total) == IF total = 0 THEN 1 ELSE total

Elastic == {i \in 1..Len(row) : row[i].flex > 0}

Flexes == [i \in 1..Len(row) |-> row[i].flex]

Greediest == CHOOSE i \in DOMAIN row :
                \A j \in DOMAIN row : row[j].flex < row[i].flex
                                      \/ (row[j].flex = row[i].flex /\ i <= j)

\* A surplus goes by weight; what rounding leaves, to the greediest.
GrownRounded(over) ==
    [i \in 1..Len(row) |-> natural[i] + (over * row[i].flex) \div Total(Flexes)]

Grown(over) ==
    LET s == GrownRounded(over)
    IN  [s EXCEPT ![Greediest] = @ + over - (Total(s) - Total(natural))]

YieldedByAll(short) ==
    [i \in 1..Len(row) |-> natural[i] - Cut(short * natural[i], OrOne(Total(natural)))]

\* What the flexible children have.
ElasticTotal == Total([i \in 1..Len(row) |-> IF i \in Elastic THEN natural[i] ELSE 0])

\* A deficit comes from the flexible children ...
Yielded(short) ==
    LET take == AtMost(short, ElasticTotal)
    IN  [i \in 1..Len(row) |->
            IF i \in Elastic /\ ElasticTotal > 0
            THEN natural[i] - Cut(take * natural[i], ElasticTotal) ELSE natural[i]]

SqueezedNot(s, over) == s

\* ... and what they cannot give, or rounding did not take, from all.
Squeezed(s, over) ==
    [i \in 1..Len(row) |-> AtLeast(0, s[i] - Cut(over * s[i], OrOne(Total(s))))]

Shares(budget) ==
    LET leftover == budget - Total(natural)
        yielded  == Yielded(-leftover)
    IN  CASE leftover > 0 -> IF Elastic = {} THEN natural ELSE Grown(leftover)
          [] leftover < 0 -> IF Total(yielded) > budget
                             THEN Squeezed(yielded, Total(yielded) - budget) ELSE yielded
          [] OTHER        -> natural

Distribute ==
    /\ pc = "draw" /\ Len(natural) = Len(row)
    /\ sizes' = Shares(Budget(length))
    /\ pc' = "place" /\ cursor' = Padding
    /\ UNCHANGED <<row, column, pinned, length, natural, boxes, edges>>

-----------------------------------------------------------------------------
(***************************************************************************)
(* The elements' draw().  The bars are drawn as they are; a code takes as  *)
(* many pixels to the module as its box has; a picture is scaled again.    *)
(* Text is set to its box, but a glyph wider than the box is drawn at      *)
(* whatever size the search for one ended.                                 *)
(***************************************************************************)
CodeInk(e, n, main) == (AtMost(main, n) \div e.size) * e.size

PictureInk(e, n, main) ==
    CASE e.kind = "stretch" -> main
      [] e.kind = "cover"   -> AtLeast(main, Wide(e))
      [] OTHER              -> AtMost(main, n)

InkWidthsAsMeasured(e, n, main) == {n}

InkWidths(e, n, main) ==
    CASE e.kind = "qr"      -> {CodeInk(e, n, main)}
      [] e.kind = "barcode" -> {e.size}
      [] e.kind = "text"    -> {main, AtLeast(main, e.glyph)}
      [] OTHER              -> {PictureInk(e, n, main)}

\* Where ink of a width starts in its box.
Offset(e, main, width) ==
    CASE e.kind = "barcode" \/ (e.kind = "text" /\ e.align = "left") -> 0
      [] e.kind = "text" /\ e.align = "right"                        -> main - width
      [] OTHER                                                       -> (main - width) \div 2

\* Nothing is drawn in no room, nor what was measured without any height.
Blank(e, n, main) == main <= 0 \/ (e.kind \in {"text", "barcode"} /\ n = 0)

\* A code whose box has shrunk, text on a tape too narrow for a line of it.
CannotDraw(e, n, main) ==
    \/ e.kind = "qr" /\ AtMost(main, n) \div e.size < MIN_QR_MODULE_PX
    \/ e.kind = "text" /\ Across < e.line

Inks(e, n, main) ==
    IF Blank(e, n, main) THEN {[from |-> cursor, to |-> cursor]}
    ELSE {[from |-> cursor + Offset(e, main, w), to |-> cursor + Offset(e, main, w) + w] :
             w \in InkWidths(e, n, main)}

Place ==
    /\ pc = "place" /\ Len(boxes) < Len(row)
    /\ LET i    == Len(boxes) + 1
           room == AtLeast(0, sizes[i])
       IN  IF ~Blank(row[i], natural[i], sizes[i]) /\ CannotDraw(row[i], natural[i], sizes[i])
           THEN Refuse
           ELSE /\ \E ink \in Inks(row[i], natural[i], sizes[i]) :
                      boxes' = Append(boxes, [box |-> [from |-> cursor, to |-> cursor + room],
                                              ink |-> ink])
                /\ cursor' = cursor + room + Gap
                /\ UNCHANGED <<row, column, pinned, length, pc, natural, sizes, edges>>

-----------------------------------------------------------------------------
(***************************************************************************)
(* A vertical label: compose_portrait, scaled_qr, VerticalStockItem.draw.  *)
(***************************************************************************)
\* round(a / b), a half to the even neighbour.
Rounded(a, b) ==
    LET q == a \div b
        r == 2 * (a % b)
    IN  IF r < b \/ (r = b /\ q % 2 = 0) THEN q ELSE q + 1

EdgeWhole(i) == i * (Tape \div column.modules)

Edge(i) == Rounded(i * Tape, column.modules)

Stacked(n) == Total([i \in 1..n |-> LINE_GAP_PX + column.lines[i]])

\* A vertical label longer than an auto label may be is cut off by measure().
Needed == Tape + Stacked(Len(column.lines))
Height == AtMost(MaxAuto, Needed)

OverflowsInTheEnd == pinned # AUTO /\ Height - LINE_GAP_PX > pinned

Overflows == pinned # AUTO /\ Height > pinned

DrawColumn ==
    /\ pc = "column"
    /\ IF Overflows \/ Tape < MIN_QR_MODULE_PX * column.modules THEN Refuse
       ELSE /\ length' = IF pinned = AUTO THEN Height ELSE pinned
            /\ edges' = [i \in 1..(column.modules + 1) |-> Edge(i - 1)]
            /\ boxes' = [i \in 1..Len(column.lines) |->
                  LET line == [from |-> Tape + Stacked(i) - column.lines[i],
                               to   |-> Tape + Stacked(i)]
                  IN  [box |-> line, ink |-> line]]
            /\ pc' = "done"
            /\ UNCHANGED <<row, column, pinned, natural, sizes, cursor>>

Drawn ==
    /\ pc = "place" /\ Len(boxes) = Len(row)
    /\ pc' = "done"
    /\ UNCHANGED <<row, column, pinned, length, natural, sizes, cursor, boxes, edges>>

Next == MeasureNext \/ SizeToContent \/ MeasureAgain \/ Distribute \/ Place
        \/ Drawn \/ DrawColumn

Spec == Init /\ [][Next]_vars

-----------------------------------------------------------------------------
(***************************************************************************)
(* Properties.                                                             *)
(***************************************************************************)
Shared   == pc \in {"place", "done"} /\ row # <<>>
Leftover == Budget(length) - Total(natural)

Span == [from : Int, to : Int]

\* A picture that is stretched to less than no room: the drawing pass measures
\* with a budget that the gaps may have made negative, the sizing pass does not.
Stretched(i) == row[i].kind = "stretch" /\ pc # "measure" /\ Budget(length) < 0

\* What the variables hold.  What elements measure and are granted is never
\* negative, whatever is cut from it, but for a picture stretched to a label
\* that is shorter than its gaps.
TypeOK ==
    /\ row \in Seq(Element) /\ column \in Columns
    /\ pinned \in Pinned \cup {AUTO} /\ length \in Nat
    /\ pc \in {"measure", "draw", "place", "column", "done", "refused"}
    /\ natural \in Seq(Int) /\ \A i \in 1..Len(natural) : natural[i] >= 0 \/ Stretched(i)
    /\ sizes \in Seq(Int) /\ \A i \in 1..Len(sizes) : sizes[i] >= 0 \/ Stretched(i)
    /\ cursor \in Nat
    /\ boxes \in Seq([box : Span, ink : Span])
    /\ edges \in Seq(Nat)

\* A surplus is given out to the last pixel when something wants to grow
\* (_distribute), however the shares round.
FillsBudget ==
    Shared /\ Leftover > 0 /\ Elastic # {} => Total(sizes) = Budget(length)

\* What rounding leaves of a deficit is less than a pixel for each child: the
\* row runs that much over its padding at most.
OverrunsByRounding ==
    Shared /\ Leftover < 0 /\ Budget(length) >= 0 =>
        Total(sizes) <= Budget(length) + Len(row) - 1

\* "A deficit is taken from flex children first": a child that does not flex
\* keeps its size while the others can give what is missing.  Of three that
\* flex rounding may leave two pixels, which is more than the code can hide.
ElasticFirst ==
    Shared /\ Budget(length) >= 0 /\ ElasticTotal >= -Leftover /\ Cardinality(Elastic) <= 2
        => \A i \in 1..Len(row) \ Elastic : sizes[i] = natural[i]

\* An auto label has the length its content needs, though the two passes
\* measure with different room: below the longest label nothing is shrunk.
AutoIsEnough ==
    Shared /\ pinned = AUTO /\ Content <= MaxAuto => Leftover >= 0

Within(a, b) == b.from <= a.from /\ a.to <= b.to

\* "Render into box, which is exactly the size granted by the solver": what is
\* drawn stays in its box, or the label is refused; but a picture that covers
\* is not cropped, bars are not once a deficit has narrowed their box, and a
\* text's box may be narrower than one of its glyphs.
DrawnInBox ==
    \A i \in 1..Len(boxes) :
        \/ Within(boxes[i].ink, boxes[i].box)
        \/ row[i].kind = "cover"
        \/ row[i].kind = "barcode" /\ Leftover < 0
        \/ row[i].kind = "text" /\ sizes[i] < row[i].glyph

\* "A fixed length shorter than the content is an error rather than a clipped
\* label", on a vertical label that is not longer than an auto label may be (one of
\* three lines never is: VerticalStockItem._lines).
ColumnIsWhole ==
    row = <<>> /\ pc = "done" /\ Needed <= MaxAuto =>
        \A i \in 1..Len(boxes) : boxes[i].ink.to <= length

\* A code's modules fill the tape's width exactly, none of them is narrower
\* than a reader can see, and no two differ by more than a pixel.
ModulesFill ==
    edges # <<>> =>
        /\ edges[1] = 0 /\ edges[Len(edges)] = Tape
        /\ LET widths == {edges[i + 1] - edges[i] : i \in 1..(Len(edges) - 1)}
           IN  \A w, v \in widths : w >= MIN_QR_MODULE_PX /\ w - v <= 1
=============================================================================
