------------------------------- MODULE Layout -------------------------------
(***************************************************************************)
(* Dividing the terminal (internal/layout/layout.go): the regions of a     *)
(* screen, the columns of a table and the rows of a list that are shown.   *)
(*                                                                         *)
(* FitColumns is a program of three loops: an action is one turn of one of *)
(* them.  The others are operators.  A rectangle, a column and a window    *)
(* are their numbers; what is drawn in them is left out.                   *)
(***************************************************************************)
EXTENDS Numbers, Sequences, FiniteSetsExt

CONSTANTS
  Tables,    \* the columns a table may ask for
  Widths,    \* the widths a row may have
  Indent,    \* cells before the first column
  Sep        \* cells between two columns

Column == [width : Int, min : Int, flex : BOOLEAN]

ASSUME TableAssumption == Tables \subseteq Seq(Column) /\ Widths \subseteq Int
ASSUME SpaceAssumption == Indent \in Nat /\ Sep \in Nat

HeaderHeight == 2
FooterHeight == 2
Gutter == 2
MinWidth == 50
MinHeight == 12

----------------------------------------------------------------------------
(* Regions.                                                                *)

ContentWidth(width) == Larger(width - 2 * Gutter, 1)
BoxWidth(width) == Larger(width - Gutter, 1)
TooSmall(width, height) == width < MinWidth \/ height < MinHeight

\* Layout: the heights of the header, the body and the footer, which stand on top
\* of one another.  Bars that leave no room for a body collapse.
BarsFit(height) == HeaderHeight + FooterHeight < height
Frame(height) ==
  LET h == Larger(height, 1)
  IN IF BarsFit(h)
     THEN [header |-> HeaderHeight, body |-> h - HeaderHeight - FooterHeight,
           footer |-> FooterHeight]
     ELSE [header |-> 0, body |-> h, footer |-> 0]

\* SplitCols, SplitRows: the size of the first of the two parts of a size, which is
\* never negative.  SplitRowsFair gives it a third at most.
Split(size, want) == Clamp(want, 0, size)
SplitFair(size, want) == Split(size, Smaller(want, Larger(size \div 3, 1)))

\* Window: the rows [start, end) of a list, counted from 0.
Window(length, cursor, visible) ==
  LET rows == Larger(visible, 1)
      start == Clamp(Clamp(cursor, 0, length - 1) - rows \div 2, 0, length - rows)
  IN IF length <= 0 THEN <<0, 0>>
     ELSE IF length <= rows THEN <<0, length>>
     ELSE <<start, start + rows>>

----------------------------------------------------------------------------
(* Columns.                                                                *)

VARIABLES
  asked,     \* the columns a table asks for, each at its least width or wider
  cols,      \* the columns as they are by now
  rowWidth,
  fitting    \* "widen", "drop", "shrink" or "done"

layoutVars == <<asked, cols, rowWidth, fitting>>

Normal(c) ==
  LET least == Larger(c.min, 0)
  IN [c EXCEPT !.min = least, !.width = IF least > 0 THEN Larger(@, least) ELSE @]

Shown(cs) == {i \in DOMAIN cs : cs[i].width > 0}
Total(cs) ==
  Indent + SumFunctionOnSet([i \in DOMAIN cs |-> cs[i].width], Shown(cs))
         + Sep * Larger(Cardinality(Shown(cs)) - 1, 0)

Fits == Total(cols) <= rowWidth

LayoutInit ==
  /\ \E table \in Tables : asked = [i \in DOMAIN table |-> Normal(table[i])]
  /\ cols = asked
  /\ rowWidth \in Widths
  /\ fitting = "widen"

\* Slack goes to the first flexible column that is shown.
Widen ==
  /\ fitting = "widen" /\ fitting' = "drop"
  /\ LET flexible == {i \in Shown(cols) : cols[i].flex}
     IN cols' = IF Total(cols) < rowWidth /\ flexible # {}
                THEN [cols EXCEPT ![Min(flexible)].width = @ + (rowWidth - Total(cols))]
                ELSE cols
  /\ UNCHANGED <<asked, rowWidth>>

Droppable == {i \in Shown(cols) : cols[i].min = 0}

\* Mutant: columns go from the left.
DropFromTheLeft ==
  /\ fitting = "drop" /\ ~Fits /\ Droppable # {}
  /\ cols' = [cols EXCEPT ![Min(Droppable)].width = 0]
  /\ UNCHANGED <<asked, rowWidth, fitting>>

Shrinkable == {i \in DOMAIN cols : cols[i].width > cols[i].min}

Drop ==
  /\ fitting = "drop" /\ ~Fits /\ Droppable # {}
  /\ cols' = [cols EXCEPT ![Max(Droppable)].width = 0]
  /\ UNCHANGED <<asked, rowWidth, fitting>>

Dropped ==
  /\ fitting = "drop" /\ (Fits \/ Droppable = {})
  /\ fitting' = "shrink"
  /\ UNCHANGED <<asked, cols, rowWidth>>

Shrink ==
  /\ fitting = "shrink" /\ ~Fits /\ Shrinkable # {}
  /\ cols' = [cols EXCEPT ![Max(Shrinkable)].width = @ - 1]
  /\ UNCHANGED <<asked, rowWidth, fitting>>

Shrunk ==
  /\ fitting = "shrink" /\ (Fits \/ Shrinkable = {})
  /\ fitting' = "done"
  /\ UNCHANGED <<asked, cols, rowWidth>>

LayoutNext == Widen \/ Drop \/ Dropped \/ Shrink \/ Shrunk

LayoutSpec == LayoutInit /\ [][LayoutNext]_layoutVars

----------------------------------------------------------------------------

\* A column is never narrower than its minimum, whatever gives way: "a half-drawn
\* column reads as a rendering fault" (layout.go:262-263).
MinimumsAreKept ==
  \A i \in DOMAIN cols : asked[i].min > 0 => cols[i].width >= asked[i].min

\* Every variable has its type, and no column is narrower than it may be.
LayoutTypeOK ==
  /\ MinimumsAreKept
  /\ asked \in Seq(Column) /\ cols \in Seq(Column)
  /\ DOMAIN cols = DOMAIN asked
  /\ \A i \in DOMAIN cols : cols[i].min = asked[i].min /\ cols[i].flex = asked[i].flex
  /\ rowWidth \in Int
  /\ fitting \in {"widen", "drop", "shrink", "done"}

\* Columns give way as little as they can, the rightmost first: "columns
\* that may be dropped are dropped from the right, and then the rest shrink towards
\* their minimums, right to left. The result always fits unless every column is
\* already at its minimum"
\* (layout.go:273-276), and the last column that was dropped had no room.
ColumnsGiveWayInOrder ==
  LET optional == {i \in Shown(asked) : asked[i].min = 0}
      gone == optional \ Shown(cols)
  IN fitting = "done" =>
       /\ Fits \/ \A i \in DOMAIN cols : cols[i].width <= cols[i].min
       /\ \A i \in gone, j \in optional : j > i => j \in gone
       /\ gone # {} => Total([cols EXCEPT ![Min(gone)] = asked[Min(gone)]]) > rowWidth
       /\ (\E i \in DOMAIN cols : 0 < cols[i].width /\ cols[i].width < asked[i].width)
            => gone = optional
=============================================================================
