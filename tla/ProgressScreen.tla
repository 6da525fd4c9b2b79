---------------------------- MODULE ProgressScreen ----------------------------
(***************************************************************************)
(* The screen of the progress display: a line for each execution, in as    *)
(* many blocks beside each other as the screen needs, with the columns     *)
(* that fit.  A place is [line, col]; places counts from 0, executions and *)
(* columns from 1.  A screen is [lines, cols].                             *)
(***************************************************************************)
EXTENDS Outcomes, Integers, Sequences, SequencesExt, FiniteSetsExt

CONSTANTS
  LineLimit,     \* 2^64, the values of size_t
  Widths         \* the width of each column
Shown0 == [shown |-> Len(Widths), blocks |-> 0, width |-> 0, places |-> <<>>]

Available(screen) == (screen.lines - 4) % LineLimit
WidthOf(columns) == FoldLeft(+, 0, SubSeq(Widths, 1, columns))

\* calculateRequiredSpace(): the width of a block stays what it was if one is enough, and then
\* nothing is said of the columns.
RequiredSpace(display, screen, executions) ==
  IF executions > Available(screen)
  THEN LET blocks == (executions + Available(screen) - 1) \div Available(screen)
       IN  [display EXCEPT !.blocks = blocks, !.width = screen.cols \div blocks]
  ELSE [display EXCEPT !.blocks = 1]
ColumnsFit(display, columns) == display.blocks = 1 \/ WidthOf(columns) <= display.width

\* calculateLayout(), at the start and whenever the size has changed: columns are hidden from
\* the right; what is hidden keeps its place, and is painted there.
CalculateLayout(display, screen, executions) ==
  LET space == RequiredSpace(display, screen, executions)
      shown == Max({n \in 0 .. Len(Widths) : ColumnsFit(space, n)})
      Place(e, c) == [line |-> 2 + ((e - 1) % Available(screen)),
                      col  |-> space.width * ((e - 1) \div Available(screen)) + WidthOf(c - 1)]
      new == [p \in (1 .. executions) \X (1 .. shown) |-> Place(p[1], p[2])]
  IN  IF executions > 0 /\ Available(screen) = 0 THEN Aborts
      ELSE [space EXCEPT !.shown = shown, !.places = new @@ display.places]

\* print(): a value of a hidden column is kept; one that has had no place yet gets the corner,
\* unless its execution has no place at all.
Printed(display, e, c) ==
  IF ~\E p \in DOMAIN display.places : p[1] = e THEN display
  ELSE [display EXCEPT !.places = @ @@ (<<e, c>> :> [line |-> 0, col |-> 0])]

-----------------------------------------------------------------------------
Overlap(display, p, q) ==
  LET a == display.places[p]
      b == display.places[q]
  IN  a.line = b.line /\ a.col < b.col + Widths[q[2]] /\ b.col < a.col + Widths[p[2]]

\* Of two values that are painted over each other one belongs to a hidden column, above the
\* line of the status and, with more than one block, within the screen.
PlacedApart(display, screen, executions) ==
  LET Visible(p) == p[2] <= display.shown /\ p[1] <= executions
  IN  /\ \A p, q \in DOMAIN display.places :
           p # q /\ Overlap(display, p, q) => ~(Visible(p) /\ Visible(q))
      /\ \A p \in DOMAIN display.places :
           Visible(p) /\ screen.lines > 4 =>
             /\ display.places[p].line < screen.lines - 2
             /\ display.blocks > 1 => display.places[p].col + Widths[p[2]] <= screen.cols

\* Every value of the first execution is printed.
AllPrinted(display) ==
  FoldLeft(LAMBDA d, c : Printed(d, 1, c), display, [c \in DOMAIN Widths |-> c])

\* Only a screen of four lines ends the program; otherwise all have places of their own,
\* before the size has changed and afterwards.
OwnPlaces(before, after, executions) ==
  \A first \in {CalculateLayout(Shown0, before, executions)} :
    IF first = Aborts THEN executions > 0 /\ before.lines = 4
    ELSE \A filled \in {AllPrinted(first)} : \A second \in {CalculateLayout(filled, after, executions)} :
           /\ PlacedApart(filled, before, executions)
           /\ IF second = Aborts THEN executions > 0 /\ after.lines = 4
              ELSE PlacedApart(second, after, executions)
=============================================================================
