------------------------------- MODULE Screen -------------------------------
(***************************************************************************)
(* A VT100 screen, as far as the line editor uses it: the program at the   *)
(* other end of the connection, not part of the repository.  It wraps      *)
(* text at its right edge, late: after the last column the cursor stays    *)
(* there until something more is printed.                                  *)
(*                                                                         *)
(* A screen v is a record with at least the fields width, cells, row, col  *)
(* and late.  The row and the column count from 0.  Nothing is below the   *)
(* last row (Rows bounds what is printed).                                 *)
(***************************************************************************)
EXTENDS Integers, Sequences

CONSTANTS Rows,     \* bound: the rows of the screen
          Cols,     \* its greatest width
          Blank     \* an empty cell

ASSUME ScreenAssumption == Rows \in Nat \ {0} /\ Cols \in Nat \ {0}

Grid == (0..(Rows - 1)) \X (0..(Cols - 1))
EmptyGrid == [c \in Grid |-> Blank]

AtLeast0(n) == IF n < 0 THEN 0 ELSE n
Below(n, top) == IF n > top THEN top ELSE n

(* Where the next character goes, counting cells from the top left.        *)
Spot(v) == v.row * v.width + v.col + (IF v.late THEN 1 ELSE 0)

(* Text without control characters.                                        *)
Show(v, s) ==
    LET from == Spot(v)
        end == from + Len(s)
        late == end % v.width = 0
        Nth(c) == c[1] * v.width + c[2] - from + 1
    IN  IF s = <<>> THEN v
        ELSE [v EXCEPT
                !.cells = [c \in Grid |->
                    IF c[2] < v.width /\ Nth(c) \in DOMAIN s THEN s[Nth(c)]
                    ELSE v.cells[c]],
                !.row = IF late THEN end \div v.width - 1 ELSE end \div v.width,
                !.col = IF late THEN v.width - 1 ELSE end % v.width,
                !.late = late]

CRLF(v) == [v EXCEPT !.row = @ + 1, !.col = 0, !.late = FALSE]

(* ESC [ A, B, C and D: by so many rows down and columns right.            *)
MoveBy(v, down, right) ==
    IF down = 0 /\ right = 0 THEN v
    ELSE [v EXCEPT !.row = AtLeast0(@ + down),
                   !.col = Below(AtLeast0(@ + right), v.width - 1),
                   !.late = FALSE]

Clear(v, S) ==
    [v EXCEPT !.cells = [c \in Grid |-> IF c \in S THEN Blank ELSE @[c]]]

(* ESC [ K, ESC [ 2 K ESC [ J, and ESC [ 2 J ESC [ H.                      *)
ClearToRight(v, rows) == Clear(v, {c \in Grid : c[1] \in rows /\ c[2] >= v.col})
ClearFromRow(v) == Clear(v, {c \in Grid : c[1] >= v.row})
ClearAll(v) == [v EXCEPT !.cells = EmptyGrid, !.row = 0, !.col = 0,
                         !.late = FALSE]

(* The first n rows have left the screen at the top.                       *)
Scrolled(v, n) ==
    [v EXCEPT !.cells = [c \in Grid |->
                 IF c[1] + n < Rows THEN @[<<c[1] + n, c[2]>>] ELSE Blank],
              !.row = AtLeast0(@ - n)]

RowOf(v, r) == [c \in 0..(Cols - 1) |->
                   IF r < Rows THEN v.cells[<<r, c>>] ELSE Blank]
BlankBelow(v, r) == \A c \in Grid : c[1] > r => v.cells[c] = Blank
=============================================================================
