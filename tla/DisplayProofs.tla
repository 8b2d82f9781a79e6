---------------------------- MODULE DisplayProofs ----------------------------
(***************************************************************************)
(* The line editor knows where the cursor is, draws below what was said    *)
(* and shows the line, for every size of the screen, every line, prompt    *)
(* and message.                                                            *)
(***************************************************************************)
EXTENDS Display, FiniteSetTheorems, SequenceTheorems, TLAPS

(* Views with the cursor where the server takes it to be, in a line that   *)
(* starts in row base; above row top they are as u is.                     *)
Drawn(u, top, base) ==
    {v \in View : /\ v.row = base + v.y /\ v.col = v.x /\ ~v.late
                  /\ v.width \in Widths /\ v.x < v.width
                  /\ \A c \in Grid : c[1] < top => v.cells[c] = u.cells[c]}

-----------------------------------------------------------------------------
(* Induction, for a set.  If S left out n, to add 1 would map what S has   *)
(* of 0..n one to one to the same without 0.                               *)
LEMMA SetInduction ==
    ASSUME NEW S, 0 \in S, \A k \in Nat : k \in S => k + 1 \in S,
           NEW n \in Nat
    PROVE  n \in S
<1> SUFFICES ASSUME n \notin S PROVE FALSE
    OBVIOUS
<1> DEFINE T == {k \in 0..n : k \in S}
           U == T \ {0}
           next == [k \in T |-> k + 1]
<1>1. IsFiniteSet(T)
    <2>1. IsFiniteSet(0..n)
        BY FS_Interval
    <2>2. T \in SUBSET (0..n)
        OBVIOUS
    <2> QED
        BY <2>1, <2>2, FS_Subset
<1>2. 0 \in T
    OBVIOUS
<1>3. next \in [T -> U]
    OBVIOUS
<1>4. \A x, y \in T : next[x] = next[y] => x = y
    OBVIOUS
<1> HIDE DEF T, next
<1>5. IsFiniteSet(U) /\ Cardinality(U) = Cardinality(T) - 1
    BY <1>1, <1>2, FS_RemoveElement
<1> HIDE DEF U
<1>6. Cardinality(T) \in Nat
    BY <1>1, FS_CardinalityType
<1>7. Cardinality(U) < Cardinality(T)
    BY <1>5, <1>6
<1> QED
    BY <1>1, <1>3, <1>4, <1>5, <1>7, FS_PigeonHole

(* A set of numbers that is not empty has a least one,                     *)
LEMMA Least1 ==
    ASSUME NEW N, N \subseteq Nat, N # {}
    PROVE  \E n \in N : \A m \in N : n <= m
<1> SUFFICES ASSUME \A n \in N : \E m \in N : m < n PROVE FALSE
    OBVIOUS
<1> DEFINE S == {k \in Nat : \A m \in N : m > k}
<1>1. 0 \in S
    <2>1. 0 \notin N
        OBVIOUS
    <2> QED
        BY <2>1
<1>2. ASSUME NEW k \in Nat, k \in S PROVE k + 1 \in S
    <2>1. k + 1 \notin N
        BY <1>2
    <2> QED
        BY <1>2, <2>1
<1>3. PICK n \in N : TRUE
    OBVIOUS
<1>4. n \in Nat /\ n \notin S
    BY <1>3
<1> HIDE DEF S
<1> QED
    BY <1>1, <1>2, <1>4, SetInduction

(* and a greatest one if there is a bound.                                 *)
LEMMA Greatest1 ==
    ASSUME NEW N, NEW b \in Nat, N \subseteq 0..b, N # {}
    PROVE  \E n \in N : \A m \in N : m <= n
<1> DEFINE M == {k \in 0..b : b - k \in N}
<1>1. PICK n \in N : TRUE
    OBVIOUS
<1>2. b - n \in M
    BY <1>1
<1>3. PICK k \in M : \A m \in M : k <= m
    <2>1. M \subseteq Nat
        OBVIOUS
    <2> HIDE DEF M
    <2>2. M # {}
        BY <1>2
    <2> QED
        BY <2>1, <2>2, Least1
<1>4. \A m \in N : b - m \in M
    OBVIOUS
<1> QED
    BY <1>3, <1>4

(* What is repeated n times from v is there, and stays in D if each step   *)
(* does.                                                                   *)
Repeats(f, v, n, step) ==
    f[0] = v /\ \A i \in 1..n : f[i] = step[i][f[i - 1]]

LEMMA Repeated ==
    ASSUME NEW D, NEW v \in D, NEW n \in Nat, NEW step \in [1..n -> [D -> D]]
    PROVE  \E f \in [0..n -> D] : Repeats(f, v, n, step)
<1> DEFINE S == {k \in Nat : k <= n => \E f \in [0..k -> D] : Repeats(f, v, k, step)}
<1>1. 0 \in S
    <2>1. [i \in 0..0 |-> v] \in [0..0 -> D]
          /\ Repeats([i \in 0..0 |-> v], v, 0, step)
        BY DEF Repeats
    <2> QED
        BY <2>1
<1>2. ASSUME NEW k \in Nat, k \in S PROVE k + 1 \in S
    <2> SUFFICES ASSUME k + 1 <= n
                 PROVE  \E g \in [0..(k + 1) -> D] : Repeats(g, v, k + 1, step)
        OBVIOUS
    <2>1. PICK f \in [0..k -> D] : Repeats(f, v, k, step)
        BY <1>2
    <2> DEFINE g == [i \in 0..(k + 1) |->
                        IF i <= k THEN f[i] ELSE step[k + 1][f[k]]]
    <2>2. f[k] \in D /\ k + 1 \in 1..n
        OBVIOUS
    <2>3. step[k + 1][f[k]] \in D
        BY <2>2
    <2>4. g \in [0..(k + 1) -> D]
        BY <2>3
    <2>5. g[0] = v
        BY <2>1 DEF Repeats
    <2>6. ASSUME NEW i \in 1..(k + 1) PROVE g[i] = step[i][g[i - 1]]
        <3>1. CASE i <= k
            BY <2>1, <3>1 DEF Repeats
        <3>2. CASE i = k + 1
            BY <3>2
        <3> QED
            BY <3>1, <3>2
    <2> HIDE DEF g
    <2>7. Repeats(g, v, k + 1, step)
        BY <2>5, <2>6 DEF Repeats
    <2> QED
        BY <2>4, <2>7
<1> HIDE DEF S
<1>3. n \in S
    BY <1>1, <1>2, SetInduction
<1> QED
    BY <1>3 DEF S

(* n goes through q rows of w cells and r cells of the next.               *)
Splits(n, w, q, r) == q \in Nat /\ r \in 0..(w - 1) /\ n = q * w + r

LEMMA Remainder ==
    ASSUME NEW n \in Nat, NEW w \in Nat \ {0}
    PROVE  Splits(n, w, n \div w, n % w)
BY DEF Splits

LEMMA Quotient ==
    ASSUME NEW w \in Nat \ {0}, NEW q, NEW r, NEW n, Splits(n, w, q, r)
    PROVE  n \div w = q /\ (n % w) = r
BY DEF Splits

LEMMA Spread ==
    ASSUME NEW w \in Nat \ {0}, NEW a \in Nat, NEW q, NEW r, NEW n,
           Splits(n, w, q, r)
    PROVE  Splits(a * w + n, w, a + q, r)
BY DEF Splits

(* A cell of an upper row comes before all of a lower one.                 *)
LEMMA RowsInOrder ==
    ASSUME NEW w \in Nat \ {0}, NEW p \in Nat, NEW q \in Nat, p < q
    PROVE  p * w + w <= q * w
OBVIOUS

-----------------------------------------------------------------------------
LEMMA WidthsPositive == \A w \in Widths : w \in Nat \ {0} /\ w \in 1..Cols
<1>1. Widths \subseteq 1..Cols
    BY EditorAssumption
<1> QED
    BY <1>1, ScreenAssumption

LEMMA CellsOfGrid ==
    ASSUME NEW c \in Grid PROVE c[1] \in Nat /\ c[2] \in Nat
BY ScreenAssumption DEF Grid

LEMMA BlankIsRune == Blank \in Runes
<1>1. Blank = " "
    BY EditorAssumption
<1>2. " " \in Runes
    BY DEF Runes
<1> QED
    BY <1>1, <1>2

-----------------------------------------------------------------------------
(* Text goes on where the cursor is and overwrites nothing above it.       *)
LEMMA ShowMoves ==
    ASSUME NEW v \in View, v.width \in Nat \ {0}, v.col = v.x,
           v.x < v.width, ~v.late, NEW s \in Line, s # <<>>,
           NEW q \in Nat, NEW r \in Nat, Splits(v.x + Len(s), v.width, q, r)
    PROVE  LET w == Show(v, s) IN
           /\ w \in View /\ w.width = v.width
           /\ w.x = v.x /\ w.y = v.y /\ w.max = v.max
           /\ r = 0 => w.row = v.row + q - 1 /\ q > 0
           /\ r # 0 => w.row = v.row + q /\ w.col = r /\ ~w.late
           /\ \A c \in Grid : c[1] < v.row => w.cells[c] = v.cells[c]
<1> DEFINE L == Len(s)
           W == v.width
           from == v.row * W + v.x
           end == from + L
           d == end \div W
           m == end % W
           late == m = 0
           Nth(c) == c[1] * W + c[2] - from + 1
           cells == [c \in Grid |->
                        IF c[2] < W /\ Nth(c) \in DOMAIN s THEN s[Nth(c)]
                        ELSE v.cells[c]]
           w == [v EXCEPT !.cells = cells,
                          !.row = IF late THEN d - 1 ELSE d,
                          !.col = IF late THEN W - 1 ELSE m,
                          !.late = late]
<1>1. /\ v.x \in Nat /\ v.row \in Nat /\ v.cells \in [Grid -> Runes]
      /\ v.width \in Nat \ {0} /\ v.x < v.width
    BY DEF View
<1>2. L \in Nat \ {0} /\ DOMAIN s = 1..L /\ \A i \in 1..L : s[i] \in Runes
    BY DEF Line
<1>3. Show(v, s) = w
    <2>1. Spot(v) = from
        BY <1>1 DEF Spot
    <2> QED
        BY <2>1 DEF Show
<1>w. W \in Nat \ {0} /\ v.x < W
    BY <1>1
<1> HIDE DEF L, W
<1>4. q \in Nat /\ r \in 0..(W - 1)
    BY DEF Splits, W
<1>5. Splits(end, W, v.row + q, r)
    <2>1. Splits(v.x + L, W, q, r) /\ v.row \in Nat
        BY <1>1 DEF L, W
    <2>2. Splits(v.row * W + (v.x + L), W, v.row + q, r)
        BY <1>w, <2>1, Spread
    <2>3. v.row * W \in Nat
        BY <1>w, <2>1
    <2>4. v.row * W + (v.x + L) = end
        BY <1>1, <1>2, <2>3
    <2> QED
        BY <2>2, <2>4
<1>6. d = v.row + q /\ m = r
    <2> HIDE DEF end
    <2> QED
        BY <1>w, <1>5, Quotient
<1>7. r = 0 => q > 0
    <2>1. q = 0 => q * W = 0
        BY <1>w
    <2>2. v.x + L > 0
        BY <1>1, <1>2
    <2> QED
        BY <1>4, <2>1, <2>2 DEF Splits, L, W
<1>8. cells \in [Grid -> Runes]
    BY <1>1, <1>2
<1>9. ASSUME NEW c \in Grid, c[1] < v.row
      PROVE  cells[c] = v.cells[c]
    <2>1. c[1] \in Nat /\ c[2] \in Nat
        BY CellsOfGrid
    <2>2. c[1] * W + W <= v.row * W
        BY <1>1, <1>9, <1>w, <2>1, RowsInOrder
    <2>3. c[1] * W \in Int /\ v.row * W \in Int
        BY <1>1, <1>w, <2>1
    <2>4. c[2] < W => Nth(c) < 1
        <3>1. ASSUME NEW a \in Int, NEW b \in Int, a + W <= b, c[2] < W
              PROVE  a + c[2] - (b + v.x) + 1 < 1
            BY <1>1, <1>w, <2>1, <3>1
        <3> QED
            BY <2>2, <2>3, <3>1
    <2> QED
        BY <1>2, <2>4
<1> HIDE DEF cells
<1> DEFINE row == IF late THEN d - 1 ELSE d
           col == IF late THEN W - 1 ELSE m
<1> HIDE DEF end, d, m
<1>10. /\ late \in BOOLEAN
       /\ r = 0 => late
       /\ r # 0 => ~late
    BY <1>6
<1> HIDE DEF late
<1>12. /\ r = 0 => row = v.row + q - 1 /\ col = W - 1
       /\ r # 0 => row = v.row + q /\ col = r
    BY <1>1, <1>4, <1>6, <1>10
<1> HIDE DEF row, col
<1>11. row \in Nat /\ col \in Nat
    BY <1>1, <1>4, <1>w, <1>7, <1>12
<1>13. w = [v EXCEPT !.cells = cells, !.row = row, !.col = col, !.late = late]
    BY DEF row, col, late
<1> HIDE DEF w
<1>14. /\ w \in View /\ w.width = v.width
       /\ w.x = v.x /\ w.y = v.y /\ w.max = v.max
       /\ w.row = row /\ w.col = col /\ w.late = late /\ w.cells = cells
    BY <1>8, <1>10, <1>11, <1>13 DEF View
<1> QED
    BY <1>3, <1>4, <1>7, <1>9, <1>10, <1>12, <1>14 DEF W

(* advanceCursor agrees with what the screen did.                          *)
LEMMA TextDraws ==
    ASSUME NEW u, NEW top \in Nat, NEW base \in Nat, top <= base,
           NEW v \in Drawn(u, top, base), NEW s \in Line
    PROVE  Text(v, s) \in Drawn(u, top, base) /\ Text(v, s).width = v.width
<1> DEFINE W == v.width
           n == v.x + Len(s)
           q == n \div W
           r == n % W
           t == Show(v, s)
           y == t.y + q
           max == IF y > t.max THEN y ELSE t.max
           w == [t EXCEPT !.x = r, !.y = y, !.max = max]
<1>1. /\ v \in View /\ v.row = base + v.y /\ v.col = v.x /\ ~v.late
      /\ v.x < v.width /\ v.width \in Widths
      /\ \A c \in Grid : c[1] < top => v.cells[c] = u.cells[c]
    BY DEF Drawn
<1>2. /\ v.width \in Nat \ {0} /\ v.x \in Nat /\ v.y \in Nat /\ v.max \in Nat
      /\ v.row \in Nat
    BY <1>1, WidthsPositive DEF View
<1>3. Len(s) \in Nat /\ (Len(s) = 0 <=> s = <<>>)
    BY DEF Line
<1>n. n \in Nat
    BY <1>2, <1>3
<1>4. Splits(n, W, q, r)
    <2> HIDE DEF n
    <2> QED
        BY <1>2, <1>n, Remainder
<1>5. q \in Nat /\ r \in Nat /\ r < W
    BY <1>2, <1>4 DEF Splits
<1>t. Text(v, s) = advanceCursor(t, Len(s))
    BY DEF Text
<1> HIDE DEF t
<1>6. t \in View /\ t.width = W /\ t.x = v.x /\ t.y = v.y /\ t.max = v.max
    <2>1. CASE s = <<>>
        BY <1>1, <2>1 DEF Show, t
    <2>2. CASE s # <<>>
        BY <1>1, <1>2, <1>4, <1>5, <2>2, ShowMoves DEF t
    <2> QED
        BY <2>1, <2>2
<1>7. Text(v, s) = IF Len(s) > 0 /\ w.x = 0 THEN CRLF(w) ELSE w
    BY <1>6, <1>t DEF advanceCursor
<1> HIDE DEF q, r
<1>y. y = v.y + q /\ y \in Nat /\ max \in Nat
    BY <1>2, <1>5, <1>6
<1> HIDE DEF y, max
<1>w. /\ w \in View /\ w.x = r /\ w.y = y /\ w.width = W
      /\ w.row = t.row /\ w.col = t.col /\ w.late = t.late
      /\ w.cells = t.cells
    BY <1>5, <1>6, <1>y DEF View
<1> HIDE DEF w
<1>8. CASE s = <<>>
    <2>1. t = v
        BY <1>8 DEF Show, t
    <2>2. q = 0 /\ r = v.x
        <3>1. Splits(n, W, 0, v.x)
            BY <1>1, <1>2, <1>3, <1>8 DEF Splits
        <3> HIDE DEF n
        <3> QED
            BY <1>2, <3>1, Quotient DEF q, r
    <2>3. Text(v, s) = w
        BY <1>3, <1>7, <1>8
    <2>4. y = v.y
        BY <1>2, <1>y, <2>2
    <2> QED
        BY <1>1, <1>w, <2>1, <2>2, <2>3, <2>4 DEF Drawn
<1>9. CASE s # <<>>
    <2>1. /\ r = 0 => t.row = v.row + q - 1 /\ q > 0
          /\ r # 0 => t.row = v.row + q /\ t.col = r /\ ~t.late
          /\ \A c \in Grid : c[1] < v.row => t.cells[c] = v.cells[c]
        <3>1. v \in View /\ v.width \in Nat \ {0} /\ Splits(v.x + Len(s), v.width, q, r)
            BY <1>1, <1>2, <1>4
        <3> QED
            BY <1>1, <1>5, <1>9, <3>1, ShowMoves DEF t
    <2>2. Len(s) > 0
        BY <1>3, <1>9
    <2>3. \A c \in Grid : c[1] < top => t.cells[c] = u.cells[c]
        <3>1. ASSUME NEW c \in Grid, c[1] < top PROVE c[1] < v.row
            BY <1>1, <1>2, <3>1, CellsOfGrid
        <3> QED
            BY <1>1, <2>1, <3>1
    <2>5. CASE r = 0
        <3>1. Text(v, s) = CRLF(w)
            BY <1>7, <1>w, <2>2, <2>5
        <3>r. w.row + 1 \in Nat
            BY <1>w DEF View
        <3>2. /\ CRLF(w) \in View /\ CRLF(w).x = 0 /\ CRLF(w).y = y
              /\ CRLF(w).width = W /\ CRLF(w).row = t.row + 1
              /\ CRLF(w).col = 0 /\ ~CRLF(w).late /\ CRLF(w).cells = t.cells
            BY <1>w, <2>5, <3>r DEF CRLF, View
        <3>3. t.row + 1 = base + y /\ 0 < W
            BY <1>1, <1>2, <1>5, <1>y, <2>1, <2>5
        <3> QED
            BY <1>1, <2>3, <3>1, <3>2, <3>3 DEF Drawn
    <2>6. CASE r # 0
        <3>1. Text(v, s) = w
            BY <1>7, <1>w, <2>6
        <3>2. t.row = base + y
            BY <1>1, <1>2, <1>5, <1>y, <2>1, <2>6
        <3> QED
            BY <1>1, <1>5, <1>w, <2>1, <2>3, <2>6, <3>1, <3>2 DEF Drawn
    <2> QED
        BY <2>5, <2>6
<1> QED
    BY <1>8, <1>9

(* A movement ends where the server means it to.                           *)
LEMMA MoveToDraws ==
    ASSUME NEW u, NEW top \in Nat, NEW base \in Nat,
           NEW v \in Drawn(u, top, base),
           NEW x \in Nat, x < v.width, NEW y \in Nat
    PROVE  MoveTo(v, x, y) \in Drawn(u, top, base)
           /\ MoveTo(v, x, y).width = v.width
           /\ MoveTo(v, x, y).x = x /\ MoveTo(v, x, y).y = y
<1> DEFINE w == [v EXCEPT !.x = x, !.y = y]
           row == AtLeast0(w.row + (y - v.y))
           col == Below(AtLeast0(w.col + (x - v.x)), w.width - 1)
<1>1. /\ v \in View /\ v.row = base + v.y /\ v.col = v.x /\ ~v.late
      /\ v.x < v.width /\ v.width \in Widths
      /\ \A c \in Grid : c[1] < top => v.cells[c] = u.cells[c]
    BY DEF Drawn
<1>2. /\ v.width \in Nat \ {0} /\ v.x \in Nat /\ v.y \in Nat
      /\ v.row \in Nat
    BY <1>1, WidthsPositive DEF View
<1>3. /\ w \in View /\ w.row = v.row /\ w.col = v.x /\ w.width = v.width
      /\ w.late = v.late /\ w.cells = v.cells /\ w.x = x /\ w.y = y
    BY <1>1 DEF View
<1> HIDE DEF w
<1>4. row = base + y /\ col = x
    BY <1>1, <1>2, <1>3 DEF AtLeast0, Below
<1>5. MoveTo(v, x, y) =
          IF y - v.y = 0 /\ x - v.x = 0 THEN w
          ELSE [w EXCEPT !.row = row, !.col = col, !.late = FALSE]
    BY DEF MoveTo, MoveBy, w
<1> HIDE DEF row, col
<1>6. CASE y - v.y = 0 /\ x - v.x = 0
    <2>1. x = v.x /\ y = v.y
        BY <1>2, <1>6
    <2> QED
        BY <1>1, <1>3, <1>5, <1>6, <2>1 DEF Drawn
<1>7. CASE ~(y - v.y = 0 /\ x - v.x = 0)
    <2> DEFINE z == [w EXCEPT !.row = row, !.col = col, !.late = FALSE]
    <2>1. row \in Nat /\ col \in Nat
        BY <1>2, <1>4
    <2>2. /\ z \in View /\ z.row = row /\ z.col = col /\ ~z.late
          /\ z.x = x /\ z.y = y /\ z.width = v.width /\ z.cells = v.cells
        BY <1>3, <2>1 DEF View
    <2>3. MoveTo(v, x, y) = z
        BY <1>5, <1>7
    <2> HIDE DEF z
    <2> QED
        BY <1>1, <1>4, <2>2, <2>3 DEF Drawn
<1> QED
    BY <1>6, <1>7

LEMMA CursorMoves ==
    ASSUME NEW u, NEW top \in Nat, NEW base \in Nat,
           NEW v \in Drawn(u, top, base), NEW p \in Nat, prompt \in Line
    PROVE  moveCursorToPos(v, p) \in Drawn(u, top, base)
           /\ moveCursorToPos(v, p).width = v.width
<1> DEFINE n == Len(prompt) + p
           q == n \div v.width
           r == n % v.width
<1>1. v.width \in Nat \ {0}
    BY WidthsPositive DEF Drawn
<1>2. n \in Nat
    BY DEF Line
<1>3. Splits(n, v.width, q, r)
    BY <1>1, <1>2, Remainder
<1>4. q \in Nat /\ r \in Nat /\ r < v.width
    BY <1>1, <1>3 DEF Splits
<1>5. moveCursorToPos(v, p) = MoveTo(v, r, q)
    BY DEF moveCursorToPos
<1> HIDE DEF q, r
<1> QED
    BY <1>4, <1>5, MoveToDraws

(* writeLine: as many pieces as rows, each of them text.                   *)
LEMMA PieceIsText ==
    ASSUME NEW v \in View, v.x < v.width, v.width \in Nat \ {0},
           NEW s \in Line, NEW i \in Nat, i > 0
    PROVE  Piece(v, s, i) \in Line /\ Start(v, i) \in Nat
<1> DEFINE a == Start(v, i)
           b == Below(Start(v, i + 1) - 1, Len(s))
<1>1. v.x \in Nat
    BY DEF View
<1>2. ASSUME NEW j \in Nat, j > 0
      PROVE  Start(v, j) \in Nat /\ Start(v, j) > 0
    <2>1. CASE j = 1
        BY <2>1 DEF Start
    <2>2. CASE j # 1
        <3>1. (j - 2) * v.width \in Nat
            BY <1>2, <2>2
        <3> QED
            BY <1>1, <2>2, <3>1 DEF Start
    <2> QED
        BY <2>1, <2>2
<1>3. a \in Nat /\ a > 0 /\ Start(v, i + 1) \in Nat
    <2>1. i + 1 \in Nat /\ i + 1 > 0
        OBVIOUS
    <2> QED
        BY <1>2, <2>1
<1>4. Len(s) \in Nat /\ \A j \in 1..Len(s) : s[j] \in Runes
    BY DEF Line
<1>5. b \in Int /\ b <= Len(s)
    BY <1>3, <1>4 DEF Below
<1>6. \A j \in a..b : s[j] \in Runes
    BY <1>3, <1>4, <1>5
<1> HIDE DEF a, b
<1>7. SubSeq(s, a, b) \in Seq(Runes)
    BY <1>3, <1>5, <1>6, SubSeqProperties
<1> QED
    BY <1>3, <1>7 DEF Piece, Line, a, b

LEMMA PiecesEnd ==
    ASSUME NEW v \in View, v.x < v.width, v.width \in Nat \ {0},
           NEW s \in Line, s # <<>>
    PROVE  \E i \in 0..Len(s) :
               Start(v, i + 1) > Len(s) /\ (i > 0 => Start(v, i) <= Len(s))
<1> DEFINE N == {i \in Nat : Start(v, i + 1) > Len(s)}
<1>1. Len(s) \in Nat /\ Len(s) > 0
    BY DEF Line
<1>2. Len(s) \in N
    <2>1. v.x \in Nat /\ v.width - v.x >= 1
        BY DEF View
    <2>2. (Len(s) - 1) * v.width >= Len(s) - 1
        BY <1>1
    <2>3. (Len(s) - 1) * v.width \in Nat
        BY <1>1
    <2>4. Start(v, Len(s) + 1) = v.width - v.x + (Len(s) - 1) * v.width + 1
        BY <1>1 DEF Start
    <2> QED
        BY <1>1, <2>1, <2>2, <2>3, <2>4
<1>3. PICK k \in N : \A m \in N : k <= m
    <2>1. N \subseteq Nat
        OBVIOUS
    <2> HIDE DEF N
    <2>2. N # {}
        BY <1>2
    <2> QED
        BY <2>1, <2>2, Least1
<1>4. k \in 0..Len(s)
    BY <1>1, <1>2, <1>3
<1>5. k > 0 => Start(v, k) <= Len(s)
    <2> SUFFICES ASSUME k > 0 PROVE Start(v, k) <= Len(s)
        OBVIOUS
    <2>1. k - 1 \in Nat /\ k - 1 \notin N
        <3>1. k - 1 \in Nat /\ ~(k <= k - 1)
            BY <1>4
        <3> HIDE DEF N
        <3> QED
            BY <1>3, <3>1
    <2>2. ~(Start(v, k) > Len(s))
        BY <1>4, <2>1
    <2>3. Start(v, k) \in Nat
        BY <1>4, PieceIsText
    <2> QED
        BY <1>1, <2>2, <2>3
<1> QED
    BY <1>3, <1>4, <1>5

(* writeLine goes through the pieces, from the view given to the last one. *)
InPieces(v, s, g, n, D) ==
    /\ n \in Nat /\ Start(v, n + 1) > Len(s)
    /\ g[0] = v /\ \A i \in 1..n : g[i] = Text(g[i - 1], Piece(v, s, i))
    /\ \A i \in 0..n : g[i] \in D /\ g[i].width = v.width
    /\ writeLine(v, s) = g[n]

LEMMA WriteLinePieces ==
    ASSUME NEW u, NEW top \in Nat, NEW base \in Nat, top <= base,
           NEW v \in Drawn(u, top, base), NEW s \in Line, s # <<>>
    PROVE  \E g, n : InPieces(v, s, g, n, Drawn(u, top, base))
<1>1. v \in View /\ v.x < v.width /\ v.width \in Nat \ {0}
    BY WidthsPositive DEF Drawn
<1> DEFINE last(i) == Start(v, i + 1) > Len(s) /\ (i > 0 => Start(v, i) <= Len(s))
           n == CHOOSE i \in 0..Len(s) : last(i)
           D == {w \in Drawn(u, top, base) : w.width = v.width}
           step == [i \in 1..n |-> [w \in D |-> Text(w, Piece(v, s, i))]]
           R(f) == f = [i \in 0..n |-> IF i = 0 THEN v
                                       ELSE Text(f[i - 1], Piece(v, s, i))]
<1>2. writeLine(v, s) = (CHOOSE f : R(f))[n]
    BY DEF writeLine
<1>3. n \in Nat /\ Start(v, n + 1) > Len(s)
    <2>1. \E i \in 0..Len(s) : last(i)
        BY <1>1, PiecesEnd
    <2>2. Len(s) \in Nat
        BY DEF Line
    <2> HIDE DEF last
    <2>3. n \in 0..Len(s) /\ last(n)
        BY <2>1
    <2> QED
        BY <2>2, <2>3 DEF last
<1> HIDE DEF n
<1>4. ASSUME NEW w \in D, NEW i \in 1..n
      PROVE  Text(w, Piece(v, s, i)) \in D
    <2>1. Piece(v, s, i) \in Line
        BY <1>1, <1>3, PieceIsText
    <2> QED
        BY <2>1, TextDraws
<1>5. v \in D
    OBVIOUS
<1> HIDE DEF D
<1>6. step \in [1..n -> [D -> D]]
    BY <1>4
<1>7. PICK f \in [0..n -> D] : Repeats(f, v, n, step)
    <2> HIDE DEF step
    <2> QED
        BY <1>3, <1>5, <1>6, Repeated
<1>8. R(f)
    <2>1. ASSUME NEW i \in 1..n
          PROVE  f[i] = Text(f[i - 1], Piece(v, s, i))
        <3>1. f[i - 1] \in D
            BY <1>3
        <3> QED
            BY <1>7, <3>1 DEF Repeats
    <2> QED
        BY <1>3, <1>7, <2>1 DEF Repeats
<1>9. PICK g : R(g) /\ writeLine(v, s) = g[n]
    <2> HIDE DEF R
    <2> QED
        BY <1>2, <1>8
<1>10. g[0] = v /\ \A i \in 1..n : g[i] = Text(g[i - 1], Piece(v, s, i))
    BY <1>3, <1>9
<1>11. \A k \in 0..n : g[k] \in D
    <2> DEFINE S == {k \in Nat : k <= n => g[k] \in D}
    <2>1. 0 \in S
        BY <1>5, <1>10
    <2>2. ASSUME NEW k \in Nat, k \in S PROVE k + 1 \in S
        <3> SUFFICES ASSUME k + 1 <= n PROVE g[k + 1] \in D
            OBVIOUS
        <3>1. g[k] \in D /\ k + 1 \in 1..n
            BY <1>3, <2>2
        <3>2. g[k + 1] = Text(g[k], Piece(v, s, k + 1))
            BY <1>3, <1>10, <3>1
        <3> QED
            BY <1>4, <3>1, <3>2
    <2> HIDE DEF S
    <2>3. \A k \in Nat : k \in S
        BY <2>1, <2>2, SetInduction
    <2> QED
        BY <1>3, <2>3 DEF S
<1> QED
    BY <1>3, <1>9, <1>10, <1>11 DEF InPieces, D

LEMMA WriteLineDraws ==
    ASSUME NEW u, NEW top \in Nat, NEW base \in Nat, top <= base,
           NEW v \in Drawn(u, top, base), NEW s \in Line
    PROVE  writeLine(v, s) \in Drawn(u, top, base)
           /\ writeLine(v, s).width = v.width
<1>1. CASE s = <<>>
    BY <1>1 DEF writeLine
<1>2. CASE s # <<>>
    <2>1. PICK g, n : InPieces(v, s, g, n, Drawn(u, top, base))
        BY <1>2, WriteLinePieces
    <2>2. n \in 0..n
        BY <2>1 DEF InPieces
    <2> QED
        BY <2>1, <2>2 DEF InPieces
<1> QED
    BY <1>1, <1>2

-----------------------------------------------------------------------------
(* A row of a message fills at most one row of the screen.                 *)
LEMMA RowLeaves ==
    ASSUME NEW v \in View, v.width \in Nat \ {0}, v.col = 0, ~v.late,
           Len(MessageRow) <= v.width, NEW c \in Grid, c[1] > v.row
    PROVE  Show(v, MessageRow).cells[c] = v.cells[c]
<1> DEFINE W == v.width
           L == Len(MessageRow)
           from == v.row * W + 0
           at == c[1] * W + c[2] - from + 1
<1>1. /\ v.row \in Nat /\ v.cells \in [Grid -> Runes]
      /\ c[1] \in Nat /\ c[2] \in Nat
    BY CellsOfGrid DEF View
<1>2. L \in Nat /\ DOMAIN MessageRow = 1..L
    <2>1. MessageRow \in Line
        BY EditorAssumption
    <2> QED
        BY <2>1 DEF Line
<1>3. Spot(v) = from
    <2>1. v.row * W \in Nat
        BY <1>1
    <2> QED
        BY <2>1 DEF Spot
<1>4. at \notin 1..L
    <2> DEFINE a == c[1] * W
               b == v.row * W
    <2>1. b + W <= a
        BY <1>1, RowsInOrder
    <2>2. a \in Nat /\ b \in Nat
        BY <1>1
    <2>3. at = a + c[2] - (b + 0) + 1 /\ W \in Nat /\ L <= W
        OBVIOUS
    <2> HIDE DEF a, b, at, W, L
    <2>4. at > L
        BY <1>1, <1>2, <2>1, <2>2, <2>3
    <2> QED
        BY <1>2, <2>4
<1>5. CASE MessageRow = <<>>
    BY <1>5 DEF Show
<1>6. CASE MessageRow # <<>>
    <2>1. Show(v, MessageRow).cells[c] =
              IF c[2] < W /\ at \in DOMAIN MessageRow THEN MessageRow[at]
              ELSE v.cells[c]
        BY <1>3, <1>6 DEF Show, View
    <2> QED
        BY <1>2, <1>4, <2>1
<1> QED
    BY <1>5, <1>6

LEMMA RowDraws ==
    ASSUME NEW u, NEW top \in Nat, NEW base \in Nat, top <= base,
           NEW v \in Drawn(u, top, base), v.x = 0, v.y = 0
    PROVE  LET w == CRLF(Show(v, MessageRow)) IN
           /\ w \in Drawn(u, top, base + 1)
           /\ w.x = 0 /\ w.y = 0 /\ w.width = v.width /\ w.max = v.max
           /\ \A c \in Grid : c[1] > base => w.cells[c] = v.cells[c]
<1> DEFINE L == Len(MessageRow)
           t == Show(v, MessageRow)
           w == CRLF(t)
<1>1. /\ v \in View /\ v.row = base /\ v.col = v.x /\ ~v.late
      /\ v.x < v.width /\ v.width \in Widths
      /\ \A c \in Grid : c[1] < top => v.cells[c] = u.cells[c]
    BY DEF Drawn
<1>2. v.width \in Nat \ {0}
    BY <1>1, WidthsPositive
<1>3. MessageRow \in Line /\ L <= v.width
    BY <1>1, EditorAssumption
<1>4. L \in Nat /\ (L = 0 <=> MessageRow = <<>>)
    BY <1>3 DEF Line
<1>5. /\ t \in View /\ t.width = v.width /\ t.x = 0 /\ t.y = 0 /\ t.row = base
      /\ t.max = v.max
      /\ \A c \in Grid : c[1] < top => t.cells[c] = u.cells[c]
    <2>1. CASE MessageRow = <<>>
        BY <1>1, <2>1 DEF Show
    <2>2. CASE MessageRow # <<>>
        <3> DEFINE q == IF L = v.width THEN 1 ELSE 0
                   r == IF L = v.width THEN 0 ELSE L
        <3>1. q \in Nat /\ r \in Nat
            BY <1>4
        <3>2. Splits(v.x + L, v.width, q, r)
            <4>1. CASE L = v.width
                BY <1>2, <1>4, <4>1 DEF Splits
            <4>2. CASE L # v.width
                BY <1>2, <1>3, <1>4, <4>2 DEF Splits
            <4> QED
                BY <4>1, <4>2
        <3>3. (r = 0 => q = 1) /\ (r # 0 => q = 0)
            BY <1>4, <2>2
        <3> HIDE DEF q, r
        <3>4. /\ t \in View /\ t.width = v.width /\ t.x = v.x /\ t.y = v.y
              /\ t.max = v.max
              /\ r = 0 => t.row = v.row + q - 1 /\ q > 0
              /\ r # 0 => t.row = v.row + q /\ t.col = r /\ ~t.late
              /\ \A c \in Grid : c[1] < v.row => t.cells[c] = v.cells[c]
            BY <1>1, <1>2, <1>3, <2>2, <3>1, <3>2, ShowMoves
        <3>5. t.row = base
            BY <1>1, <3>1, <3>3, <3>4
        <3>6. ASSUME NEW c \in Grid, c[1] < top PROVE c[1] < v.row
            BY <1>1, <3>6, CellsOfGrid
        <3> QED
            BY <1>1, <3>4, <3>5, <3>6
    <2> QED
        BY <2>1, <2>2
<1>l. \A c \in Grid : c[1] > base => t.cells[c] = v.cells[c]
    BY <1>1, <1>2, <1>3, RowLeaves
<1> HIDE DEF t
<1>6. /\ w \in View /\ w.width = v.width /\ w.x = 0 /\ w.y = 0
      /\ w.row = base + 1 /\ w.col = 0 /\ ~w.late /\ w.cells = t.cells
      /\ w.max = t.max
    <2>1. base + 1 \in Nat /\ t.row + 1 = base + 1
        BY <1>5
    <2> QED
        BY <1>5, <2>1 DEF CRLF, View
<1> HIDE DEF w
<1>7. base + 1 = base + 1 + 0 /\ 0 < v.width
    BY <1>2
<1>8. w \in Drawn(u, top, base + 1)
    BY <1>1, <1>5, <1>6, <1>7 DEF Drawn
<1> QED
    BY <1>5, <1>6, <1>8, <1>l DEF w, t

LEMMA MessageDraws ==
    ASSUME NEW u, NEW top \in Nat, NEW base \in Nat, top <= base,
           NEW v \in Drawn(u, top, base), v.x = 0, v.y = 0, NEW n \in Nat
    PROVE  /\ Message(v, n) \in Drawn(u, top, base + n)
           /\ Message(v, n).x = 0 /\ Message(v, n).y = 0
           /\ Message(v, n).width = v.width /\ Message(v, n).max = v.max
           /\ \A c \in Grid :
                 c[1] >= base + n => Message(v, n).cells[c] = v.cells[c]
<1> DEFINE After(k) == {w \in Drawn(u, top, base + k) :
                           /\ w.x = 0 /\ w.y = 0 /\ w.width = v.width
                           /\ w.max = v.max
                           /\ \A c \in Grid :
                                 c[1] >= base + k => w.cells[c] = v.cells[c]}
           D == {w \in View : \E k \in Nat : w \in After(k)}
           row(w) == CRLF(Show(w, MessageRow))
           step == [i \in 1..n |-> [w \in D |-> row(w)]]
           R(f) == f = [i \in 0..n |-> IF i = 0 THEN v ELSE row(f[i - 1])]
<1>1. Message(v, n) = (CHOOSE f : R(f))[n]
    BY DEF Message
<1>2. ASSUME NEW k \in Nat, NEW w \in After(k) PROVE row(w) \in After(k + 1)
    <2> DEFINE b == base + k
    <2>1. b \in Nat /\ top <= b /\ b + 1 = base + (k + 1)
        OBVIOUS
    <2>2. /\ w \in Drawn(u, top, b) /\ w.x = 0 /\ w.y = 0 /\ w.width = v.width
          /\ w.max = v.max
          /\ \A c \in Grid : c[1] >= b => w.cells[c] = v.cells[c]
        OBVIOUS
    <2> HIDE DEF b
    <2>3. /\ row(w) \in Drawn(u, top, b + 1)
          /\ row(w).x = 0 /\ row(w).y = 0 /\ row(w).width = w.width
          /\ row(w).max = w.max
          /\ \A c \in Grid : c[1] > b => row(w).cells[c] = w.cells[c]
        <3>1. w \in Drawn(u, top, b) /\ w.x = 0 /\ w.y = 0
            BY <2>2
        <3> QED
            BY <2>1, <3>1, RowDraws
    <2> HIDE DEF row
    <2>4. ASSUME NEW c \in Grid, c[1] >= b + 1
          PROVE  row(w).cells[c] = v.cells[c]
        <3>1. c[1] > b /\ c[1] >= b
            BY <2>1, <2>4, CellsOfGrid
        <3> QED
            BY <2>2, <2>3, <3>1
    <2> QED
        BY <2>1, <2>2, <2>3, <2>4
<1>3. v \in After(0)
    <2>1. base + 0 = base
        OBVIOUS
    <2> QED
        BY <2>1
<1>4. \A k \in Nat : \A w \in After(k) : w \in D
    BY DEF Drawn
<1>5. step \in [1..n -> [D -> D]]
    <2>1. ASSUME NEW w \in D PROVE row(w) \in D
        <3>1. PICK k \in Nat : w \in After(k)
            OBVIOUS
        <3> HIDE DEF After, D, row
        <3>2. k + 1 \in Nat
            OBVIOUS
        <3> QED
            BY <1>2, <1>4, <3>1, <3>2
    <2> HIDE DEF D, row
    <2> QED
        BY <2>1
<1>6. PICK f \in [0..n -> D] : Repeats(f, v, n, step)
    <2>1. v \in D
        <3> HIDE DEF After, D
        <3> QED
            BY <1>3, <1>4
    <2> HIDE DEF D, step
    <2> QED
        BY <1>5, <2>1, Repeated
<1>7. R(f)
    <2> HIDE DEF D, row
    <2>1. ASSUME NEW i \in 1..n PROVE f[i] = row(f[i - 1])
        <3>1. f[i - 1] \in D
            OBVIOUS
        <3> QED
            BY <1>6, <3>1 DEF Repeats
    <2> QED
        BY <1>6, <2>1 DEF Repeats
<1>8. PICK g : R(g) /\ Message(v, n) = g[n]
    <2> HIDE DEF R
    <2> QED
        BY <1>1, <1>7
<1> HIDE DEF After, row
<1>9. \A k \in 0..n : g[k] \in After(k)
    <2> DEFINE S == {k \in Nat : k <= n => g[k] \in After(k)}
    <2>1. 0 \in S
        BY <1>3, <1>8
    <2>2. ASSUME NEW k \in Nat, k \in S PROVE k + 1 \in S
        <3> SUFFICES ASSUME k + 1 <= n PROVE g[k + 1] \in After(k + 1)
            OBVIOUS
        <3>1. g[k] \in After(k)
            BY <2>2
        <3>2. g[k + 1] = row(g[k])
            BY <1>8
        <3> QED
            BY <1>2, <3>1, <3>2
    <2> HIDE DEF S
    <2>3. \A k \in Nat : k \in S
        BY <2>1, <2>2, SetInduction
    <2> QED
        BY <2>3 DEF S
<1>10. Message(v, n) \in After(n)
    BY <1>8, <1>9
<1> QED
    BY <1>10 DEF After

-----------------------------------------------------------------------------
(* To clear rows from b on leaves what is above them.                      *)
LEMMA ClearsBelow ==
    ASSUME NEW v \in View, NEW S, NEW b \in Nat,
           \A c \in S : c \in Grid => c[1] >= b
    PROVE  /\ Clear(v, S) \in View
           /\ Clear(v, S).width = v.width /\ Clear(v, S).max = v.max
           /\ Clear(v, S).x = v.x /\ Clear(v, S).y = v.y
           /\ Clear(v, S).row = v.row /\ Clear(v, S).col = v.col
           /\ Clear(v, S).late = v.late
           /\ \A c \in Grid : c[1] < b => Clear(v, S).cells[c] = v.cells[c]
<1> DEFINE cells == [c \in Grid |-> IF c \in S THEN Blank ELSE v.cells[c]]
           w == [v EXCEPT !.cells = cells]
<1>1. Clear(v, S) = w
    BY DEF Clear
<1>2. cells \in [Grid -> Runes]
    BY BlankIsRune DEF View
<1>3. ASSUME NEW c \in Grid, c[1] < b PROVE cells[c] = v.cells[c]
    <2>1. c \notin S
        BY <1>3, CellsOfGrid
    <2> QED
        BY <2>1
<1> HIDE DEF cells
<1>4. /\ w \in View
      /\ w.width = v.width /\ w.max = v.max /\ w.x = v.x /\ w.y = v.y
      /\ w.row = v.row /\ w.col = v.col /\ w.late = v.late /\ w.cells = cells
    BY <1>2 DEF View
<1> HIDE DEF w
<1> QED
    BY <1>1, <1>3, <1>4

LEMMA RowsCleared ==
    ASSUME NEW v \in View, NEW rows, NEW a \in Nat, \A r \in rows : r >= a
    PROVE  /\ ClearToRight(v, rows) \in View
           /\ ClearToRight(v, rows).width = v.width
           /\ ClearToRight(v, rows).x = v.x /\ ClearToRight(v, rows).y = v.y
           /\ ClearToRight(v, rows).row = v.row
           /\ ClearToRight(v, rows).col = v.col
           /\ ClearToRight(v, rows).late = v.late
           /\ \A c \in Grid :
                 c[1] < a => ClearToRight(v, rows).cells[c] = v.cells[c]
<1> DEFINE S == {c \in Grid : c[1] \in rows /\ c[2] >= v.col}
<1>1. ClearToRight(v, rows) = Clear(v, S)
    BY DEF ClearToRight
<1>2. \A c \in S : c \in Grid => c[1] >= a
    OBVIOUS
<1> HIDE DEF S
<1> QED
    BY <1>1, <1>2, ClearsBelow

(* To the start of the line, and what a repaint or a message clears.       *)
Home(v) == [MoveBy(v, 0 - v.y, 0 - v.x) EXCEPT !.x = 0, !.y = 0]

LEMMA HomeDraws ==
    ASSUME NEW u, NEW top \in Nat, NEW base \in Nat, NEW v \in Drawn(u, top, base)
    PROVE  /\ Home(v) \in Drawn(u, top, base) /\ Home(v).width = v.width
           /\ Home(v).x = 0 /\ Home(v).y = 0 /\ Home(v).row = base
           /\ Home(v).cells = v.cells /\ Home(v).max = v.max
<1> DEFINE m == MoveBy(v, 0 - v.y, 0 - v.x)
           w == [m EXCEPT !.x = 0, !.y = 0]
<1>1. /\ v \in View /\ v.row = base + v.y /\ v.col = v.x /\ ~v.late
      /\ v.x < v.width /\ v.width \in Widths
      /\ \A c \in Grid : c[1] < top => v.cells[c] = u.cells[c]
    BY DEF Drawn
<1>2. /\ v.width \in Nat \ {0} /\ v.x \in Nat /\ v.y \in Nat /\ v.row \in Nat
      /\ base = base + 0
    BY <1>1, WidthsPositive DEF View
<1>3. /\ m \in View /\ m.width = v.width /\ m.row = base /\ m.col = 0
      /\ ~m.late /\ m.cells = v.cells /\ m.max = v.max
    <2>1. CASE v.x = 0 /\ v.y = 0
        <3>1. 0 - v.x = 0 /\ 0 - v.y = 0
            BY <2>1
        <3>2. m = v
            BY <3>1 DEF MoveBy
        <3>3. v.row = base
            BY <1>1, <1>2, <2>1
        <3> HIDE DEF m
        <3> QED
            BY <1>1, <2>1, <3>2, <3>3
    <2>2. CASE ~(v.x = 0 /\ v.y = 0)
        <3> DEFINE row == AtLeast0(v.row + (0 - v.y))
                   col == Below(AtLeast0(v.col + (0 - v.x)), v.width - 1)
        <3>1. row = base /\ col = 0
            BY <1>1, <1>2 DEF AtLeast0, Below
        <3>2. ~(0 - v.y = 0 /\ 0 - v.x = 0)
            BY <1>2, <2>2
        <3>3. m = [v EXCEPT !.row = row, !.col = col, !.late = FALSE]
            BY <3>2 DEF MoveBy
        <3> HIDE DEF row, col, m
        <3> QED
            BY <1>1, <3>1, <3>3 DEF View
    <2> QED
        BY <2>1, <2>2
<1> HIDE DEF m
<1>4. /\ w \in View /\ w.width = v.width /\ w.x = 0 /\ w.y = 0
      /\ w.row = base /\ w.col = 0 /\ ~w.late /\ w.cells = v.cells
      /\ w.max = v.max
    BY <1>3 DEF View
<1> HIDE DEF w
<1>5. w \in Drawn(u, top, base)
    BY <1>1, <1>2, <1>4 DEF Drawn
<1> QED
    BY <1>4, <1>5 DEF w, m, Home

LEMMA ClearedHome ==
    ASSUME NEW u, NEW top \in Nat, NEW base \in Nat, top <= base,
           NEW v \in Drawn(u, top, base), v.x = 0, v.y = 0,
           NEW rows, \A r \in rows : r >= base
    PROVE  ClearToRight(v, rows) \in Drawn(u, top, base)
<1> DEFINE w == ClearToRight(v, rows)
<1>1. /\ v \in View /\ v.row = base + v.y /\ v.col = v.x /\ ~v.late
      /\ v.x < v.width /\ v.width \in Widths
      /\ \A c \in Grid : c[1] < top => v.cells[c] = u.cells[c]
    BY DEF Drawn
<1>2. /\ w \in View /\ w.width = v.width
      /\ w.x = v.x /\ w.y = v.y /\ w.row = v.row /\ w.col = v.col
      /\ w.late = v.late
      /\ \A c \in Grid : c[1] < base => w.cells[c] = v.cells[c]
    BY <1>1, RowsCleared
<1>3. \A c \in Grid : c[1] < top => c[1] < base
    BY CellsOfGrid
<1> HIDE DEF w
<1>4. w \in Drawn(u, top, base)
    BY <1>1, <1>2, <1>3 DEF Drawn
<1> QED
    BY <1>4 DEF w

LEMMA ClearUpDraws ==
    ASSUME NEW u, NEW top \in Nat, NEW base \in Nat, top <= base,
           NEW v \in Drawn(u, top, base)
    PROVE  LET w == ClearUp(v) IN
           /\ w \in Drawn(u, top, base) /\ w.x = 0 /\ w.y = 0 /\ w.width = v.width
           /\ w.max = v.max
           /\ \A c \in Grid : w.cells[c] = IF c[1] >= base /\ c[1] <= v.row
                                          THEN Blank ELSE v.cells[c]
<1> DEFINE m == MoveBy(v, 0, 0 - v.x)
           t == ClearToRight(m, base..m.row)
           w == [t EXCEPT !.row = base, !.x = 0, !.y = 0]
<1>1. /\ v \in View /\ v.row = base + v.y /\ v.col = v.x /\ ~v.late
      /\ v.x < v.width /\ v.width \in Widths
      /\ \A c \in Grid : c[1] < top => v.cells[c] = u.cells[c]
    BY DEF Drawn
<1>2. /\ v.width \in Nat \ {0} /\ v.x \in Nat /\ v.y \in Nat /\ v.row \in Nat
      /\ base = base + 0
    BY <1>1, WidthsPositive DEF View
<1>3. /\ m \in View /\ m.width = v.width /\ m.row = v.row /\ m.col = 0
      /\ ~m.late /\ m.cells = v.cells /\ m.max = v.max
    <2>1. CASE v.x = 0
        <3>1. 0 - v.x = 0
            BY <2>1
        <3>2. m = v
            BY <3>1 DEF MoveBy
        <3> HIDE DEF m
        <3> QED
            BY <1>1, <2>1, <3>2
    <2>2. CASE v.x # 0
        <3> DEFINE row == AtLeast0(v.row + 0)
                   col == Below(AtLeast0(v.col + (0 - v.x)), v.width - 1)
        <3>1. row = v.row /\ col = 0
            BY <1>1, <1>2 DEF AtLeast0, Below
        <3>2. m = [v EXCEPT !.row = row, !.col = col, !.late = FALSE]
            BY <1>2, <2>2 DEF MoveBy
        <3> HIDE DEF row, col, m
        <3> QED
            BY <1>1, <3>1, <3>2 DEF View
    <2> QED
        BY <2>1, <2>2
<1>4. ClearUp(v) = w
    <2>1. AtLeast0(m.row - v.y) = base
        BY <1>1, <1>2, <1>3 DEF AtLeast0
    <2> QED
        BY <2>1 DEF ClearUp
<1> HIDE DEF m
<1>c. \A c \in Grid : t.cells[c] = IF c[1] >= base /\ c[1] <= v.row
                                    THEN Blank ELSE v.cells[c]
    <2>1. \A c \in Grid : t.cells[c] = IF c[1] \in base..m.row /\ c[2] >= m.col
                                      THEN Blank ELSE v.cells[c]
        BY <1>3 DEF ClearToRight, Clear, View
    <2>2. ASSUME NEW c \in Grid
          PROVE  (c[1] \in base..m.row /\ c[2] >= m.col)
                    <=> (c[1] >= base /\ c[1] <= v.row)
        BY <1>2, <1>3, CellsOfGrid
    <2> HIDE DEF t
    <2> QED
        BY <2>1, <2>2
<1>d. t.max = v.max
    BY <1>3 DEF ClearToRight, Clear, View
<1>5. /\ t \in View /\ t.width = v.width /\ t.col = 0 /\ t.late = m.late
      /\ \A c \in Grid : c[1] < base => t.cells[c] = v.cells[c]
    <2>1. m.row \in Nat
        BY <1>2, <1>3
    <2>2. \A r \in base..m.row : r >= base
        BY <2>1
    <2> HIDE DEF t
    <2>3. /\ t \in View /\ t.width = m.width /\ t.col = m.col
          /\ t.late = m.late
          /\ \A c \in Grid : c[1] < base => t.cells[c] = m.cells[c]
        BY <1>3, <2>2, RowsCleared DEF t
    <2> QED
        BY <1>3, <2>3
<1> HIDE DEF t
<1>6. /\ w \in View /\ w.width = v.width /\ w.col = 0 /\ ~w.late /\ w.x = 0
      /\ w.y = 0 /\ w.row = base /\ w.cells = t.cells /\ w.max = t.max
    BY <1>3, <1>5 DEF View
<1> HIDE DEF w
<1>7. \A c \in Grid : c[1] < top => c[1] < base
    BY CellsOfGrid
<1>8. w \in Drawn(u, top, base)
    BY <1>1, <1>2, <1>5, <1>6, <1>7 DEF Drawn
<1> QED
    BY <1>4, <1>6, <1>8, <1>c, <1>d

LEMMA RepaintDraws ==
    ASSUME NEW u, NEW top \in Nat, NEW base \in Nat, top <= base,
           NEW v \in Drawn(u, top, base), NEW s \in Line, NEW p \in Nat,
           NEW rows \in Nat, prompt \in Line
    PROVE  clearAndRepaint(v, s, p, rows) \in Drawn(u, top, base)
<1> DEFINE clean == ClearToRight(Home(v), base..(base + rows))
<1>1. Home(v) \in Drawn(u, top, base) /\ Home(v).row = base
    BY HomeDraws
<1>2. Home(v).x = 0 /\ Home(v).y = 0
    BY HomeDraws
<1>3. clean \in Drawn(u, top, base)
    <2>1. \A r \in base..(base + rows) : r >= base
        OBVIOUS
    <2> QED
        BY <1>1, <1>2, <2>1, ClearedHome
<1>4. clearAndRepaint(v, s, p, rows) =
          moveCursorToPos(writeLine(Text(clean, prompt), s), p)
    BY <1>1 DEF clearAndRepaint, Home
<1> HIDE DEF clean
<1>5. Text(clean, prompt) \in Drawn(u, top, base)
    BY <1>3, TextDraws
<1>6. writeLine(Text(clean, prompt), s) \in Drawn(u, top, base)
    BY <1>5, WriteLineDraws
<1> QED
    BY <1>4, <1>6, CursorMoves

(* Clearing the screen takes all that was said away.                       *)
EmptyView == [ClearAll(view) EXCEPT !.x = 0, !.y = 0]

LEMMA EmptyViewDraws ==
    ASSUME NEW u, view \in View
    PROVE  /\ EmptyView \in Drawn(u, 0, 0) /\ EmptyView.x = 0 /\ EmptyView.y = 0
           /\ EmptyView.cells = EmptyGrid
<1> DEFINE w == EmptyView
<1>1. EmptyGrid \in [Grid -> Runes]
    BY BlankIsRune DEF EmptyGrid
<1>2. /\ ClearAll(view) \in View /\ ClearAll(view).width = view.width
      /\ ClearAll(view).row = 0 /\ ClearAll(view).col = 0
      /\ ~ClearAll(view).late /\ ClearAll(view).cells = EmptyGrid
    BY <1>1 DEF ClearAll, View
<1>3. /\ w \in View /\ w.width = view.width /\ w.x = 0 /\ w.y = 0
      /\ w.row = 0 /\ w.col = 0 /\ ~w.late /\ w.cells = EmptyGrid
    BY <1>2 DEF View, EmptyView
<1> HIDE DEF w
<1>4. view.width \in Widths /\ 0 < view.width
    BY WidthsPositive DEF View
<1>5. \A c \in Grid : ~(c[1] < 0)
    BY CellsOfGrid
<1>6. w \in Drawn(u, 0, 0)
    BY <1>3, <1>4, <1>5 DEF Drawn
<1> QED
    BY <1>3, <1>6 DEF w

LEMMA ClearedScreenDraws ==
    ASSUME NEW u, view \in View, prompt \in Line
    PROVE  ClearedScreen \in Drawn(u, 0, 0)
<1>1. EmptyView \in Drawn(u, 0, 0)
    BY EmptyViewDraws
<1>2. 0 \in Nat /\ 0 <= 0
    OBVIOUS
<1>3. Text(EmptyView, prompt) \in Drawn(u, 0, 0)
    BY <1>1, <1>2, TextDraws
<1> QED
    BY <1>3 DEF ClearedScreen, EmptyView

-----------------------------------------------------------------------------
(* Text taken apart and put together.                                      *)
LEMMA SliceIsText ==
    ASSUME NEW s \in Line, NEW a \in Nat \ {0}, NEW b \in 0..Len(s)
    PROVE  /\ SubSeq(s, a, b) \in Line
           /\ Len(SubSeq(s, a, b)) = IF a <= b THEN b - a + 1 ELSE 0
<1>1. \A i \in a..b : s[i] \in Runes
    BY DEF Line
<1>2. a \in Int /\ b \in Int
    BY DEF Line
<1> QED
    BY <1>1, <1>2, SubSeqProperties DEF Line

LEMMA JoinIsText ==
    ASSUME NEW s \in Line, NEW t \in Line
    PROVE  s \o t \in Line /\ Len(s \o t) = Len(s) + Len(t)
BY DEF Line

LEMMA BlanksAreText ==
    ASSUME NEW n \in Nat
    PROVE  Blanks(n) \in Line
<1>1. Blanks(n) \in [1..n -> Runes]
    BY BlankIsRune DEF Blanks
<1> QED
    BY <1>1, SeqDef DEF Line

-----------------------------------------------------------------------------
(* Where the words next to the cursor start.                               *)
LEMMA LeftWordInLine ==
    ASSUME line \in Line, pos \in 0..Len(line)
    PROVE  countToLeftWord \in 0..pos
<1> DEFINE words == {i \in 1..pos : i = 1 \/ ~Space(i)}
           last == CHOOSE i \in words : \A j \in words : j <= i
           gaps == {i \in 2..last : Space(i)}
           gap == CHOOSE i \in gaps : \A j \in gaps : j <= i
<1>1. pos \in Nat
    BY DEF Line
<1>2. countToLeftWord = IF pos = 0 THEN 0 ELSE IF gaps = {} THEN pos ELSE pos - gap
    BY DEF countToLeftWord
<1>3. CASE pos = 0
    BY <1>2, <1>3
<1>4. CASE pos # 0 /\ gaps = {}
    BY <1>1, <1>2, <1>4
<1>5. CASE pos # 0 /\ gaps # {}
    <2>1. words \subseteq 0..pos /\ words # {}
        <3>1. 1 \in words
            BY <1>1, <1>5
        <3> QED
            BY <1>1, <3>1
    <2>2. last \in words
        <3> HIDE DEF words
        <3>1. \E i \in words : \A j \in words : j <= i
            BY <1>1, <2>1, Greatest1
        <3> QED
            BY <3>1
    <2>3. last \in 1..pos
        BY <2>2
    <2> HIDE DEF last
    <2>4. gaps \subseteq 0..pos
        BY <1>1, <2>3
    <2>5. gap \in gaps
        <3> HIDE DEF gaps
        <3>1. \E i \in gaps : \A j \in gaps : j <= i
            BY <1>1, <1>5, <2>4, Greatest1
        <3> QED
            BY <3>1
    <2>6. gap \in 0..pos
        BY <2>4, <2>5
    <2> HIDE DEF gap, gaps
    <2> QED
        BY <1>1, <1>2, <1>5, <2>6
<1> QED
    BY <1>3, <1>4, <1>5

LEMMA RightWordInLine ==
    ASSUME line \in Line, pos \in 0..Len(line)
    PROVE  pos + countToRightWord \in 0..Len(line)
<1> DEFINE starts == {i \in (pos + 2)..Len(line) : Space(i - 1) /\ ~Space(i)}
<1>1. pos \in Nat /\ Len(line) \in Nat /\ pos <= Len(line)
    BY DEF Line
<1>2. countToRightWord =
          IF starts = {} THEN Len(line) - pos ELSE First(starts) - pos - 1
    BY DEF countToRightWord
<1>3. CASE starts = {}
    <2>1. countToRightWord = Len(line) - pos
        BY <1>2, <1>3
    <2> QED
        BY <1>1, <2>1
<1>4. CASE starts # {}
    <2>1. starts \subseteq Nat
        BY <1>1
    <2>2. First(starts) \in starts
        <3> HIDE DEF starts
        <3>1. \E n \in starts : \A m \in starts : n <= m
            BY <1>4, <2>1, Least1
        <3> QED
            BY <3>1 DEF First
    <2>3. First(starts) \in (pos + 2)..Len(line)
        BY <2>2
    <2>4. countToRightWord = First(starts) - pos - 1
        BY <1>2, <1>4
    <2> HIDE DEF starts
    <2> QED
        BY <1>1, <2>3, <2>4
<1> QED
    BY <1>3, <1>4

-----------------------------------------------------------------------------
(* Changes of the line: there is a line and a cursor in it, and the screen *)
(* is drawn on from row n only.                                            *)
Edited(n) ==
    /\ line' \in Line
    /\ pos' \in 0..Len(line')
    /\ view' \in Drawn(view, n, n)

LEMMA SetLineEdits ==
    ASSUME NEW n \in Nat, NEW v \in Drawn(view, n, n), line \in Line,
           prompt \in Line, NEW l \in Line, NEW p \in 0..Len(l),
           setLine(v, l, p)
    PROVE  Edited(n)
<1> DEFINE k == AtLeast0(Len(line) - Len(l))
           shown1 == writeLine(moveCursorToPos(v, 0), l)
           wiped == writeLine(shown1, Blanks(k))
<1>1. k \in Nat /\ p \in Nat /\ n <= n /\ 0 \in Nat
    BY DEF AtLeast0, Line
<1>2. line' = l /\ pos' = p /\ view' = moveCursorToPos(wiped, p)
    BY DEF setLine, Put
<1> HIDE DEF k
<1>3. moveCursorToPos(v, 0) \in Drawn(view, n, n)
    BY <1>1, CursorMoves
<1>4. shown1 \in Drawn(view, n, n)
    BY <1>1, <1>3, WriteLineDraws
<1> HIDE DEF shown1
<1>5. wiped \in Drawn(view, n, n)
    BY <1>1, <1>4, BlanksAreText, WriteLineDraws
<1> HIDE DEF wiped
<1>6. moveCursorToPos(wiped, p) \in Drawn(view, n, n)
    BY <1>1, <1>5, CursorMoves
<1> QED
    BY <1>2, <1>6 DEF Edited

LEMMA EraseEdits ==
    ASSUME NEW n \in Nat, view \in Drawn(view, n, n), line \in Line,
           prompt \in Line, pos \in 0..Len(line),
           NEW at \in 0..Len(line), NEW count \in Nat, EraseBefore(at, count)
    PROVE  Edited(n)
<1>1. CASE count = 0
    BY <1>1 DEF EraseBefore, Nothing, Edited
<1>2. CASE count # 0
    <2> DEFINE k == IF at < count THEN at ELSE count
               tail == SubSeq(line, at + 1, Len(line))
               head == SubSeq(line, 1, at - k)
               v == writeLine(moveCursorToPos(view, at - k), tail)
               w == Text(v, Blanks(k))
    <2>1. Len(line) \in Nat /\ n <= n
        BY DEF Line
    <2>2. k \in Nat /\ at - k \in 0..Len(line)
        BY <2>1
    <2>3. /\ line' = head \o tail /\ pos' = at - k
          /\ view' = moveCursorToPos(w, at - k)
        BY <1>2 DEF EraseBefore, Put
    <2> HIDE DEF k
    <2>4. head \in Line /\ Len(head) = at - k
        BY <2>1, <2>2, SliceIsText
    <2>5. tail \in Line
        BY <2>1, SliceIsText
    <2> HIDE DEF head, tail
    <2>6. line' \in Line /\ pos' \in 0..Len(line')
        <3>1. Len(tail) \in Nat
            BY <2>5 DEF Line
        <3> QED
            BY <2>2, <2>3, <2>4, <2>5, <3>1, JoinIsText
    <2>7. at - k \in Nat
        BY <2>1, <2>2
    <2>8. moveCursorToPos(view, at - k) \in Drawn(view, n, n)
        BY <2>7, CursorMoves
    <2>9. v \in Drawn(view, n, n)
        BY <2>1, <2>5, <2>8, WriteLineDraws
    <2> HIDE DEF v
    <2>10. w \in Drawn(view, n, n)
        BY <2>1, <2>2, <2>9, BlanksAreText, TextDraws
    <2> HIDE DEF w
    <2>11. moveCursorToPos(w, at - k) \in Drawn(view, n, n)
        BY <2>7, <2>10, CursorMoves
    <2> QED
        BY <2>3, <2>6, <2>11 DEF Edited
<1> QED
    BY <1>1, <1>2

LEMMA PutAtEdits ==
    ASSUME NEW n \in Nat, view \in Drawn(view, n, n), line \in Line,
           prompt \in Line, NEW p \in 0..Len(line), PutAt(p)
    PROVE  Edited(n)
<1>1. p \in Nat
    BY DEF Line
<1>2. line' = line /\ pos' = p /\ view' = moveCursorToPos(view, p)
    BY DEF PutAt, Put
<1>3. moveCursorToPos(view, p) \in Drawn(view, n, n)
    BY <1>1, CursorMoves
<1> QED
    BY <1>2, <1>3 DEF Edited

LEMMA AddKeyEdits ==
    ASSUME NEW n \in Nat, view \in Drawn(view, n, n), line \in Line,
           prompt \in Line, pos \in 0..Len(line), NEW k \in Runes,
           addKeyToLine(k)
    PROVE  Edited(n)
<1> DEFINE head == SubSeq(line, 1, pos)
           tail == SubSeq(line, pos + 1, Len(line))
           l == head \o <<k>> \o tail
           shows == SubSeq(l, pos + 1, Len(l))
           v == writeLine(view, shows)
<1>1. Len(line) \in Nat /\ pos \in Nat /\ n <= n
    BY DEF Line
<1>2. head \in Line /\ Len(head) = pos
    BY <1>1, SliceIsText
<1>3. tail \in Line
    BY <1>1, SliceIsText
<1>4. pos + 1 - 1 = pos
    BY <1>1
<1>5. line' = l /\ pos' = pos + 1 /\ view' = moveCursorToPos(v, pos + 1)
    BY <1>4 DEF addKeyToLine, Put, InsertAt
<1> HIDE DEF head, tail
<1>6. <<k>> \in Line /\ Len(<<k>>) = 1
    BY DEF Line
<1>7. head \o <<k>> \in Line /\ Len(head \o <<k>>) = pos + 1
    BY <1>1, <1>2, <1>6, JoinIsText
<1>8. l \in Line /\ Len(l) = pos + 1 + Len(tail)
    BY <1>1, <1>3, <1>7, JoinIsText
<1> HIDE DEF l
<1>9. Len(l) \in Nat /\ pos + 1 \in 0..Len(l)
    <2>1. Len(tail) \in Nat
        BY <1>3 DEF Line
    <2> QED
        BY <1>1, <1>8, <2>1
<1>10. shows \in Line
    BY <1>1, <1>8, <1>9, SliceIsText
<1> HIDE DEF shows
<1>11. v \in Drawn(view, n, n)
    BY <1>1, <1>10, WriteLineDraws
<1> HIDE DEF v
<1>12. moveCursorToPos(v, pos + 1) \in Drawn(view, n, n)
    BY <1>1, <1>11, CursorMoves
<1> QED
    BY <1>5, <1>8, <1>9, <1>12 DEF Edited

LEMMA DeleteLineEdits ==
    ASSUME NEW n \in Nat, view \in Drawn(view, n, n), line \in Line,
           prompt \in Line, pos \in 0..Len(line), DeleteLine
    PROVE  Edited(n)
<1> DEFINE k == Len(line) - pos
           v == writeLine(view, Blanks(k))
<1>1. k \in Nat /\ pos \in Nat /\ n <= n
    BY DEF Line
<1>2. line' = SubSeq(line, 1, pos) /\ pos' = pos /\ view' = moveCursorToPos(v, pos)
    BY DEF DeleteLine, Put
<1> HIDE DEF k
<1>3. v \in Drawn(view, n, n)
    BY <1>1, BlanksAreText, WriteLineDraws
<1> HIDE DEF v
<1>4. moveCursorToPos(v, pos) \in Drawn(view, n, n)
    BY <1>1, <1>3, CursorMoves
<1>5. line' \in Line /\ Len(line') = pos
    BY <1>1, <1>2, SliceIsText
<1> QED
    BY <1>1, <1>2, <1>4, <1>5 DEF Edited

(* What a completion, and a line of the ring, come down to.                *)
Sets == \E l \in Line : \E p \in 0..Len(l) : setLine(view, l, p)

LEMMA CompleteSets ==
    ASSUME line \in Line, pos \in 0..Len(line),
           NEW w \in Words \cup {<<>>}, Complete(w)
    PROVE  Sets
<1> DEFINE ends == {i \in 1..pos : Space(i)}
           start == IF ends = {} THEN 0
                    ELSE CHOOSE i \in ends : \A j \in ends : j <= i
           new == Append(w, " ")
           head == SubSeq(line, 1, start)
           tail == SubSeq(line, pos + 1, Len(line))
           l == head \o new \o tail
<1>1. Len(line) \in Nat /\ pos \in Nat /\ pos <= Len(line)
    BY DEF Line
<1>2. setLine(view, l, start + Len(new))
    BY DEF Complete
<1>3. start \in 0..pos
    <2>1. CASE ends = {}
        BY <1>1, <2>1
    <2>2. CASE ends # {}
        <3>1. ends \subseteq 0..pos
            BY <1>1
        <3>2. start \in ends
            <4> HIDE DEF ends
            <4>1. \E i \in ends : \A j \in ends : j <= i
                BY <1>1, <2>2, <3>1, Greatest1
            <4> QED
                BY <2>2, <4>1
        <3> QED
            BY <3>1, <3>2
    <2> QED
        BY <2>1, <2>2
<1> HIDE DEF start
<1>4. head \in Line /\ Len(head) = start
    BY <1>1, <1>3, SliceIsText
<1>5. tail \in Line /\ Len(tail) \in Nat
    <2>1. tail \in Line
        BY <1>1, SliceIsText
    <2> QED
        BY <2>1 DEF Line
<1>6. new \in Line /\ Len(new) \in Nat
    <2>1. w \in Line
        <3>1. <<>> \in Line
            BY DEF Line
        <3> QED
            BY <3>1, EditorAssumption
    <2>2. " " \in Runes
        BY DEF Runes
    <2>3. new \in Seq(Runes)
        BY <2>1, <2>2, AppendProperties DEF Line
    <2> HIDE DEF new
    <2> QED
        BY <2>3 DEF Line
<1> HIDE DEF head, tail, new
<1>7. head \o new \in Line /\ Len(head \o new) = start + Len(new)
    BY <1>4, <1>6, JoinIsText
<1>8. l \in Line /\ Len(l) = start + Len(new) + Len(tail)
    BY <1>5, <1>7, JoinIsText
<1> HIDE DEF l
<1>9. start + Len(new) \in 0..Len(l)
    BY <1>1, <1>3, <1>5, <1>6, <1>8
<1> QED
    BY <1>2, <1>8, <1>9 DEF Sets

(* Every way to change the line but to enter it and to clear the screen.   *)
Changed ==
    \/ Nothing
    \/ \E p \in 0..Len(line) : PutAt(p)
    \/ \E at \in 0..Len(line) : \E c \in Nat : EraseBefore(at, c)
    \/ \E k \in Runes : addKeyToLine(k)
    \/ DeleteLine
    \/ Sets

LEMMA ChangedEdits ==
    ASSUME NEW n \in Nat, view \in Drawn(view, n, n), line \in Line,
           prompt \in Line, pos \in 0..Len(line), Changed
    PROVE  Edited(n)
<1>1. CASE Nothing
    BY <1>1 DEF Nothing, Edited
<1>2. CASE \E p \in 0..Len(line) : PutAt(p)
    BY <1>2, PutAtEdits
<1>3. CASE \E at \in 0..Len(line) : \E c \in Nat : EraseBefore(at, c)
    BY <1>3, EraseEdits
<1>4. CASE \E k \in Runes : addKeyToLine(k)
    BY <1>4, AddKeyEdits
<1>5. CASE DeleteLine
    BY <1>5, DeleteLineEdits
<1>6. CASE Sets
    <2>1. PICK l \in Line : \E p \in 0..Len(l) : setLine(view, l, p)
        BY <1>6 DEF Sets
    <2> QED
        BY <2>1, SetLineEdits
<1> QED
    BY <1>1, <1>2, <1>3, <1>4, <1>5, <1>6 DEF Changed

(* Every key that edits.                                                   *)
LEMMA KeyChanges ==
    ASSUME line \in Line, pos \in 0..Len(line), NEW k, EditKey(k)
    PROVE  IF k = "clear" THEN setLine(ClearedScreen, line, pos) ELSE Changed
<1>1. pos \in Nat /\ Len(line) \in Nat /\ pos <= Len(line)
    BY DEF Line
<1>2. Nothing => Changed
    BY DEF Changed
<1>3. ASSUME NEW p \in 0..Len(line), PutAt(p) PROVE Changed
    BY <1>3 DEF Changed
<1>4. ASSUME NEW at \in 0..Len(line), NEW c \in Nat, EraseBefore(at, c)
      PROVE  Changed
    BY <1>4 DEF Changed
<1>5. countToLeftWord \in 0..pos /\ pos + countToRightWord \in 0..Len(line)
    BY LeftWordInLine, RightWordInLine
<1>6. k # "clear" => Changed
    <2> SUFFICES ASSUME k # "clear" PROVE Changed
        OBVIOUS
    <2>1. CASE k = "backspace" /\ IF pos = 0 THEN Nothing ELSE EraseBefore(pos, 1)
        <3>1. pos \in 0..Len(line) /\ 1 \in Nat
            OBVIOUS
        <3> QED
            BY <1>2, <1>4, <2>1, <3>1
    <2>2. CASE PutAt(pos - countToLeftWord)
        <3>1. pos - countToLeftWord \in 0..Len(line)
            BY <1>1, <1>5
        <3> QED
            BY <1>3, <2>2, <3>1
    <2>3. CASE PutAt(pos + countToRightWord)
        BY <1>3, <1>5, <2>3
    <2>4. CASE IF pos = 0 THEN Nothing ELSE PutAt(pos - 1)
        <3>1. pos # 0 => pos - 1 \in 0..Len(line)
            BY <1>1
        <3> QED
            BY <1>2, <1>3, <2>4, <3>1
    <2>5. CASE IF pos = Len(line) THEN Nothing ELSE PutAt(pos + 1)
        <3>1. pos # Len(line) => pos + 1 \in 0..Len(line)
            BY <1>1
        <3> QED
            BY <1>2, <1>3, <2>5, <3>1
    <2>6. CASE IF pos = 0 THEN Nothing ELSE PutAt(0)
        <3>1. 0 \in 0..Len(line)
            BY <1>1
        <3> QED
            BY <1>2, <1>3, <2>6, <3>1
    <2>7. CASE IF pos = Len(line) THEN Nothing ELSE PutAt(Len(line))
        <3>1. Len(line) \in 0..Len(line)
            BY <1>1
        <3> QED
            BY <1>2, <1>3, <2>7, <3>1
    <2>8. CASE EraseBefore(pos, countToLeftWord)
        <3>1. countToLeftWord \in Nat
            BY <1>1, <1>5
        <3> QED
            BY <1>4, <2>8, <3>1
    <2>9. CASE DeleteLine
        BY <2>9 DEF Changed
    <2>10. CASE EraseBefore(pos, pos)
        BY <1>1, <1>4, <2>10
    <2>11. CASE IF pos < Len(line) THEN EraseBefore(pos + 1, 1) ELSE Nothing
        <3>1. pos < Len(line) => pos + 1 \in 0..Len(line) /\ 1 \in Nat
            BY <1>1
        <3> QED
            BY <1>2, <1>4, <2>11, <3>1
    <2>12. CASE Nothing
        BY <1>2, <2>12
    <2>13. CASE \E w \in Words \cup {<<>>} : Complete(w)
        BY <2>13, CompleteSets DEF Changed
    <2>14. CASE /\ k \in Runes \ {"unknown"}
                /\ IF Len(line) = MaxLine THEN Nothing ELSE addKeyToLine(k)
        <3>1. addKeyToLine(k) => Changed
            BY <2>14 DEF Changed
        <3> QED
            BY <1>2, <2>14, <3>1
    <2> QED
        BY <2>1, <2>2, <2>3, <2>4, <2>5, <2>6, <2>7, <2>8, <2>9, <2>10, <2>11,
           <2>12, <2>13, <2>14 DEF EditKey
<1>7. k = "clear" => setLine(ClearedScreen, line, pos)
    <2>1. "clear" \notin Runes
        BY DEF Runes, Enders, Letters
    <2> QED
        BY <2>1 DEF EditKey
<1> QED
    BY <1>6, <1>7

-----------------------------------------------------------------------------
(* The ring of earlier lines.                                              *)
HistoryOK ==
    /\ log \in Seq(Line) /\ Len(log) <= HistoryLen
    /\ index \in -1..(Len(log) - 1)
    /\ pending \in Line

LEMMA UpChanges ==
    ASSUME line \in Line, HistoryOK, Up, log' = log
    PROVE  Changed /\ HistoryOK'
<1>1. Len(log) \in Nat /\ index \in Int /\ index >= -1
    BY DEF HistoryOK
<1>2. CASE index + 1 < Len(log)
    <2> DEFINE l == NthPreviousEntry(index + 1)
    <2>1. Len(log) - (index + 1) \in 1..Len(log)
        BY <1>1, <1>2
    <2>2. l \in Line
        BY <2>1, ElementOfSeq DEF NthPreviousEntry, HistoryOK
    <2>3. /\ pending' = IF index = -1 THEN line ELSE pending
          /\ index' = index + 1
          /\ setLine(view, l, Len(l))
        BY <1>2 DEF Up
    <2> HIDE DEF l
    <2>4. Len(l) \in 0..Len(l)
        BY <2>2 DEF Line
    <2>5. Changed
        BY <2>2, <2>3, <2>4 DEF Changed, Sets
    <2>6. index' \in -1..(Len(log) - 1)
        BY <1>1, <1>2, <2>3
    <2>7. pending' \in Line
        BY <2>3 DEF HistoryOK
    <2> QED
        BY <2>5, <2>6, <2>7 DEF HistoryOK
<1>3. CASE ~(index + 1 < Len(log))
    <2>1. Nothing /\ UNCHANGED <<index, pending>>
        BY <1>3 DEF Up
    <2> QED
        BY <2>1 DEF Changed, HistoryOK
<1> QED
    BY <1>2, <1>3

LEMMA DownChanges ==
    ASSUME HistoryOK, Down, log' = log
    PROVE  Changed /\ HistoryOK'
<1>1. Len(log) \in Nat /\ index \in Int /\ index >= -1 /\ index < Len(log)
    BY DEF HistoryOK
<1>2. CASE index = -1
    <2>1. Nothing /\ UNCHANGED <<index, pending>>
        BY <1>2 DEF Down
    <2> QED
        BY <2>1 DEF Changed, HistoryOK
<1>3. CASE index # -1
    <2> DEFINE l == IF index = 0 THEN pending ELSE NthPreviousEntry(index - 1)
    <2>1. index # 0 => Len(log) - (index - 1) \in 1..Len(log)
        BY <1>1, <1>3
    <2>2. l \in Line
        BY <2>1, ElementOfSeq DEF NthPreviousEntry, HistoryOK
    <2>3. /\ pending' = pending
          /\ index' = index - 1
          /\ setLine(view, l, Len(l))
        BY <1>3 DEF Down
    <2> HIDE DEF l
    <2>4. Len(l) \in 0..Len(l)
        BY <2>2 DEF Line
    <2>5. Changed
        BY <2>2, <2>3, <2>4 DEF Changed, Sets
    <2>6. index' \in -1..(Len(log) - 1)
        BY <1>1, <1>3, <2>3
    <2> QED
        BY <2>3, <2>5, <2>6 DEF HistoryOK
<1> QED
    BY <1>2, <1>3

(* A line that is entered leaves the screen to what comes below it.        *)
LEMMA EnterKeeps ==
    ASSUME NEW n \in Nat, view \in Drawn(view, n, n), line \in Line,
           prompt \in Line, HistoryOK, Enter
    PROVE  /\ line' = <<>> /\ pos' = 0 /\ mode' = "away" /\ HistoryOK'
           /\ client.clears => view' \in Drawn(view, n, n)
           /\ ~client.clears => /\ view'.row \in Nat /\ view'.row >= n
                                /\ view' \in Drawn(view, n, view'.row)
<1>1. /\ line' = <<>> /\ pos' = 0 /\ mode' = "away" /\ index' = -1
      /\ view' = IF client.clears THEN [ClearFromRow(view) EXCEPT !.max = 0]
                 ELSE [CRLF(moveCursorToPos(view, Len(line)))
                          EXCEPT !.x = 0, !.y = 0, !.max = 0]
      /\ log' = Append(IF Len(log) < HistoryLen THEN log ELSE Tail(log), line)
      /\ pending' = pending
    BY DEF Enter, Put
<1>2. HistoryOK'
    <2> DEFINE older == IF Len(log) < HistoryLen THEN log ELSE Tail(log)
    <2>1. log \in Seq(Line) /\ Len(log) \in Nat /\ Len(log) <= HistoryLen
          /\ HistoryLen \in Nat \ {0}
        <3>1. HistoryLen \in Nat \ {0}
            BY EditorAssumption
        <3>2. log \in Seq(Line) /\ Len(log) <= HistoryLen
            BY DEF HistoryOK
        <3> QED
            BY <3>1, <3>2, LenProperties
    <2>2. older \in Seq(Line) /\ Len(older) \in Nat /\ Len(older) + 1 <= HistoryLen
        <3>1. CASE Len(log) < HistoryLen
            BY <2>1, <3>1
        <3>2. CASE ~(Len(log) < HistoryLen)
            <4>1. log # <<>>
                BY <2>1, <3>2, EmptySeq
            <4>2. Tail(log) \in Seq(Line) /\ Len(Tail(log)) = Len(log) - 1
                BY <2>1, <4>1, HeadTailProperties
            <4> QED
                BY <2>1, <3>2, <4>2
        <3> QED
            BY <3>1, <3>2
    <2>3. log' = Append(older, line)
        BY <1>1
    <2> HIDE DEF older
    <2>4. log' \in Seq(Line) /\ Len(log') = Len(older) + 1
        BY <2>2, <2>3, AppendProperties
    <2>5. index' \in -1..(Len(log') - 1)
        BY <1>1, <2>2, <2>4
    <2> QED
        BY <1>1, <2>2, <2>4, <2>5 DEF HistoryOK
<1>3. /\ view \in View /\ view.row = n + view.y /\ view.col = view.x /\ ~view.late
      /\ view.x < view.width /\ view.width \in Widths
    BY DEF Drawn
<1>4. view.y \in Nat /\ view.width \in Nat \ {0}
    BY <1>3, WidthsPositive DEF View
<1>5. ASSUME client.clears PROVE view' \in Drawn(view, n, n)
    <2> DEFINE S == {c \in Grid : c[1] >= view.row}
               w == Clear(view, S)
               z == [w EXCEPT !.max = 0]
    <2>1. view' = z
        BY <1>1, <1>5 DEF ClearFromRow
    <2>2. \A c \in S : c \in Grid => c[1] >= n
        BY <1>3, <1>4, CellsOfGrid
    <2> HIDE DEF S
    <2>3. /\ w \in View /\ w.width = view.width /\ w.x = view.x /\ w.y = view.y
          /\ w.row = view.row /\ w.col = view.col /\ w.late = view.late
          /\ \A c \in Grid : c[1] < n => w.cells[c] = view.cells[c]
        BY <1>3, <2>2, ClearsBelow
    <2> HIDE DEF w
    <2>4. /\ z \in View /\ z.width = w.width /\ z.x = w.x /\ z.y = w.y
          /\ z.row = w.row /\ z.col = w.col /\ z.late = w.late /\ z.cells = w.cells
        BY <2>3 DEF View
    <2> HIDE DEF z
    <2> QED
        BY <1>3, <2>1, <2>3, <2>4 DEF Drawn
<1>6. ASSUME ~client.clears
      PROVE  /\ view'.row \in Nat /\ view'.row >= n
             /\ view' \in Drawn(view, n, view'.row)
    <2> DEFINE v == moveCursorToPos(view, Len(line))
               w == CRLF(v)
               z == [w EXCEPT !.x = 0, !.y = 0, !.max = 0]
    <2>1. view' = z
        BY <1>1, <1>6
    <2>2. v \in Drawn(view, n, n)
        <3>1. Len(line) \in Nat
            BY DEF Line
        <3> QED
            BY <3>1, CursorMoves
    <2>3. /\ v \in View /\ v.row = n + v.y /\ v.width \in Widths
          /\ \A c \in Grid : c[1] < n => v.cells[c] = view.cells[c]
        BY <2>2 DEF Drawn
    <2> HIDE DEF v
    <2>4. v.y \in Nat /\ v.row + 1 \in Nat /\ v.row + 1 >= n /\ 0 < v.width
        BY <2>3, WidthsPositive DEF View
    <2>5. /\ z \in View /\ z.x = 0 /\ z.y = 0 /\ z.row = v.row + 1 /\ z.col = 0
          /\ ~z.late /\ z.width = v.width /\ z.cells = v.cells
        BY <2>3, <2>4 DEF CRLF, View
    <2> HIDE DEF z
    <2>6. z.row = z.row + z.y
        BY <2>4, <2>5
    <2> QED
        BY <2>1, <2>3, <2>4, <2>5, <2>6 DEF Drawn
<1> QED
    BY <1>1, <1>2, <1>5, <1>6

-----------------------------------------------------------------------------
(* What was said is rows of text; none of it is below the screen.          *)
Row == [0..(Cols - 1) -> Runes]
SaidOK ==
    /\ said \in Seq(Row)
    /\ \A i \in 1..Len(said) :
           i > Rows => \A c \in 0..(Cols - 1) : said[i][c] = Blank

(* The cursor is known: the line being edited starts below what was said.  *)
Placed == view \in Drawn(view, Len(said), Len(said))

DisplayInv == TypeOK /\ Placed /\ SaidOK /\ MessagesStay

(* After a step that says nothing new.                                     *)
LEMMA NothingSaid ==
    ASSUME Placed, SaidOK, MessagesStay,
           view' \in Drawn(view, Len(said), Len(said)), said' = said
    PROVE  Placed' /\ SaidOK' /\ MessagesStay'
<1>1. Placed'
    BY DEF Placed, Drawn
<1>2. SaidOK'
    BY DEF SaidOK
<1>3. MessagesStay'
    <2> SUFFICES ASSUME NEW c \in Grid, c[1] < Len(said),
                        said[c[1] + 1][c[2]] # Blank
                 PROVE  view'.cells[c] = said[c[1] + 1][c[2]]
        BY DEF MessagesStay, SaidCells
    <2>1. view.cells[c] = said[c[1] + 1][c[2]]
        BY DEF MessagesStay, SaidCells
    <2>2. view'.cells[c] = view.cells[c]
        BY DEF Drawn
    <2> QED
        BY <2>1, <2>2
<1> QED
    BY <1>1, <1>2, <1>3

(* After the screen was cleared.                                           *)
LEMMA AllGone ==
    ASSUME view' \in Drawn(view, 0, 0), said' = <<>>
    PROVE  Placed' /\ SaidOK' /\ MessagesStay'
<1>1. Len(said') = 0
    OBVIOUS
<1>2. Placed'
    BY <1>1 DEF Placed, Drawn
<1>3. SaidOK'
    BY DEF SaidOK
<1>4. MessagesStay'
    BY <1>1, CellsOfGrid DEF MessagesStay, SaidCells
<1> QED
    BY <1>2, <1>3, <1>4

(* After rows were added to what was said, as they are on the screen.      *)
LEMMA MoreSaid ==
    ASSUME Placed, SaidOK, MessagesStay, NEW m \in Nat, m >= Len(said),
           view' \in Drawn(view, Len(said), m), said' = said \o RowsTo(m)
    PROVE  Placed' /\ SaidOK' /\ MessagesStay'
<1> DEFINE n == Len(said)
           new == RowsTo(m)
<1>1. said \in Seq(Row) /\ n \in Nat
    <2>1. said \in Seq(Row)
        BY DEF SaidOK
    <2> QED
        BY <2>1, LenProperties
<1>2. view' \in View /\ view'.cells \in [Grid -> Runes]
    <2>1. view' \in View
        BY DEF Drawn
    <2> QED
        BY <2>1 DEF View
<1>3. ASSUME NEW r \in Nat, NEW c \in 0..(Cols - 1)
      PROVE  RowOf(view', r)[c] = IF r < Rows THEN view'.cells[<<r, c>>] ELSE Blank
    BY DEF RowOf
<1>4. ASSUME NEW r \in Nat PROVE RowOf(view', r) \in Row
    <2>1. ASSUME NEW c \in 0..(Cols - 1), r < Rows
          PROVE  view'.cells[<<r, c>>] \in Runes
        <3>1. <<r, c>> \in Grid
            BY <2>1, ScreenAssumption DEF Grid
        <3> QED
            BY <1>2, <3>1
    <2> QED
        BY <2>1, BlankIsRune DEF RowOf, Row
<1>5. new \in Seq(Row) /\ Len(new) = m - n
      /\ \A i \in 1..(m - n) : new[i] = RowOf(view', n + i - 1)
    <2>1. new = [i \in 1..(m - n) |-> RowOf(view', n + i - 1)]
        BY DEF RowsTo
    <2>2. ASSUME NEW i \in 1..(m - n) PROVE RowOf(view', n + i - 1) \in Row
        <3>1. n + i - 1 \in Nat
            BY <1>1
        <3> QED
            BY <1>4, <3>1
    <2>3. m - n \in Nat
        BY <1>1
    <2> HIDE DEF new, n
    <2>4. new \in [1..(m - n) -> Row]
        BY <2>1, <2>2
    <2>5. new \in Seq(Row)
        BY <2>3, <2>4, SeqDef
    <2> QED
        BY <2>1, <2>3, <2>4, <2>5, LenProperties
<1> HIDE DEF new
<1>6. /\ said' \in Seq(Row) /\ Len(said') = m
      /\ \A i \in 1..m : said'[i] = IF i <= n THEN said[i] ELSE new[i - n]
    <2>1. said' = said \o new
        BY DEF new
    <2> HIDE DEF n
    <2>2. /\ said \o new \in Seq(Row) /\ Len(said \o new) = Len(said) + Len(new)
          /\ \A i \in 1..(Len(said) + Len(new)) :
                (said \o new)[i] = IF i <= Len(said) THEN said[i]
                                   ELSE new[i - Len(said)]
        BY <1>1, <1>5, ConcatProperties
    <2>3. Len(said) + Len(new) = m
        BY <1>1, <1>5 DEF n
    <2> QED
        BY <2>1, <2>2, <2>3 DEF n
<1>7. ASSUME NEW r \in Nat, r >= n, r < m
      PROVE  said'[r + 1] = RowOf(view', r)
    <2> DEFINE i == r + 1
    <2>1. i \in 1..m /\ ~(i <= n) /\ i - n \in 1..(m - n) /\ n + (i - n) - 1 = r
        BY <1>1, <1>7
    <2> HIDE DEF n, i
    <2>2. said'[i] = new[i - n]
        BY <1>6, <2>1
    <2>3. new[i - n] = RowOf(view', n + (i - n) - 1)
        BY <1>5, <2>1
    <2>4. said'[i] = RowOf(view', r)
        BY <2>1, <2>2, <2>3
    <2> QED
        BY <2>4 DEF i
<1>8. Placed'
    BY <1>6 DEF Placed, Drawn
<1>9. SaidOK'
    <2> SUFFICES ASSUME NEW i \in 1..m, i > Rows, NEW c \in 0..(Cols - 1)
                 PROVE  said'[i][c] = Blank
        BY <1>6 DEF SaidOK
    <2>1. CASE i <= n
        BY <1>6, <2>1 DEF SaidOK
    <2>2. CASE ~(i <= n)
        <3> DEFINE r == i - 1
        <3>1. r \in Nat /\ ~(r < Rows) /\ r >= n /\ r < m /\ i = r + 1
            BY <1>1, <2>2, ScreenAssumption
        <3> HIDE DEF r
        <3>2. said'[i] = RowOf(view', r)
            BY <1>7, <3>1
        <3> QED
            BY <1>3, <3>1, <3>2
    <2> QED
        BY <2>1, <2>2
<1>10. MessagesStay'
    <2> SUFFICES ASSUME NEW c \in Grid, c[1] < m, said'[c[1] + 1][c[2]] # Blank
                 PROVE  view'.cells[c] = said'[c[1] + 1][c[2]]
        BY <1>6 DEF MessagesStay, SaidCells
    <2>1. c[1] \in Nat /\ c[2] \in 0..(Cols - 1) /\ c = <<c[1], c[2]>>
          /\ c[1] + 1 \in 1..m /\ c[1] < Rows
        BY ScreenAssumption DEF Grid
    <2>2. CASE c[1] < n
        <3>1. said'[c[1] + 1] = said[c[1] + 1]
            BY <1>1, <1>6, <2>1, <2>2
        <3>2. view.cells[c] = said[c[1] + 1][c[2]]
            BY <2>2, <3>1 DEF MessagesStay, SaidCells
        <3>3. view'.cells[c] = view.cells[c]
            BY <2>2 DEF Drawn
        <3> QED
            BY <3>1, <3>2, <3>3
    <2>3. CASE ~(c[1] < n)
        <3>1. c[1] >= n
            BY <1>1, <2>1, <2>3
        <3>2. said'[c[1] + 1] = RowOf(view', c[1])
            BY <1>7, <2>1, <3>1
        <3>3. RowOf(view', c[1])[c[2]] = view'.cells[<<c[1], c[2]>>]
            BY <1>3, <2>1
        <3> QED
            BY <2>1, <3>2, <3>3
    <2> QED
        BY <2>2, <2>3
<1> QED
    BY <1>8, <1>9, <1>10

-----------------------------------------------------------------------------
LEMMA ClientTypes ==
    ASSUME TypeOK
    PROVE  /\ prompt \in Line /\ client.clears \in BOOLEAN
           /\ \A p \in client.prompts : p \in Line
           /\ \A input \in Arrivals : input \in Seq(Bytes)
<1>1. client \in Client /\ prompt \in client.prompts /\ rest \in Seq(Bytes)
    BY EditorAssumption DEF TypeOK
<1>2. /\ client.clears \in BOOLEAN
      /\ client.prompts \subseteq Line
      /\ client.types \subseteq Seq(Bytes)
      /\ client.pastes \subseteq Seq(Bytes)
    BY <1>1 DEF Client
<1> QED
    BY <1>1, <1>2 DEF Arrivals

LEMMA FirstIn ==
    ASSUME NEW N, N \subseteq Nat, N # {}
    PROVE  First(N) \in N
<1>1. \E n \in N : \A m \in N : n <= m
    BY Least1
<1> QED
    BY <1>1 DEF First

(* However the bytes are cut: a number of them is used.                    *)
LEMMA KeyUses ==
    ASSUME NEW b \in Seq(Bytes), NEW p
    PROVE  bytesToKey(b, p).used \in Nat
<1> DEFINE known == {n \in DOMAIN b : SubSeq(b, 1, n) \in DOMAIN Known[p]}
           ends == {i \in DOMAIN b : b[i] \in Enders}
<1>1. DOMAIN b \subseteq Nat
    <2>1. DOMAIN b = 1..Len(b)
        BY LenProperties
    <2> QED
        BY <2>1
<1>2. Partial.used \in Nat
    BY DEF Partial, Found
<1>3. \A k : Found(k, 1).used \in Nat /\ Found(k, 2).used \in Nat
    BY DEF Found
<1>4. known # {} => Found(Known[p][SubSeq(b, 1, First(known))], First(known)).used \in Nat
    <2> HIDE DEF known
    <2>1. known # {} => First(known) \in Nat
        <3>1. known \subseteq Nat
            BY <1>1 DEF known
        <3> QED
            BY <3>1, FirstIn
    <2> QED
        BY <2>1 DEF Found
<1>5. UnknownKey(b).used \in Nat
    <2>1. UnknownKey(b) = IF ends = {} THEN Partial ELSE Found("unknown", First(ends))
        BY DEF UnknownKey
    <2> HIDE DEF ends
    <2>2. ends # {} => First(ends) \in Nat
        <3>1. ends \subseteq Nat
            BY <1>1 DEF ends
        <3> QED
            BY <3>1, FirstIn
    <2>3. ends # {} => Found("unknown", First(ends)).used \in Nat
        BY <2>2 DEF Found
    <2> QED
        BY <1>2, <2>1, <2>3
<1>6. RuneKey(b).used \in Nat
    BY <1>2, <1>3 DEF RuneKey
<1>7. bytesToKey(b, p) =
          IF b = <<>> THEN Partial
          ELSE IF known # {}
          THEN Found(Known[p][SubSeq(b, 1, First(known))], First(known))
          ELSE IF b[1] = "esc" THEN UnknownKey(b) ELSE RuneKey(b)
    BY DEF bytesToKey
<1> HIDE DEF known
<1> QED
    BY <1>2, <1>4, <1>5, <1>6, <1>7

LEMMA RestIsBytes ==
    ASSUME NEW b \in Seq(Bytes), NEW p
    PROVE  SubSeq(b, bytesToKey(b, p).used + 1, Len(b)) \in Seq(Bytes)
<1> DEFINE a == bytesToKey(b, p).used
<1>1. a \in Nat
    BY KeyUses
<1> HIDE DEF a
<1>2. Len(b) \in Nat /\ \A i \in 1..Len(b) : b[i] \in Bytes
    BY LenProperties, ElementOfSeq
<1>3. \A i \in (a + 1)..Len(b) : b[i] \in Bytes
    BY <1>1, <1>2
<1>4. SubSeq(b, a + 1, Len(b)) \in Seq(Bytes)
    BY <1>1, <1>2, <1>3, SubSeqProperties
<1> QED
    BY <1>4 DEF a

-----------------------------------------------------------------------------
(* A key is entered or edits.                                              *)
LEMMA KeyHandled ==
    ASSUME TypeOK, NEW k, handleKey(k)
    PROVE  /\ k = "enter" => Enter
           /\ k # "enter" =>
                /\ IF k = "clear" /\ ~paste THEN setLine(ClearedScreen, line, pos)
                   ELSE Changed
                /\ mode' = mode /\ HistoryOK'
<1>1. line \in Line /\ pos \in 0..Len(line) /\ HistoryOK
    BY DEF TypeOK, HistoryOK
<1>2. "enter" \notin Runes /\ "clear" \notin Runes
    BY DEF Runes, Enders, Letters
<1>3. ~EditKey("enter")
    BY <1>2 DEF EditKey
<1>4. k = "enter" => Enter
    BY <1>2, <1>3 DEF handleKey
<1>5. ASSUME k # "enter"
      PROVE  /\ IF k = "clear" /\ ~paste THEN setLine(ClearedScreen, line, pos)
                ELSE Changed
             /\ mode' = mode /\ HistoryOK'
    <2>1. mode' = mode /\ log' = log
        BY <1>5 DEF handleKey
    <2>2. CASE paste /\ k \in Runes /\ addKeyToLine(k) /\ UNCHANGED <<index, pending>>
        <3>1. Changed
            BY <2>2 DEF Changed
        <3> QED
            BY <1>1, <1>2, <2>1, <2>2, <3>1 DEF HistoryOK
    <2>3. CASE ~paste /\ k = "up" /\ Up
        <3>1. Changed /\ HistoryOK'
            BY <1>1, <2>1, <2>3, UpChanges
        <3> QED
            BY <2>1, <2>3, <3>1
    <2>4. CASE ~paste /\ k = "down" /\ Down
        <3>1. Changed /\ HistoryOK'
            BY <1>1, <2>1, <2>4, DownChanges
        <3> QED
            BY <2>1, <2>4, <3>1
    <2>5. CASE ~paste /\ EditKey(k) /\ UNCHANGED <<index, pending>>
        <3>1. IF k = "clear" THEN setLine(ClearedScreen, line, pos) ELSE Changed
            BY <1>1, <2>5, KeyChanges
        <3> QED
            BY <1>1, <2>1, <2>5, <3>1 DEF HistoryOK
    <2> QED
        BY <1>5, <2>2, <2>3, <2>4, <2>5 DEF handleKey
<1> QED
    BY <1>4, <1>5

LEMMA KeyDraws ==
    ASSUME TypeOK, Placed, SaidOK, NEW k, handleKey(k), k # "enter"
    PROVE  /\ Edited(IF k = "clear" /\ ~paste THEN 0 ELSE Len(said))
           /\ mode' = mode /\ HistoryOK'
<1> DEFINE n == Len(said)
<1>1. /\ line \in Line /\ pos \in 0..Len(line) /\ prompt \in Line
      /\ view \in View /\ n \in Nat /\ view \in Drawn(view, n, n)
    <2>1. n \in Nat
        BY LenProperties DEF SaidOK
    <2> QED
        BY <2>1, ClientTypes DEF TypeOK, Placed
<1> HIDE DEF n
<1>2. /\ IF k = "clear" /\ ~paste THEN setLine(ClearedScreen, line, pos) ELSE Changed
      /\ mode' = mode /\ HistoryOK'
    BY KeyHandled
<1>3. Changed => Edited(n)
    BY <1>1, ChangedEdits
<1>4. setLine(ClearedScreen, line, pos) => Edited(0)
    BY <1>1, ClearedScreenDraws, SetLineEdits
<1> QED
    BY <1>2, <1>3, <1>4 DEF n

(* The parts of TypeOK that a key changes.                                 *)
LEMMA TypeKeeps ==
    ASSUME DisplayInv, NEW input \in Arrivals, Type(input)
    PROVE  DisplayInv'
<1> DEFINE n == Len(said)
           key == bytesToKey(input, paste).key
<1>1. TypeOK /\ Placed /\ SaidOK /\ MessagesStay
    BY DEF DisplayInv
<1>2. n \in Nat /\ view \in Drawn(view, n, n)
    BY <1>1, LenProperties DEF SaidOK, Placed
<1>3. rest' \in Seq(Bytes) /\ prompt' = prompt /\ client' = client
    <2>1. input \in Seq(Bytes)
        BY <1>1, ClientTypes
    <2>2. /\ rest' = SubSeq(input, bytesToKey(input, paste).used + 1, Len(input))
          /\ UNCHANGED <<prompt, client>>
        BY DEF Type, ReadKey
    <2> QED
        BY <2>1, <2>2, RestIsBytes
<1>4. /\ \/ /\ key # "enter"
            /\ UNCHANGED <<editVars, view, historyVars>>
            /\ mode' \in {mode, "eof"}
            /\ paste' \in {paste, TRUE, FALSE}
            /\ pasted' \in {pasted, pasted \/ line = <<>>}
            /\ ~(key = "clear" /\ ~paste)
         \/ pasted' = StaysPasted /\ handleKey(key) /\ paste' = paste
      /\ CASE key = "enter" /\ client.clears    -> Said(said) /\ Shown("stale")
           [] key = "enter" /\ ~client.clears   -> /\ Said(said \o RowsTo(view'.row))
                                                /\ Shown("stale")
           [] key = "clear" /\ ~paste        -> Said(<<>>) /\ Shown("exact")
           [] OTHER                         -> UNCHANGED displayVars
    BY DEF Type, ReadKey
<1>5. paste' \in BOOLEAN /\ pasted' \in BOOLEAN
    BY <1>1, <1>4 DEF TypeOK, StaysPasted
<1> HIDE DEF key, n
<1>6. CASE /\ key # "enter"
           /\ UNCHANGED <<editVars, view, historyVars>>
           /\ mode' \in {mode, "eof"}
           /\ ~(key = "clear" /\ ~paste)
    <2>1. said' = said
        BY <1>4, <1>6 DEF displayVars
    <2>2. TypeOK'
        BY <1>1, <1>3, <1>5, <1>6 DEF TypeOK, editVars, historyVars, Modes
    <2>3. view' \in Drawn(view, Len(said), Len(said))
        BY <1>2, <1>6 DEF n
    <2> QED
        BY <1>1, <2>1, <2>2, <2>3, NothingSaid DEF DisplayInv
<1>7. CASE handleKey(key) /\ key # "enter"
    <2>1. /\ Edited(IF key = "clear" /\ ~paste THEN 0 ELSE Len(said))
          /\ mode' = mode /\ HistoryOK'
        BY <1>1, <1>7, KeyDraws
    <2>2. TypeOK'
        BY <1>1, <1>3, <1>5, <2>1 DEF TypeOK, HistoryOK, Edited, Drawn
    <2>3. CASE key = "clear" /\ ~paste
        <3>1. said' = <<>>
            BY <1>4, <1>7, <2>3 DEF Said
        <3>2. view' \in Drawn(view, 0, 0)
            BY <2>1, <2>3 DEF Edited
        <3> QED
            BY <2>2, <3>1, <3>2, AllGone DEF DisplayInv
    <2>4. CASE ~(key = "clear" /\ ~paste)
        <3>1. said' = said
            BY <1>4, <1>7, <2>4 DEF displayVars
        <3>2. view' \in Drawn(view, Len(said), Len(said))
            BY <2>1, <2>4 DEF Edited
        <3> QED
            BY <1>1, <2>2, <3>1, <3>2, NothingSaid DEF DisplayInv
    <2> QED
        BY <2>3, <2>4
<1>8. CASE handleKey(key) /\ key = "enter"
    <2>1. Enter
        BY <1>1, <1>8, KeyHandled
    <2>2. line \in Line /\ prompt \in Line /\ HistoryOK /\ client.clears \in BOOLEAN
        BY <1>1, ClientTypes DEF TypeOK, HistoryOK
    <2>3. /\ line' = <<>> /\ pos' = 0 /\ mode' = "away" /\ HistoryOK'
          /\ client.clears => view' \in Drawn(view, n, n)
          /\ ~client.clears => /\ view'.row \in Nat /\ view'.row >= n
                               /\ view' \in Drawn(view, n, view'.row)
        BY <1>2, <2>1, <2>2, EnterKeeps
    <2>4. TypeOK'
        <3>1. line' \in Line /\ pos' \in 0..Len(line')
            BY <2>3 DEF Line
        <3>2. view' \in View
            BY <2>3 DEF Drawn
        <3> QED
            BY <1>1, <1>3, <1>5, <2>3, <3>1, <3>2 DEF TypeOK, HistoryOK, Modes
    <2>5. CASE client.clears
        <3>1. said' = said
            BY <1>4, <1>8, <2>5 DEF Said
        <3>2. view' \in Drawn(view, Len(said), Len(said))
            BY <2>3, <2>5 DEF n
        <3> QED
            BY <1>1, <2>4, <3>1, <3>2, NothingSaid DEF DisplayInv
    <2>6. CASE ~client.clears
        <3>1. said' = said \o RowsTo(view'.row)
            BY <1>4, <1>8, <2>6 DEF Said
        <3>2. /\ view'.row \in Nat /\ view'.row >= Len(said)
              /\ view' \in Drawn(view, Len(said), view'.row)
            BY <2>3, <2>6 DEF n
        <3> QED
            BY <1>1, <2>4, <3>1, <3>2, MoreSaid DEF DisplayInv
    <2> QED
        BY <2>5, <2>6
<1> QED
    BY <1>4, <1>6, <1>7, <1>8

-----------------------------------------------------------------------------
(* The steps that are not a key.                                           *)
LEMMA FirstPaintKeeps ==
    ASSUME DisplayInv, FirstPaint
    PROVE  DisplayInv'
<1> DEFINE n == Len(said)
<1>1. TypeOK /\ Placed /\ SaidOK /\ MessagesStay
    BY DEF DisplayInv
<1>2. n \in Nat /\ n <= n /\ view \in Drawn(view, n, n) /\ prompt \in Line
    BY <1>1, LenProperties, ClientTypes DEF SaidOK, Placed
<1>3. /\ view' = IF view.x = 0 /\ view.y = 0 THEN writeLine(view, prompt) ELSE view
      /\ mode' = "reading" /\ pasted' = paste /\ said' = said
      /\ UNCHANGED <<editVars, prompt, rest, paste, historyVars, client>>
    BY DEF FirstPaint, StartReading, Said
<1> HIDE DEF n
<1>4. view' \in Drawn(view, n, n)
    BY <1>2, <1>3, WriteLineDraws
<1>5. TypeOK'
    BY <1>1, <1>3, <1>4 DEF TypeOK, Drawn, Modes, editVars, historyVars
<1> QED
    BY <1>1, <1>3, <1>4, <1>5, NothingSaid DEF DisplayInv, n

LEMMA WriteKeeps ==
    ASSUME DisplayInv, NEW k \in MessageRows, WriteMessage(k)
    PROVE  DisplayInv'
<1> DEFINE n == Len(said)
           v == ClearUp(view)
           w == Message(v, k)
           p == writeLine(w, prompt)
           l == writeLine(p, line)
<1>1. TypeOK /\ Placed /\ SaidOK /\ MessagesStay
    BY DEF DisplayInv
<1>2. /\ n \in Nat /\ n <= n /\ view \in Drawn(view, n, n)
      /\ prompt \in Line /\ line \in Line /\ pos \in Nat
    <2>1. line \in Line /\ pos \in 0..Len(line)
        BY <1>1 DEF TypeOK
    <2>2. Len(line) \in Nat
        BY <2>1 DEF Line
    <2> QED
        BY <1>1, <2>1, <2>2, LenProperties, ClientTypes DEF SaidOK, Placed
<1>3. /\ view' = IF view.x = 0 /\ view.y = 0 THEN Message(view, k)
                 ELSE moveCursorToPos(l, pos)
      /\ said' = said \o RowsTo(n + k)
      /\ UNCHANGED <<editVars, prompt, inputVars, historyVars, client>>
    BY DEF WriteMessage, Write, Said
<1>4. k \in Nat
    BY EditorAssumption
<1> DEFINE m == n + k
<1> HIDE DEF n, v, w, p, l
<1>5. m \in Nat /\ m >= n /\ n <= m
    BY <1>2, <1>4
<1>6. view' \in Drawn(view, n, m)
    <2>1. CASE view.x = 0 /\ view.y = 0
        BY <1>2, <1>3, <1>4, <2>1, MessageDraws
    <2>2. CASE ~(view.x = 0 /\ view.y = 0)
        <3>1. v \in Drawn(view, n, n) /\ v.x = 0 /\ v.y = 0
            BY <1>2, ClearUpDraws DEF v
        <3>2. w \in Drawn(view, n, m)
            BY <1>2, <1>4, <3>1, MessageDraws DEF w
        <3> HIDE DEF m
        <3>3. p \in Drawn(view, n, m)
            BY <1>2, <1>5, <3>2, WriteLineDraws DEF p
        <3>4. l \in Drawn(view, n, m)
            BY <1>2, <1>5, <3>3, WriteLineDraws DEF l
        <3>5. moveCursorToPos(l, pos) \in Drawn(view, n, m)
            BY <1>2, <1>5, <3>4, CursorMoves
        <3> QED
            BY <1>3, <2>2, <3>5
    <2> QED
        BY <2>1, <2>2
<1>7. TypeOK'
    BY <1>1, <1>3, <1>6 DEF TypeOK, Drawn, editVars, inputVars, historyVars
<1> QED
    BY <1>1, <1>3, <1>5, <1>6, <1>7, MoreSaid DEF DisplayInv, n

LEMMA PromptKeeps ==
    ASSUME DisplayInv, NEW p \in client.prompts, ChangePrompt(p)
    PROVE  DisplayInv'
<1>1. TypeOK /\ Placed /\ SaidOK /\ MessagesStay
    BY DEF DisplayInv
<1>2. /\ prompt' = p /\ said' = said /\ view' = view
      /\ UNCHANGED <<editVars, inputVars, historyVars, client>>
    BY DEF ChangePrompt, SetPrompt, Said
<1>3. view' \in Drawn(view, Len(said), Len(said))
    BY <1>1, <1>2 DEF Placed
<1>4. TypeOK'
    BY <1>1, <1>2 DEF TypeOK, editVars, inputVars, historyVars
<1> QED
    BY <1>1, <1>2, <1>3, <1>4, NothingSaid DEF DisplayInv

LEMMA ResizeKeeps ==
    ASSUME DisplayInv, NEW w \in Widths, Resize(w)
    PROVE  DisplayInv'
<1> DEFINE n == Len(said)
           v == [view EXCEPT !.width = w]
<1>1. TypeOK /\ Placed /\ SaidOK /\ MessagesStay
    BY DEF DisplayInv
<1>2. /\ n \in Nat /\ n <= n /\ view \in Drawn(view, n, n)
      /\ prompt \in Line /\ line \in Line /\ pos \in Nat
    <2>1. line \in Line /\ pos \in 0..Len(line)
        BY <1>1 DEF TypeOK
    <2>2. Len(line) \in Nat
        BY <2>1 DEF Line
    <2> QED
        BY <1>1, <2>1, <2>2, LenProperties, ClientTypes DEF SaidOK, Placed
<1>3. /\ w > view.width
      /\ view' = IF line = <<>> /\ v.x = 0 /\ v.y = 0 THEN v
                 ELSE clearAndRepaint(v, line, pos, v.max)
      /\ said' = said
      /\ UNCHANGED <<editVars, prompt, inputVars, historyVars, client>>
    BY DEF Resize, SetSize, Said
<1>4. /\ view \in View /\ view.row = n + view.y /\ view.col = view.x /\ ~view.late
      /\ view.x < view.width /\ view.width \in Nat \ {0} /\ view.x \in Nat
    BY <1>2, WidthsPositive DEF Drawn, View
<1>5. /\ v \in View /\ v.width = w /\ v.x = view.x /\ v.y = view.y
      /\ v.max = view.max /\ v.row = view.row /\ v.col = view.col
      /\ v.late = view.late /\ v.cells = view.cells
    BY <1>4 DEF View
<1> HIDE DEF v, n
<1>6. v \in Drawn(view, n, n) /\ v.max \in Nat
    <2>1. view.x < w
        BY <1>3, <1>4, WidthsPositive
    <2>2. v.max \in Nat
        BY <1>5 DEF View
    <2> QED
        BY <1>4, <1>5, <2>1, <2>2 DEF Drawn
<1>7. view' \in Drawn(view, n, n)
    BY <1>2, <1>3, <1>6, RepaintDraws
<1>8. TypeOK'
    BY <1>1, <1>3, <1>7 DEF TypeOK, Drawn, editVars, inputVars, historyVars
<1> QED
    BY <1>1, <1>3, <1>7, <1>8, NothingSaid DEF DisplayInv, n

LEMMA ScrollKeeps ==
    ASSUME DisplayInv, Scroll
    PROVE  DisplayInv'
<1> DEFINE n == Len(said)
           k == n - 1
           cells == [c \in Grid |-> IF c[1] + k < Rows
                                    THEN view.cells[<<c[1] + k, c[2]>>] ELSE Blank]
           row == AtLeast0(view.row - k)
           w == [view EXCEPT !.cells = cells, !.row = row]
<1>1. TypeOK /\ Placed /\ SaidOK /\ MessagesStay
    BY DEF DisplayInv
<1>2. /\ said \in Seq(Row) /\ n \in Nat /\ n > 1
      /\ view \in View /\ view.row = n + view.y /\ view.col = view.x
      /\ ~view.late /\ view.x < view.width /\ view.width \in Widths
    BY <1>1, LenProperties DEF SaidOK, Placed, Drawn, Scroll
<1>3. /\ view' = w /\ said' = <<said[n]>>
      /\ UNCHANGED <<editVars, prompt, inputVars, historyVars, client>>
    BY DEF Scroll, Scrolled
<1>4. k \in Nat /\ n = k + 1 /\ n \in 1..n
    BY <1>2
<1> HIDE DEF k, n
<1>5. row = 1 + view.y /\ row \in Nat
    <2>1. view.y \in Nat
        BY <1>2 DEF View
    <2> QED
        BY <1>2, <1>4, <2>1 DEF AtLeast0
<1> HIDE DEF row
<1>6. view.cells \in [Grid -> Runes]
    BY <1>2 DEF View
<1>7. ASSUME NEW c \in Grid, c[1] + k < Rows PROVE <<c[1] + k, c[2]>> \in Grid
    BY <1>4, <1>7, ScreenAssumption DEF Grid
<1>8. cells \in [Grid -> Runes]
    BY <1>6, <1>7, BlankIsRune
<1>9. \A c \in Grid : cells[c] = IF c[1] + k < Rows
                                THEN view.cells[<<c[1] + k, c[2]>>] ELSE Blank
    OBVIOUS
<1> HIDE DEF cells
<1>10. /\ w \in View /\ w.width = view.width /\ w.x = view.x /\ w.y = view.y
       /\ w.row = row /\ w.col = view.col /\ w.late = view.late /\ w.cells = cells
    BY <1>2, <1>5, <1>8 DEF View
<1> HIDE DEF w
<1>11. Len(said') = 1 /\ said'[1] = said[n] /\ said[n] \in Row
    BY <1>2, <1>3, <1>4, ElementOfSeq DEF n
<1>12. TypeOK'
    BY <1>1, <1>3, <1>10 DEF TypeOK, editVars, inputVars, historyVars
<1>13. Placed'
    BY <1>2, <1>3, <1>5, <1>10, <1>11 DEF Placed, Drawn
<1>14. SaidOK'
    <2>1. said' \in Seq(Row)
        BY <1>3, <1>11
    <2>2. ~(1 > Rows)
        BY ScreenAssumption
    <2>3. \A i \in 1..1 : ~(i > Rows)
        BY <2>2
    <2> QED
        BY <1>11, <2>1, <2>3 DEF SaidOK
<1>15. MessagesStay'
    <2> SUFFICES ASSUME NEW c \in Grid, c[1] < 1, said'[c[1] + 1][c[2]] # Blank
                 PROVE  view'.cells[c] = said'[c[1] + 1][c[2]]
        BY <1>11 DEF MessagesStay, SaidCells
    <2>1. c[1] = 0 /\ c[2] \in 0..(Cols - 1) /\ c[1] + 1 = 1 /\ c[1] + k = k
        BY <1>4, ScreenAssumption DEF Grid
    <2>2. said[n][c[2]] # Blank
        BY <1>11, <2>1
    <2>3. k < Rows
        <3> SUFFICES ASSUME ~(k < Rows) PROVE FALSE
            OBVIOUS
        <3>1. n > Rows
            BY <1>4, ScreenAssumption
        <3>2. said[n][c[2]] = Blank
            BY <1>1, <1>4, <2>1, <3>1 DEF SaidOK, n
        <3> QED
            BY <2>2, <3>2
    <2> DEFINE d == <<k, c[2]>>
    <2>4. d \in Grid
        BY <1>4, <2>1, <2>3, ScreenAssumption DEF Grid
    <2>5. d[1] = k /\ d[2] = c[2] /\ d[1] + 1 = n /\ d[1] < n
        BY <1>4
    <2>6. view.cells[d] = said[n][c[2]]
        <3> HIDE DEF d
        <3> QED
            BY <1>1, <2>2, <2>4, <2>5 DEF MessagesStay, SaidCells, n
    <2>7. view'.cells[c] = view.cells[d]
        BY <1>3, <1>9, <1>10, <2>1, <2>3
    <2> QED
        BY <1>11, <2>1, <2>6, <2>7
<1> QED
    BY <1>12, <1>13, <1>14, <1>15 DEF DisplayInv

LEMMA StartsWell ==
    ASSUME DisplayInit
    PROVE  DisplayInv
<1>1. PICK w \in Widths :
          view = [width |-> w, x |-> 0, y |-> 0, max |-> 0,
                  cells |-> EmptyGrid, row |-> 0, col |-> 0, late |-> FALSE]
    BY DEF DisplayInit, Init
<1>2. EmptyGrid \in [Grid -> Runes]
    BY BlankIsRune DEF EmptyGrid
<1>3. view \in View
    BY <1>1, <1>2 DEF View
<1>4. /\ view.row = 0 /\ view.col = 0 /\ view.x = 0 /\ view.y = 0 /\ ~view.late
      /\ view.width \in Widths /\ 0 < view.width
    BY <1>1, WidthsPositive
<1>5. /\ client \in Clients /\ line = <<>> /\ pos = 0 /\ prompt \in client.prompts
      /\ mode = "away" /\ rest = <<>> /\ paste = FALSE /\ pasted = FALSE
      /\ log = <<>> /\ index = -1 /\ pending = <<>> /\ said = <<>>
    BY DEF DisplayInit, Init
<1>6. TypeOK
    <2>1. <<>> \in Line /\ Len(<<>>) = 0
        BY DEF Line
    <2>2. Len(log) <= HistoryLen /\ log \in Seq(Line)
        <3>1. HistoryLen \in Nat
            BY EditorAssumption
        <3>2. <<>> \in Seq(Line) /\ Len(<<>>) = 0
            BY EmptySeq
        <3> QED
            BY <1>5, <3>1, <3>2
    <2>3. index \in -1..(Len(log) - 1)
        BY <1>5
    <2>4. pos \in 0..Len(line)
        BY <1>5
    <2>5. rest \in Seq(Bytes)
        BY <1>5
    <2> QED
        BY <1>3, <1>5, <2>1, <2>2, <2>3, <2>4, <2>5 DEF TypeOK, Modes
<1>7. Len(said) = 0
    BY <1>5
<1>8. Placed
    BY <1>3, <1>4, <1>7 DEF Placed, Drawn
<1>9. SaidOK
    BY <1>5, <1>7 DEF SaidOK
<1>10. MessagesStay
    BY <1>7, CellsOfGrid DEF MessagesStay, SaidCells
<1> QED
    BY <1>6, <1>8, <1>9, <1>10 DEF DisplayInv

LEMMA StepKeeps == DisplayInv /\ [DisplayNext]_<<vars, displayVars>> => DisplayInv'
<1> SUFFICES ASSUME DisplayInv, [DisplayNext]_<<vars, displayVars>>
             PROVE  DisplayInv'
    OBVIOUS
<1>1. CASE Scroll
    BY <1>1, ScrollKeeps
<1>2. CASE FirstPaint
    BY <1>2, FirstPaintKeeps
<1>3. CASE \E input \in Arrivals : Type(input)
    BY <1>3, TypeKeeps
<1>4. CASE \E n \in MessageRows : WriteMessage(n)
    BY <1>4, WriteKeeps
<1>5. CASE \E p \in client.prompts : ChangePrompt(p)
    BY <1>5, PromptKeeps
<1>6. CASE \E w \in Widths : Resize(w)
    BY <1>6, ResizeKeeps
<1>7. CASE UNCHANGED <<vars, displayVars>>
    <2>1. TypeOK'
        BY <1>7 DEF DisplayInv, TypeOK, vars, editVars, inputVars, historyVars
    <2>2. view' = view /\ said' = said
        BY <1>7 DEF vars, displayVars
    <2>3. view' \in Drawn(view, Len(said), Len(said))
        BY <2>2 DEF DisplayInv, Placed
    <2> QED
        BY <2>1, <2>2, <2>3, NothingSaid DEF DisplayInv
<1> QED
    BY <1>1, <1>2, <1>3, <1>4, <1>5, <1>6, <1>7 DEF DisplayNext

(* The variables of the editor have their types.                           *)
THEOREM EditorTypes == DisplaySpec => []TypeOK
<1>1. DisplayInv => TypeOK
    BY DEF DisplayInv
<1> QED
    BY <1>1, StartsWell, StepKeeps, PTL DEF DisplaySpec

(* The server knows where the cursor is, for every width, line, prompt and *)
(* message and however keys are mixed with what others write.              *)
THEOREM CursorIsKnown == DisplaySpec => []CursorKnown
<1>1. DisplayInv => CursorKnown
    BY DEF DisplayInv, Placed, Drawn, CursorKnown
<1> QED
    BY <1>1, StartsWell, StepKeeps, PTL DEF DisplaySpec

(* Nothing that is drawn damages what was said.                            *)
THEOREM MessagesSurvive == DisplaySpec => []MessagesStay
<1>1. DisplayInv => MessagesStay
    BY DEF DisplayInv
<1> QED
    BY <1>1, StartsWell, StepKeeps, PTL DEF DisplaySpec

-----------------------------------------------------------------------------
(* What is written.  Place is the number of a cell from the cell with the  *)
(* number p on, counted as Spot does, from 1.                              *)
Place(w, p, c) == c[1] * w + c[2] - p + 1

(* w is what v becomes when s is written.                                  *)
Wrote(v, w, s) ==
    /\ Spot(w) = Spot(v) + Len(s)
    /\ w.width = v.width
    /\ w.max >= v.max
    /\ s # <<>> => w.y <= w.max
    /\ \A c \in Grid :
           w.cells[c] = IF c[2] < v.width /\ Place(v.width, Spot(v), c) \in 1..Len(s)
                        THEN s[Place(v.width, Spot(v), c)] ELSE v.cells[c]

LEMMA PlaceShifts ==
    ASSUME NEW w \in Nat, NEW p \in Int, NEW k \in Int, NEW c \in Grid
    PROVE  /\ Place(w, p, c) \in Int
           /\ Place(w, p + k, c) = Place(w, p, c) - k
<1>1. c[1] * w \in Int /\ c[2] \in Int
    BY CellsOfGrid
<1> QED
    BY <1>1 DEF Place

LEMMA PlaceCounts ==
    ASSUME NEW w \in Nat, NEW p \in Int, NEW c \in Grid
    PROVE  Place(w, 0, c) \in Int /\ Place(w, p, c) = Place(w, 0, c) - p
<1>1. c[1] * w \in Int /\ c[2] \in Int
    BY CellsOfGrid
<1> QED
    BY <1>1 DEF Place

LEMMA DrawnFacts ==
    ASSUME NEW u, NEW top, NEW base \in Nat, NEW v \in Drawn(u, top, base)
    PROVE  /\ v \in View /\ v.width \in Nat \ {0} /\ v.width \in Widths
           /\ v.x \in Nat /\ v.y \in Nat /\ v.max \in Nat /\ v.row \in Nat
           /\ v.row = base + v.y /\ v.col = v.x /\ v.x < v.width /\ ~v.late
           /\ v.cells \in [Grid -> Runes]
           /\ Spot(v) = v.row * v.width + v.x /\ Spot(v) \in Nat
<1>1. /\ v \in View /\ v.row = base + v.y /\ v.col = v.x /\ ~v.late
      /\ v.x < v.width /\ v.width \in Widths
    BY DEF Drawn
<1>2. /\ v.width \in Nat \ {0} /\ v.x \in Nat /\ v.y \in Nat /\ v.max \in Nat
      /\ v.row \in Nat /\ v.cells \in [Grid -> Runes]
    BY <1>1, WidthsPositive DEF View
<1>3. v.row * v.width \in Nat
    BY <1>2
<1>4. Spot(v) = v.row * v.width + v.x
    BY <1>1, <1>2, <1>3 DEF Spot
<1> QED
    BY <1>1, <1>2, <1>3, <1>4

LEMMA NothingWrote ==
    ASSUME NEW u, NEW top, NEW base \in Nat, NEW v \in Drawn(u, top, base)
    PROVE  Wrote(v, v, <<>>)
<1>1. Spot(v) \in Nat /\ v.max \in Nat
    BY DrawnFacts
<1>2. Len(<<>>) = 0
    OBVIOUS
<1>3. ASSUME NEW k \in Int PROVE k \notin 1..0
    OBVIOUS
<1> QED
    BY <1>1, <1>2 DEF Wrote

LEMMA WroteTwice ==
    ASSUME NEW u, NEW top, NEW base \in Nat,
           NEW v \in Drawn(u, top, base), NEW w \in Drawn(u, top, base),
           NEW z \in Drawn(u, top, base), NEW s \in Line, NEW t \in Line,
           Wrote(v, w, s), Wrote(w, z, t)
    PROVE  Wrote(v, z, s \o t)
<1> DEFINE p == Spot(v)
           W == v.width
           st == s \o t
<1>1. /\ p \in Nat /\ W \in Nat \ {0} /\ v.max \in Nat /\ w.max \in Nat /\ z.max \in Nat
      /\ w.y \in Nat /\ z.y \in Nat
    BY DrawnFacts
<1>2. /\ st \in Line /\ Len(s) \in Nat /\ Len(t) \in Nat
      /\ Len(st) = Len(s) + Len(t)
      /\ \A i \in 1..(Len(s) + Len(t)) :
            st[i] = IF i <= Len(s) THEN s[i] ELSE t[i - Len(s)]
    BY ConcatProperties, LenProperties DEF Line
<1> HIDE DEF st
<1>3. Spot(w) = p + Len(s) /\ Spot(z) = p + Len(st) /\ z.width = W /\ w.width = W
    BY <1>1, <1>2 DEF Wrote
<1>4. z.max >= v.max
    BY <1>1 DEF Wrote
<1>5. st # <<>> => z.y <= z.max
    <2>1. CASE t # <<>>
        BY <2>1 DEF Wrote
    <2>2. CASE t = <<>> /\ s # <<>>
        <3>1. w.y <= w.max /\ z.max >= w.max
            BY <2>2 DEF Wrote
        <3>2. Spot(z) = Spot(w)
            BY <1>1, <1>2, <1>3, <2>2
        <3>3. z.y = w.y
            <4>1. /\ Spot(w) = w.row * W + w.x /\ Spot(z) = z.row * W + z.x
                  /\ w.row = base + w.y /\ z.row = base + z.y
                  /\ w.row \in Nat /\ z.row \in Nat
                  /\ w.x \in Nat /\ z.x \in Nat /\ w.x < W /\ z.x < W
                BY <1>3, DrawnFacts
            <4>2. Splits(Spot(w), W, w.row, w.x) /\ Splits(Spot(w), W, z.row, z.x)
                BY <1>1, <3>2, <4>1 DEF Splits
            <4>3. w.row = z.row
                <5>1. Spot(w) \div W = w.row /\ Spot(w) \div W = z.row
                    BY <1>1, <4>2, Quotient
                <5> QED
                    BY <5>1
            <4>4. base + w.y = base + z.y
                BY <4>1, <4>3
            <4>5. w.y \in Nat /\ z.y \in Nat
                BY <1>1
            <4> QED
                BY <4>4, <4>5
        <3> QED
            BY <1>1, <3>1, <3>3
    <2>3. CASE t = <<>> /\ s = <<>>
        BY <2>3 DEF st
    <2> QED
        BY <2>1, <2>2, <2>3
<1>6. ASSUME NEW c \in Grid
      PROVE  z.cells[c] = IF c[2] < W /\ Place(W, p, c) \in 1..Len(st)
                          THEN st[Place(W, p, c)] ELSE v.cells[c]
    <2> DEFINE i == Place(W, p, c)
               j == Place(W, Spot(w), c)
    <2>1. i \in Int /\ j = i - Len(s)
        BY <1>1, <1>2, <1>3, PlaceShifts
    <2>2. w.cells[c] = IF c[2] < W /\ i \in 1..Len(s) THEN s[i] ELSE v.cells[c]
        BY DEF Wrote
    <2>3. z.cells[c] = IF c[2] < W /\ j \in 1..Len(t) THEN t[j] ELSE w.cells[c]
        BY <1>3 DEF Wrote
    <2> HIDE DEF i, j, W, p
    <2>4. CASE c[2] < W /\ i \in 1..Len(s)
        <3>1. j \notin 1..Len(t) /\ i \in 1..Len(st) /\ st[i] = s[i]
            BY <1>2, <2>1, <2>4
        <3> QED
            BY <2>2, <2>3, <2>4, <3>1 DEF i
    <2>5. CASE c[2] < W /\ i \notin 1..Len(s) /\ i \in 1..Len(st)
        <3>1. j \in 1..Len(t) /\ st[i] = t[j]
            BY <1>2, <2>1, <2>5
        <3> QED
            BY <2>2, <2>3, <2>5, <3>1 DEF i
    <2>6. CASE ~(c[2] < W /\ i \in 1..Len(st))
        <3>1. ~(c[2] < W /\ i \in 1..Len(s)) /\ ~(c[2] < W /\ j \in 1..Len(t))
            BY <1>2, <2>1, <2>6
        <3> QED
            BY <2>2, <2>3, <2>6, <3>1 DEF i
    <2> QED
        BY <2>4, <2>5, <2>6
<1> QED
    BY <1>3, <1>4, <1>5, <1>6 DEF Wrote, st

(* Text writes what it says.                                               *)
LEMMA TextWrites ==
    ASSUME NEW u, NEW top \in Nat, NEW base \in Nat, top <= base,
           NEW v \in Drawn(u, top, base), NEW s \in Line
    PROVE  Wrote(v, Text(v, s), s)
<1> DEFINE W == v.width
           n == v.x + Len(s)
           q == n \div W
           r == n % W
           t == Show(v, s)
           w == Text(v, s)
           y == t.y + q
           max == IF y > t.max THEN y ELSE t.max
           z == [t EXCEPT !.x = r, !.y = y, !.max = max]
           p == Spot(v)
<1>1. /\ v \in View /\ W \in Nat \ {0} /\ v.x \in Nat /\ v.y \in Nat /\ v.max \in Nat
      /\ v.row \in Nat /\ v.row = base + v.y /\ v.col = v.x /\ v.x < W /\ ~v.late
      /\ v.cells \in [Grid -> Runes] /\ p = v.row * W + v.x /\ p \in Nat
    BY DrawnFacts
<1>2. Len(s) \in Nat /\ (Len(s) = 0 <=> s = <<>>) /\ DOMAIN s = 1..Len(s)
    BY DEF Line
<1>3. w \in Drawn(u, top, base) /\ w.width = W
    BY TextDraws
<1>n. n \in Nat
    BY <1>1, <1>2
<1>4. Splits(n, W, q, r)
    <2> HIDE DEF n, W
    <2> QED
        BY <1>1, <1>n, Remainder
<1>5. q \in Nat /\ r \in Nat
    BY <1>1, <1>4 DEF Splits
<1>6. t \in View /\ t.width = W /\ t.x = v.x /\ t.y = v.y /\ t.max = v.max
    <2>1. CASE s = <<>>
        BY <1>1, <2>1 DEF Show
    <2>2. CASE s # <<>>
        <3> HIDE DEF q, r
        <3> QED
            BY <1>1, <1>4, <1>5, <2>2, ShowMoves
    <2> QED
        BY <2>1, <2>2
<1>7. ASSUME NEW c \in Grid
      PROVE  t.cells[c] = IF c[2] < W /\ Place(W, p, c) \in 1..Len(s)
                          THEN s[Place(W, p, c)] ELSE v.cells[c]
    <2>1. CASE s = <<>>
        <3>1. t = v
            BY <2>1 DEF Show
        <3>2. Place(W, p, c) \notin 1..Len(s)
            BY <1>2, <2>1
        <3> QED
            BY <3>1, <3>2
    <2>2. CASE s # <<>>
        <3>1. t.cells = [d \in Grid |->
                    IF d[2] < W /\ d[1] * W + d[2] - p + 1 \in DOMAIN s
                    THEN s[d[1] * W + d[2] - p + 1] ELSE v.cells[d]]
            BY <1>1, <2>2 DEF Show, View
        <3> QED
            BY <1>2, <3>1 DEF Place
    <2> QED
        BY <2>1, <2>2
<1>8. w = IF Len(s) > 0 /\ z.x = 0 THEN CRLF(z) ELSE z
    BY <1>6 DEF Text, advanceCursor
<1> HIDE DEF q, r, t, w, n, p
<1>9. y = v.y + q /\ y \in Nat /\ max \in Nat /\ max >= v.max /\ y <= max
    BY <1>1, <1>5, <1>6
<1> HIDE DEF y, max
<1>10. /\ z \in View /\ z.x = r /\ z.y = y /\ z.max = max /\ z.cells = t.cells
    BY <1>5, <1>6, <1>9 DEF View
<1> HIDE DEF z
<1>11. w.x = r /\ w.y = y /\ w.max = max /\ w.cells = t.cells
    <2>1. CASE Len(s) > 0 /\ z.x = 0
        BY <1>8, <1>10, <2>1 DEF CRLF, View
    <2>2. CASE ~(Len(s) > 0 /\ z.x = 0)
        BY <1>8, <1>10, <2>2
    <2> QED
        BY <2>1, <2>2
<1>12. Spot(w) = p + Len(s)
    <2>1. Spot(w) = w.row * W + w.x /\ w.row = base + w.y
        BY <1>3, DrawnFacts
    <2>2. w.row = v.row + q
        BY <1>1, <1>5, <1>9, <1>11, <2>1
    <2>3. Splits(v.row * W + n, W, v.row + q, r)
        <3> HIDE DEF W
        <3> QED
            BY <1>1, <1>4, Spread
    <2>4. v.row * W + n = (v.row + q) * W + r
        BY <2>3 DEF Splits
    <2>5. v.row * W \in Nat
        BY <1>1
    <2> QED
        BY <1>1, <1>2, <1>11, <2>1, <2>2, <2>4, <2>5 DEF n
<1> QED
    BY <1>1, <1>3, <1>7, <1>9, <1>11, <1>12 DEF Wrote, w, p

(* Up to where the first k pieces go.                                      *)
End(v, s, k) == Below(Start(v, k + 1) - 1, Len(s))

LEMMA PiecesMeet ==
    ASSUME NEW v \in View, v.x < v.width, v.width \in Nat \ {0},
           NEW s \in Line, NEW k \in Nat
    PROVE  /\ SubSeq(s, 1, End(v, s, k)) \in Line
           /\ SubSeq(s, 1, End(v, s, k)) \o Piece(v, s, k + 1)
                = SubSeq(s, 1, End(v, s, k + 1))
<1> DEFINE a == Start(v, k + 1)
           b == Start(v, k + 2)
<1>1. Len(s) \in Nat /\ s \in Seq(Runes)
    BY DEF Line
<1>2. a \in Nat /\ a > 0 /\ b \in Nat /\ a <= b
    <2>1. v.x \in Nat /\ v.width - v.x > 0
        BY DEF View
    <2>2. CASE k = 0
        <3>1. a = 1
            BY <2>2 DEF Start
        <3>2. b = v.width - v.x + 0 * v.width + 1
            BY <2>2 DEF Start
        <3> QED
            BY <2>1, <3>1, <3>2
    <2>3. CASE k # 0
        <3>1. a = v.width - v.x + (k - 1) * v.width + 1
            BY <2>3 DEF Start
        <3>2. b = v.width - v.x + k * v.width + 1
            BY <2>3 DEF Start
        <3>3. (k - 1) * v.width \in Nat /\ k * v.width = (k - 1) * v.width + v.width
            BY <2>3
        <3> QED
            BY <2>1, <3>1, <3>2, <3>3
    <2> QED
        BY <2>2, <2>3
<1>3. /\ End(v, s, k) = Below(a - 1, Len(s))
      /\ End(v, s, k + 1) = Below(b - 1, Len(s))
      /\ Piece(v, s, k + 1) = SubSeq(s, a, Below(b - 1, Len(s)))
    <2>1. (k + 1) + 1 = k + 2
        OBVIOUS
    <2> QED
        BY <2>1 DEF End, Piece
<1> HIDE DEF a, b
<1> DEFINE e == Below(b - 1, Len(s))
<1>4. e \in 0..Len(s)
    BY <1>1, <1>2 DEF Below
<1>5. CASE a <= Len(s)
    <2>1. End(v, s, k) = a - 1 /\ a - 1 \in 0..Len(s) /\ e >= a - 1
        BY <1>1, <1>2, <1>3, <1>5 DEF Below
    <2> HIDE DEF e
    <2>2. SubSeq(s, 1, a - 1) \in Line
        BY <2>1, SliceIsText
    <2>3. /\ 1 \in 1..(Len(s) + 1) /\ a - 1 \in (1 - 1)..Len(s)
          /\ e \in (a - 1)..Len(s) /\ a - 1 + 1 = a
        BY <1>1, <1>2, <1>4, <2>1
    <2>4. SubSeq(s, 1, a - 1) \o SubSeq(s, a - 1 + 1, e) = SubSeq(s, 1, e)
        BY <1>1, <2>3, ConcatAdjacentSubSeq
    <2> QED
        BY <1>3, <2>1, <2>2, <2>3, <2>4 DEF e
<1>6. CASE ~(a <= Len(s))
    <2>1. Below(a - 1, Len(s)) = Len(s) /\ e = Len(s)
        BY <1>1, <1>2, <1>6 DEF Below
    <2>2. SubSeq(s, a, e) = <<>>
        BY <1>1, <1>2, <1>6, <2>1, SubSeqEmpty
    <2>3. SubSeq(s, 1, Len(s)) = s
        BY <1>1, SubSeqFull
    <2>4. s \o <<>> = s
        BY <1>1, ConcatEmptySeq
    <2> QED
        BY <1>3, <2>1, <2>2, <2>3, <2>4
<1> QED
    BY <1>5, <1>6

(* writeLine writes what it says, however it is cut into pieces.           *)
LEMMA WriteLineWrites ==
    ASSUME NEW u, NEW top \in Nat, NEW base \in Nat, top <= base,
           NEW v \in Drawn(u, top, base), NEW s \in Line
    PROVE  Wrote(v, writeLine(v, s), s)
<1>1. v \in View /\ v.x < v.width /\ v.width \in Nat \ {0}
    BY WidthsPositive DEF Drawn
<1>2. CASE s = <<>>
    BY <1>2, NothingWrote DEF writeLine
<1>3. CASE s # <<>>
    <2> DEFINE D == Drawn(u, top, base)
               upTo(k) == SubSeq(s, 1, End(v, s, k))
    <2>1. PICK g, n : InPieces(v, s, g, n, D)
        BY <1>3, WriteLinePieces
    <2>2. /\ n \in Nat /\ Start(v, n + 1) > Len(s) /\ g[0] = v
          /\ \A i \in 1..n : g[i] = Text(g[i - 1], Piece(v, s, i))
          /\ \A i \in 0..n : g[i] \in D /\ g[i].width = v.width
          /\ writeLine(v, s) = g[n]
        BY <2>1 DEF InPieces
    <2>3. Len(s) \in Nat /\ s \in Seq(Runes)
        BY DEF Line
    <2>4. \A k \in 0..n : Wrote(v, g[k], upTo(k))
        <3> DEFINE S == {k \in Nat : k <= n => Wrote(v, g[k], upTo(k))}
        <3>1. 0 \in S
            <4>1. Start(v, 0 + 1) = 1
                BY DEF Start
            <4>2. End(v, s, 0) = 0
                BY <2>3, <4>1 DEF End, Below
            <4>3. upTo(0) = <<>>
                BY <4>2, SubSeqEmpty
            <4> QED
                BY <2>2, <4>3, NothingWrote
        <3>2. ASSUME NEW k \in Nat, k \in S PROVE k + 1 \in S
            <4> SUFFICES ASSUME k + 1 <= n PROVE Wrote(v, g[k + 1], upTo(k + 1))
                OBVIOUS
            <4>1. k \in 0..n /\ k + 1 \in 1..n /\ k + 1 \in 0..n /\ k + 1 - 1 = k
                BY <2>2
            <4>2. Wrote(v, g[k], upTo(k))
                BY <3>2, <4>1
            <4>3. g[k] \in D /\ g[k + 1] \in D
                BY <2>2, <4>1
            <4>4. g[k + 1] = Text(g[k], Piece(v, s, k + 1))
                BY <2>2, <4>1
            <4>5. Piece(v, s, k + 1) \in Line
                BY <1>1, PieceIsText
            <4>6. Wrote(g[k], g[k + 1], Piece(v, s, k + 1))
                BY <4>3, <4>4, <4>5, TextWrites
            <4>7. upTo(k) \in Line /\ upTo(k) \o Piece(v, s, k + 1) = upTo(k + 1)
                BY <1>1, PiecesMeet
            <4> HIDE DEF upTo
            <4>8. Wrote(v, g[k + 1], upTo(k) \o Piece(v, s, k + 1))
                BY <4>2, <4>3, <4>5, <4>6, <4>7, WroteTwice
            <4> QED
                BY <4>7, <4>8
        <3> HIDE DEF S
        <3>3. \A k \in Nat : k \in S
            BY <3>1, <3>2, SetInduction
        <3> QED
            BY <2>2, <3>3 DEF S
    <2>5. upTo(n) = s
        <3>1. End(v, s, n) = Len(s)
            <4>1. Start(v, n + 1) \in Nat
                BY <1>1, <2>2, PieceIsText
            <4> QED
                BY <2>2, <2>3, <4>1 DEF End, Below
        <3> QED
            BY <2>3, <3>1, SubSeqFull
    <2> HIDE DEF upTo
    <2>6. n \in 0..n
        BY <2>2
    <2> QED
        BY <2>2, <2>4, <2>5, <2>6
<1> QED
    BY <1>2, <1>3

-----------------------------------------------------------------------------
(* What is on the screen from the cell with the number p on: a text, or    *)
(* nothing.                                                                *)
Holds(v, p, s) ==
    \A c \in Grid : (c[2] < v.width /\ Place(v.width, p, c) \in 1..Len(s))
                        => v.cells[c] = s[Place(v.width, p, c)]
CleanFrom(v, p) ==
    \A c \in Grid : (c[2] < v.width /\ Place(v.width, p, c) > 0)
                        => v.cells[c] = Blank

(* A text is held, and t is written over it from its character k + 1 on.   *)
LEMMA HoldsBoth ==
    ASSUME NEW u, NEW top, NEW base \in Nat, NEW v \in Drawn(u, top, base),
           NEW w, NEW p \in Nat, NEW s \in Line, NEW k \in 0..Len(s), NEW t \in Line,
           Spot(v) = p + k, Wrote(v, w, t), Holds(v, p, s)
    PROVE  Holds(w, p, SubSeq(s, 1, k) \o t)
<1> DEFINE W == v.width
           h == SubSeq(s, 1, k)
           st == h \o t
<1>1. W \in Nat \ {0} /\ Len(s) \in Nat /\ Len(t) \in Nat /\ k \in Nat /\ w.width = W
    <2>1. W \in Nat \ {0}
        BY DrawnFacts
    <2> QED
        BY <2>1 DEF Wrote, Line
<1>2. h \in Line /\ Len(h) = k /\ \A i \in 1..k : h[i] = s[i]
    <2>1. h \in Line /\ Len(h) = k
        BY <1>1, SliceIsText
    <2>2. \A i \in 1..k : s[i] \in Runes
        BY <1>1 DEF Line
    <2>3. \A i \in 1..(k - 1 + 1) : h[i] = s[1 + i - 1]
        BY <1>1, <2>2, SubSeqProperties
    <2> QED
        BY <1>1, <2>1, <2>3
<1> HIDE DEF h
<1>3. /\ Len(st) = k + Len(t)
      /\ \A i \in 1..(k + Len(t)) : st[i] = IF i <= k THEN h[i] ELSE t[i - k]
    <2>1. /\ Len(st) = Len(h) + Len(t)
          /\ \A i \in 1..(Len(h) + Len(t)) :
                st[i] = IF i <= Len(h) THEN h[i] ELSE t[i - Len(h)]
        <3>1. h \in Seq(Runes) /\ t \in Seq(Runes)
            BY <1>2 DEF Line
        <3> QED
            BY <3>1, ConcatProperties
    <2> HIDE DEF st
    <2> QED
        BY <1>2, <2>1
<1> HIDE DEF st, W
<1> SUFFICES ASSUME NEW c \in Grid, c[2] < W, Place(W, p, c) \in 1..Len(st)
             PROVE  w.cells[c] = st[Place(W, p, c)]
    BY <1>1 DEF Holds, st, h
<1> DEFINE i == Place(W, p, c)
           j == Place(W, p + k, c)
<1>4. i \in Int /\ j = i - k
    BY <1>1, PlaceShifts
<1>5. w.cells[c] = IF j \in 1..Len(t) THEN t[j] ELSE v.cells[c]
    BY DEF Wrote, W
<1>6. i \in 1..Len(s) => v.cells[c] = s[i]
    BY DEF Holds, W
<1>c. i \in 1..(k + Len(t))
    BY <1>3
<1> HIDE DEF i, j
<1>7. CASE i <= k
    <2>1. j \notin 1..Len(t) /\ i \in 1..Len(s) /\ i \in 1..k
        BY <1>1, <1>4, <1>7, <1>c
    <2> QED
        BY <1>2, <1>3, <1>5, <1>6, <1>7, <1>c, <2>1 DEF i
<1>8. CASE ~(i <= k)
    <2>1. j \in 1..Len(t)
        BY <1>1, <1>4, <1>8, <1>c
    <2> QED
        BY <1>3, <1>4, <1>5, <1>8, <1>c, <2>1 DEF i
<1> QED
    BY <1>7, <1>8

LEMMA HoldsStart ==
    ASSUME NEW v, NEW p, NEW s \in Line, NEW t \in Line, Holds(v, p, s \o t)
    PROVE  Holds(v, p, s)
<1> DEFINE st == s \o t
<1>1. /\ Len(s) \in Nat /\ Len(t) \in Nat /\ Len(st) = Len(s) + Len(t)
      /\ \A i \in 1..(Len(s) + Len(t)) :
            st[i] = IF i <= Len(s) THEN s[i] ELSE t[i - Len(s)]
    BY ConcatProperties, LenProperties DEF Line
<1> HIDE DEF st
<1>2. ASSUME NEW i \in 1..Len(s) PROVE i \in 1..Len(st) /\ st[i] = s[i]
    BY <1>1
<1> QED
    BY <1>2 DEF Holds, st

(* Nothing is behind what is written, if the blanks reach far enough.      *)
LEMMA CleanBehind ==
    ASSUME NEW u, NEW top, NEW base \in Nat, NEW v \in Drawn(u, top, base),
           NEW w, NEW t \in Line, NEW m \in Nat, NEW q \in Nat,
           Wrote(v, w, t \o Blanks(m)), CleanFrom(v, q),
           q <= Spot(v) + Len(t) + m
    PROVE  CleanFrom(w, Spot(v) + Len(t))
<1> DEFINE W == v.width
           p == Spot(v)
           tb == t \o Blanks(m)
<1>1. /\ W \in Nat \ {0} /\ p \in Nat /\ Len(t) \in Nat /\ w.width = W
    <2>1. W \in Nat \ {0} /\ p \in Nat
        BY DrawnFacts
    <2> QED
        BY <2>1 DEF Wrote, Line
<1>2. Blanks(m) \in Line /\ Len(Blanks(m)) = m
    <2>1. Blanks(m) \in Line
        BY BlanksAreText
    <2>2. Len(Blanks(m)) = m
        BY DEF Blanks
    <2> QED
        BY <2>1, <2>2
<1>b. \A i \in 1..m : Blanks(m)[i] = Blank
    BY DEF Blanks
<1>3. /\ Len(tb) = Len(t) + m
      /\ \A i \in 1..(Len(t) + m) : tb[i] = IF i <= Len(t) THEN t[i]
                                          ELSE Blanks(m)[i - Len(t)]
    BY <1>2, ConcatProperties DEF Line
<1> HIDE DEF tb, W, p
<1> SUFFICES ASSUME NEW c \in Grid, c[2] < W, Place(W, p + Len(t), c) > 0
             PROVE  w.cells[c] = Blank
    BY <1>1 DEF CleanFrom, p
<1> DEFINE i == Place(W, p, c)
           j == Place(W, p + Len(t), c)
           b == Place(W, 0, c)
<1>4. b \in Int /\ i = b - p /\ j = i - Len(t) /\ Place(W, q, c) = b - q
    <2>1. b \in Int /\ i = b - p /\ Place(W, q, c) = b - q
        BY <1>1, PlaceCounts
    <2>2. j = b - (p + Len(t))
        BY <1>1, PlaceCounts
    <2> QED
        BY <1>1, <2>1, <2>2
<1>5. w.cells[c] = IF i \in 1..Len(tb) THEN tb[i] ELSE v.cells[c]
    BY DEF Wrote, W, p, tb
<1>6. Place(W, q, c) > 0 => v.cells[c] = Blank
    BY DEF CleanFrom, W
<1>7. j > 0 /\ q <= p + Len(t) + m
    BY DEF p
<1> HIDE DEF i, j, b
<1>8. CASE i \in 1..Len(tb)
    <2>1. i \in 1..(Len(t) + m) /\ ~(i <= Len(t)) /\ i - Len(t) \in 1..m
        BY <1>1, <1>3, <1>4, <1>7, <1>8
    <2> QED
        BY <1>b, <1>3, <1>5, <1>8, <2>1
<1>9. CASE i \notin 1..Len(tb)
    <2>1. i > Len(t) + m
        BY <1>1, <1>3, <1>4, <1>7, <1>9
    <2>2. b - q > 0
        BY <1>1, <1>4, <1>7, <2>1
    <2> QED
        BY <1>4, <1>5, <1>6, <1>9, <2>2
<1> QED
    BY <1>8, <1>9

(* Nor below the rows it takes.                                            *)
LEMMA BlankBehind ==
    ASSUME NEW u, NEW top, NEW base \in Nat, NEW v \in Drawn(u, top, base),
           NEW w \in Drawn(u, top, base), NEW s \in Line,
           Wrote(v, w, s), BlankBelow(v, base + v.max)
    PROVE  BlankBelow(w, base + w.max)
<1> DEFINE W == v.width
           p == Spot(v)
<1>1. /\ W \in Nat \ {0} /\ p \in Nat /\ v.max \in Nat /\ w.max \in Nat
      /\ w.row = base + w.y /\ w.row \in Nat /\ w.y \in Nat
      /\ w.x \in Nat /\ w.x < w.width /\ Spot(w) = w.row * w.width + w.x
    BY DrawnFacts
<1>2. /\ w.width = W /\ w.max >= v.max /\ Spot(w) = p + Len(s)
      /\ s # <<>> => w.y <= w.max
    BY DEF Wrote
<1>3. Len(s) \in Nat /\ (Len(s) = 0 => s = <<>>)
    BY DEF Line
<1> SUFFICES ASSUME NEW c \in Grid, c[1] > base + w.max
             PROVE  w.cells[c] = Blank
    BY DEF BlankBelow
<1> DEFINE i == Place(W, p, c)
<1>4. w.cells[c] = IF c[2] < W /\ i \in 1..Len(s) THEN s[i] ELSE v.cells[c]
    BY DEF Wrote
<1>5. c[1] \in Nat /\ c[2] \in Nat
    BY CellsOfGrid
<1>6. v.cells[c] = Blank
    <2>1. c[1] > base + v.max
        BY <1>1, <1>2, <1>5
    <2> QED
        BY <2>1 DEF BlankBelow
<1>w. W \in Nat \ {0} /\ w.row \in Nat
    BY <1>1
<1> HIDE DEF W, p
<1>7. i \notin 1..Len(s)
    <2> SUFFICES ASSUME i \in 1..Len(s) PROVE FALSE
        OBVIOUS
    <2>1. s # <<>>
        BY <1>3
    <2>2. w.row < c[1]
        <3>1. w.row = base + w.y /\ w.y <= w.max /\ w.y \in Nat /\ w.max \in Nat
            BY <1>1, <1>2, <2>1
        <3> QED
            BY <1>5, <3>1
    <2>3. w.row * W + W <= c[1] * W
        BY <1>w, <1>5, <2>2, RowsInOrder
    <2> DEFINE a == c[1] * W
               b == w.row * W
    <2>4. a \in Nat /\ b \in Nat
        BY <1>w, <1>5
    <2>5. a + c[2] - p + 1 <= Len(s)
        BY DEF Place
    <2>6. p + Len(s) = b + w.x /\ w.x < W /\ b + W <= a
        BY <1>1, <1>2, <2>3
    <2> HIDE DEF a, b
    <2> QED
        BY <1>1, <1>3, <1>5, <2>4, <2>5, <2>6, SMTT(30)
<1> QED
    BY <1>4, <1>6, <1>7

-----------------------------------------------------------------------------
(* What is meant to be on the screen from row n on when l is being edited  *)
(* and the cursor is at p in it; and that nothing else is there.           *)
Right(v, n, l, p) ==
    /\ Spot(v) = n * v.width + (Len(prompt) + p)
    /\ Holds(v, n * v.width, prompt \o l)
Only(v, n, l) ==
    /\ CleanFrom(v, n * v.width + (Len(prompt) + Len(l)))
    /\ BlankBelow(v, n + v.max)

LEMMA CursorPlaces ==
    ASSUME NEW u, NEW top \in Nat, NEW base \in Nat,
           NEW v \in Drawn(u, top, base), NEW p \in Nat, prompt \in Line
    PROVE  LET w == moveCursorToPos(v, p) IN
           /\ w.cells = v.cells /\ w.max = v.max /\ w.width = v.width
           /\ Spot(w) = base * v.width + (Len(prompt) + p)
<1> DEFINE n == Len(prompt) + p
           W == v.width
           q == n \div W
           r == n % W
           w == moveCursorToPos(v, p)
<1>1. v \in View /\ W \in Nat \ {0}
    BY DrawnFacts
<1>2. n \in Nat
    BY DEF Line
<1>3. Splits(n, W, q, r)
    <2> HIDE DEF n, W
    <2> QED
        BY <1>1, <1>2, Remainder
<1>4. q \in Nat /\ r \in Nat /\ r < W
    BY <1>1, <1>3 DEF Splits
<1>5. w = MoveTo(v, r, q)
    BY DEF moveCursorToPos
<1> HIDE DEF q, r, n
<1>6. w.cells = v.cells /\ w.max = v.max
    BY <1>1, <1>5 DEF MoveTo, MoveBy, View
<1>7. w \in Drawn(u, top, base) /\ w.width = W /\ w.x = r /\ w.y = q
    BY <1>4, <1>5, MoveToDraws
<1> HIDE DEF w
<1>8. Spot(w) = w.row * w.width + w.x /\ w.row = base + w.y
    BY <1>7, DrawnFacts
<1>9. Splits(base * W + n, W, base + q, r)
    <2> HIDE DEF W
    <2> QED
        BY <1>1, <1>3, Spread
<1>10. base * W + n = (base + q) * W + r
    BY <1>9 DEF Splits
<1> QED
    BY <1>6, <1>7, <1>8, <1>10 DEF n, w

LEMMA CursorRight ==
    ASSUME NEW u, NEW top \in Nat, NEW base \in Nat,
           NEW v \in Drawn(u, top, base), NEW p \in Nat, prompt \in Line, NEW l
    PROVE  /\ Holds(v, base * v.width, prompt \o l)
                 => Right(moveCursorToPos(v, p), base, l, p)
           /\ Only(v, base, l) => Only(moveCursorToPos(v, p), base, l)
<1> DEFINE w == moveCursorToPos(v, p)
<1>1. /\ w.cells = v.cells /\ w.max = v.max /\ w.width = v.width
      /\ Spot(w) = base * v.width + (Len(prompt) + p)
    BY CursorPlaces
<1> HIDE DEF w
<1>2. Holds(v, base * v.width, prompt \o l) => Right(w, base, l, p)
    BY <1>1 DEF Right, Holds
<1>3. Only(v, base, l) => Only(w, base, l)
    BY <1>1 DEF Only, CleanFrom, BlankBelow
<1> QED
    BY <1>2, <1>3 DEF w

(* Parts of texts, and texts one after the other.                          *)
LEMMA Prefix1 ==
    ASSUME NEW s \in Line, NEW k \in 0..Len(s)
    PROVE  /\ SubSeq(s, 1, k) \in Line /\ Len(SubSeq(s, 1, k)) = k
           /\ \A i \in 1..k : SubSeq(s, 1, k)[i] = s[i]
<1>1. Len(s) \in Nat /\ k \in Nat /\ k <= Len(s)
    BY DEF Line
<1>2. SubSeq(s, 1, k) \in Line /\ Len(SubSeq(s, 1, k)) = k
    BY <1>1, SliceIsText
<1>3. \A i \in 1..k : s[i] \in Runes
    BY <1>1 DEF Line
<1>4. \A i \in 1..(k - 1 + 1) : SubSeq(s, 1, k)[i] = s[1 + i - 1]
    BY <1>1, <1>3, SubSeqProperties
<1> QED
    BY <1>1, <1>2, <1>4

LEMMA Joined ==
    ASSUME NEW s \in Line, NEW t \in Line
    PROVE  /\ s \o t \in Line /\ Len(s \o t) = Len(s) + Len(t)
           /\ \A i \in 1..(Len(s) + Len(t)) :
                 (s \o t)[i] = IF i <= Len(s) THEN s[i] ELSE t[i - Len(s)]
<1>1. s \in Seq(Runes) /\ t \in Seq(Runes)
    BY DEF Line
<1> QED
    BY <1>1, ConcatProperties DEF Line

LEMMA JoinedTwice ==
    ASSUME NEW s \in Line, NEW t \in Line, NEW r \in Line
    PROVE  (s \o t) \o r = s \o (t \o r)
<1>1. s \in Seq(Runes) /\ t \in Seq(Runes) /\ r \in Seq(Runes)
    BY DEF Line
<1> QED
    BY <1>1, ConcatAssociative

(* The line up to where it changes, what replaces the rest, and blanks.    *)
Changes(a, s, k, t, b) ==
    /\ Len(a) + k \in 0..Len(a \o s)
    /\ SubSeq(a \o s, 1, Len(a) + k) \o (t \o b)
          = (a \o (SubSeq(s, 1, k) \o t)) \o b

LEMMA SameStart ==
    ASSUME NEW a \in Line, NEW s \in Line, NEW k \in 0..Len(s),
           NEW t \in Line, NEW b \in Line
    PROVE  Changes(a, s, k, t, b)
<1> DEFINE h == SubSeq(s, 1, k)
           as == a \o s
           e == Len(a) + k
           l == SubSeq(as, 1, e)
           ah == a \o h
<1>1. Len(s) \in Nat /\ Len(a) \in Nat /\ k \in Nat /\ k <= Len(s)
    BY DEF Line
<1>2. h \in Line /\ Len(h) = k /\ \A i \in 1..k : h[i] = s[i]
    BY Prefix1
<1> HIDE DEF h
<1>3. /\ as \in Line /\ Len(as) = Len(a) + Len(s)
      /\ \A i \in 1..(Len(a) + Len(s)) : as[i] = IF i <= Len(a) THEN a[i] ELSE s[i - Len(a)]
    BY Joined
<1>4. /\ ah \in Line /\ Len(ah) = Len(a) + Len(h)
      /\ \A i \in 1..(Len(a) + Len(h)) : ah[i] = IF i <= Len(a) THEN a[i] ELSE h[i - Len(a)]
    BY <1>2, Joined
<1> HIDE DEF as, ah
<1>5. e \in 0..Len(as) /\ e \in Nat
    BY <1>1, <1>3
<1> HIDE DEF e
<1>6. l \in Line /\ Len(l) = e /\ \A i \in 1..e : l[i] = as[i]
    BY <1>3, <1>5, Prefix1
<1> HIDE DEF l
<1>7. l = ah
    <2>1. Len(ah) = e /\ e = Len(a) + k
        BY <1>2, <1>4 DEF e
    <2>2. ASSUME NEW i \in 1..e PROVE l[i] = ah[i]
        <3>1. i \in 1..(Len(a) + k) /\ i \in 1..(Len(a) + Len(s)) /\ i \in 1..(Len(a) + Len(h))
            BY <1>1, <1>2, <2>1
        <3>2. l[i] = as[i]
            BY <1>6
        <3>3. as[i] = IF i <= Len(a) THEN a[i] ELSE s[i - Len(a)]
            BY <1>3, <3>1
        <3>4. ah[i] = IF i <= Len(a) THEN a[i] ELSE h[i - Len(a)]
            BY <1>4, <3>1
        <3>5. CASE i <= Len(a)
            BY <3>2, <3>3, <3>4, <3>5
        <3>6. CASE ~(i <= Len(a))
            <4>1. i - Len(a) \in 1..k
                BY <1>1, <3>1, <3>6
            <4>2. h[i - Len(a)] = s[i - Len(a)]
                BY <1>2, <4>1
            <4> QED
                BY <3>2, <3>3, <3>4, <3>6, <4>2
        <3> QED
            BY <3>5, <3>6
    <2>3. l \in Seq(Runes) /\ ah \in Seq(Runes)
        BY <1>4, <1>6 DEF Line
    <2> QED
        BY <1>6, <2>1, <2>2, <2>3, SeqEqual
<1>8. ah \o (t \o b) = (a \o (h \o t)) \o b
    <2>1. ah \in Line /\ h \in Line
        BY <1>2, <1>4
    <2>2. (ah \o t) \o b = ah \o (t \o b)
        <3> SUFFICES ASSUME NEW x \in Line, x = ah
                     PROVE  (x \o t) \o b = x \o (t \o b)
            BY <2>1
        <3> QED
            BY JoinedTwice
    <2>3. (a \o h) \o t = a \o (h \o t)
        <3> SUFFICES ASSUME NEW x \in Line, x = h
                     PROVE  (a \o x) \o t = a \o (x \o t)
            BY <2>1
        <3> QED
            BY JoinedTwice
    <2> QED
        BY <2>2, <2>3 DEF ah
<1> QED
    BY <1>5, <1>7, <1>8 DEF l, as, h, e, Changes

LEMMA Redrawn ==
    ASSUME NEW u, NEW n \in Nat, NEW v \in Drawn(u, n, n), NEW w \in Drawn(u, n, n),
           prompt \in Line, NEW s \in Line, NEW k \in 0..Len(s), NEW t \in Line,
           NEW m \in Nat, Right(v, n, s, k), Wrote(v, w, t \o Blanks(m)), NEW p \in Nat
    PROVE  /\ Right(moveCursorToPos(w, p), n, SubSeq(s, 1, k) \o t, p)
           /\ (Only(v, n, s) /\ k + Len(t) + m >= Len(s))
                 => Only(moveCursorToPos(w, p), n, SubSeq(s, 1, k) \o t)
<1> DEFINE l == SubSeq(s, 1, k) \o t
           b == Blanks(m)
           P == n * v.width
           K == Len(prompt) + k
<1>1. /\ Len(s) \in Nat /\ Len(t) \in Nat /\ Len(prompt) \in Nat /\ k \in Nat
      /\ b \in Line
    <2>1. b \in Line
        BY BlanksAreText
    <2> HIDE DEF b
    <2> QED
        BY <2>1 DEF Line
<1>2. /\ w.width = v.width /\ v.width \in Nat \ {0} /\ P \in Nat
    <2>1. v.width \in Nat \ {0}
        BY DrawnFacts
    <2> QED
        BY <2>1 DEF Wrote
<1>3. l \in Line /\ Len(l) = k + Len(t)
    <2>1. SubSeq(s, 1, k) \in Line /\ Len(SubSeq(s, 1, k)) = k
        BY <1>1, SliceIsText
    <2> QED
        BY <2>1, JoinIsText
<1>4. Spot(v) = P + K /\ Holds(v, P, prompt \o s)
    BY DEF Right
<1>5. K \in 0..Len(prompt \o s)
      /\ SubSeq(prompt \o s, 1, K) \o (t \o b) = (prompt \o l) \o b
    <2>1. Changes(prompt, s, k, t, b)
        BY <1>1, SameStart
    <2> QED
        BY <2>1 DEF Changes
<1>6. t \o b \in Line /\ prompt \o s \in Line /\ prompt \o l \in Line
    BY <1>1, <1>3, JoinIsText
<1> HIDE DEF l, b, P, K
<1>7. Holds(w, P, (prompt \o l) \o b)
    <2>1. Wrote(v, w, t \o b)
        BY DEF b
    <2>2. Holds(w, P, SubSeq(prompt \o s, 1, K) \o (t \o b))
        BY <1>2, <1>4, <1>5, <1>6, <2>1, HoldsBoth
    <2> QED
        BY <1>5, <2>2
<1>8. Holds(w, P, prompt \o l)
    BY <1>1, <1>6, <1>7, HoldsStart
<1>9. Right(moveCursorToPos(w, p), n, l, p)
    <2>1. Holds(w, n * w.width, prompt \o l)
        BY <1>2, <1>8 DEF P
    <2> QED
        BY <2>1, CursorRight
<1>10. ASSUME Only(v, n, s), k + Len(t) + m >= Len(s)
       PROVE  Only(moveCursorToPos(w, p), n, l)
    <2> DEFINE q == P + (Len(prompt) + Len(s))
    <2>1. CleanFrom(v, q) /\ BlankBelow(v, n + v.max)
        BY <1>10 DEF Only, P
    <2>2. q \in Nat /\ q <= Spot(v) + Len(t) + m
        BY <1>1, <1>2, <1>4, <1>10 DEF K
    <2> HIDE DEF q
    <2>3. CleanFrom(w, Spot(v) + Len(t))
        BY <2>1, <2>2, CleanBehind
    <2>4. Spot(v) + Len(t) = P + (Len(prompt) + Len(l))
        BY <1>1, <1>2, <1>3, <1>4 DEF K
    <2>5. BlankBelow(w, n + w.max)
        BY <1>6, <2>1, BlankBehind DEF b
    <2>6. Only(w, n, l)
        BY <1>2, <2>3, <2>4, <2>5 DEF Only, P
    <2> QED
        BY <2>6, CursorRight
<1> QED
    BY <1>9, <1>10 DEF l

-----------------------------------------------------------------------------
(* Every change of the line shows.                                         *)
KeepsRight(n) ==
    Right(view, n, line, pos) =>
        /\ Right(view', n, line', pos')
        /\ Only(view, n, line) => Only(view', n, line')

LEMMA NoBlanks ==
    ASSUME NEW t \in Line
    PROVE  t \o Blanks(0) = t
<1>1. Blanks(0) = <<>>
    BY DEF Blanks
<1>2. t \o <<>> = t
    BY ConcatEmptySeq DEF Line
<1> QED
    BY <1>1, <1>2

LEMMA SetLineRight ==
    ASSUME NEW n \in Nat, NEW v \in Drawn(view, n, n), line \in Line,
           prompt \in Line, NEW s \in Line, Len(s) <= Len(line),
           Holds(v, n * v.width, prompt \o s),
           NEW l \in Line, NEW p \in 0..Len(l), setLine(v, l, p)
    PROVE  /\ Right(view', n, line', pos')
           /\ Only(v, n, s) => Only(view', n, line')
<1> DEFINE m == AtLeast0(Len(line) - Len(l))
           v0 == moveCursorToPos(v, 0)
           w == writeLine(v0, l)
           z == writeLine(w, Blanks(m))
<1>1. /\ Len(s) \in Nat /\ Len(line) \in Nat /\ Len(l) \in Nat /\ p \in Nat
      /\ m \in Nat /\ Len(l) + m >= Len(line) /\ n <= n /\ 0 \in 0..Len(s)
    BY DEF AtLeast0, Line
<1>2. line' = l /\ pos' = p /\ view' = moveCursorToPos(z, p)
    BY DEF setLine, Put
<1> HIDE DEF m
<1>3. Blanks(m) \in Line
    BY <1>1, BlanksAreText
<1>4. /\ v0 \in Drawn(view, n, n)
      /\ Right(v0, n, s, 0)
      /\ Only(v, n, s) => Only(v0, n, s)
    BY CursorMoves, CursorRight
<1> HIDE DEF v0
<1>5. w \in Drawn(view, n, n) /\ Wrote(v0, w, l)
    BY <1>1, <1>4, WriteLineDraws, WriteLineWrites
<1> HIDE DEF w
<1>6. z \in Drawn(view, n, n) /\ Wrote(w, z, Blanks(m))
    BY <1>1, <1>3, <1>5, WriteLineDraws, WriteLineWrites
<1> HIDE DEF z
<1>7. Wrote(v0, z, l \o Blanks(m))
    BY <1>3, <1>4, <1>5, <1>6, WroteTwice
<1>8. SubSeq(s, 1, 0) \o l = l
    <2>1. SubSeq(s, 1, 0) = <<>>
        BY SubSeqEmpty
    <2>2. <<>> \o l = l
        BY ConcatEmptySeq DEF Line
    <2> QED
        BY <2>1, <2>2
<1>9. /\ Right(moveCursorToPos(z, p), n, SubSeq(s, 1, 0) \o l, p)
      /\ (Only(v0, n, s) /\ 0 + Len(l) + m >= Len(s))
            => Only(moveCursorToPos(z, p), n, SubSeq(s, 1, 0) \o l)
    BY <1>1, <1>4, <1>6, <1>7, Redrawn
<1>10. 0 + Len(l) + m >= Len(s)
    BY <1>1
<1> QED
    BY <1>2, <1>4, <1>8, <1>9, <1>10

LEMMA EraseRight ==
    ASSUME NEW n \in Nat, view \in Drawn(view, n, n), line \in Line,
           prompt \in Line, NEW at \in 0..Len(line), NEW count \in Nat,
           EraseBefore(at, count)
    PROVE  KeepsRight(n)
<1>1. CASE count = 0
    BY <1>1 DEF EraseBefore, Nothing, KeepsRight
<1>2. CASE count # 0
    <2> SUFFICES ASSUME Right(view, n, line, pos)
                 PROVE  /\ Right(view', n, line', pos')
                        /\ Only(view, n, line) => Only(view', n, line')
        BY DEF KeepsRight
    <2> DEFINE m == IF at < count THEN at ELSE count
               k == at - m
               tail == SubSeq(line, at + 1, Len(line))
               v0 == moveCursorToPos(view, k)
               w == writeLine(v0, tail)
               z == Text(w, Blanks(m))
    <2>1. Len(line) \in Nat /\ at \in Nat /\ at <= Len(line) /\ n <= n
        BY DEF Line
    <2>2. m \in Nat /\ k \in Nat /\ k \in 0..Len(line) /\ k + m = at
        BY <2>1
    <2>3. /\ line' = SubSeq(line, 1, k) \o tail /\ pos' = k
          /\ view' = moveCursorToPos(z, k)
        BY <1>2 DEF EraseBefore, Put
    <2> HIDE DEF k, m
    <2>4. tail \in Line /\ Len(tail) = Len(line) - at
        <3>1. /\ tail \in Line
              /\ Len(tail) = IF at + 1 <= Len(line) THEN Len(line) - (at + 1) + 1 ELSE 0
            BY <2>1, SliceIsText
        <3> HIDE DEF tail
        <3> QED
            BY <2>1, <3>1
    <2> HIDE DEF tail
    <2>5. Blanks(m) \in Line
        BY <2>2, BlanksAreText
    <2>6. v0 \in Drawn(view, n, n)
        BY <2>2, CursorMoves
    <2>7. /\ Right(v0, n, line, k)
          /\ Only(view, n, line) => Only(v0, n, line)
        <3>1. Holds(view, n * view.width, prompt \o line)
            BY DEF Right
        <3> QED
            BY <2>2, <3>1, CursorRight
    <2> HIDE DEF v0
    <2>8. w \in Drawn(view, n, n) /\ Wrote(v0, w, tail)
        BY <2>1, <2>4, <2>6, WriteLineDraws, WriteLineWrites
    <2> HIDE DEF w
    <2>9. z \in Drawn(view, n, n) /\ Wrote(w, z, Blanks(m))
        BY <2>1, <2>5, <2>8, TextDraws, TextWrites
    <2> HIDE DEF z
    <2>10. Wrote(v0, z, tail \o Blanks(m))
        BY <2>4, <2>5, <2>6, <2>8, <2>9, WroteTwice
    <2>11. /\ Right(moveCursorToPos(z, k), n, SubSeq(line, 1, k) \o tail, k)
           /\ (Only(v0, n, line) /\ k + Len(tail) + m >= Len(line))
                 => Only(moveCursorToPos(z, k), n, SubSeq(line, 1, k) \o tail)
        BY <2>2, <2>4, <2>6, <2>7, <2>9, <2>10, Redrawn
    <2>12. k + Len(tail) + m >= Len(line)
        BY <2>1, <2>2, <2>4
    <2> QED
        BY <2>3, <2>7, <2>11, <2>12
<1> QED
    BY <1>1, <1>2

LEMMA PutAtRight ==
    ASSUME NEW n \in Nat, view \in Drawn(view, n, n), line \in Line,
           prompt \in Line, NEW p \in 0..Len(line), PutAt(p)
    PROVE  KeepsRight(n)
<1>1. p \in Nat
    BY DEF Line
<1>2. line' = line /\ pos' = p /\ view' = moveCursorToPos(view, p)
    BY DEF PutAt, Put
<1> QED
    BY <1>1, <1>2, CursorRight DEF KeepsRight, Right

(* The end of what is put together is its second part.                     *)
LEMMA SecondPart ==
    ASSUME NEW s \in Line, NEW t \in Line
    PROVE  SubSeq(s \o t, Len(s) + 1, Len(s \o t)) = t
<1> DEFINE st == s \o t
           a == Len(s) + 1
           r == SubSeq(st, a, Len(st))
<1>1. /\ st \in Line /\ Len(st) = Len(s) + Len(t)
      /\ \A i \in 1..(Len(s) + Len(t)) :
            st[i] = IF i <= Len(s) THEN s[i] ELSE t[i - Len(s)]
    BY Joined
<1>2. Len(s) \in Nat /\ Len(t) \in Nat
    BY DEF Line
<1> HIDE DEF st
<1>3. a \in Nat \ {0} /\ Len(st) \in 0..Len(st) /\ Len(st) \in Nat
    BY <1>1, <1>2
<1>4. r \in Line /\ Len(r) = Len(t)
    <2>1. r \in Line /\ Len(r) = IF a <= Len(st) THEN Len(st) - a + 1 ELSE 0
        BY <1>1, <1>3, SliceIsText
    <2> HIDE DEF r
    <2> QED
        BY <1>1, <1>2, <2>1
<1>5. ASSUME NEW i \in 1..Len(t) PROVE r[i] = t[i]
    <2>1. \A j \in a..Len(st) : st[j] \in Runes
        BY <1>1, <1>2 DEF Line
    <2>2. \A j \in 1..(Len(st) - a + 1) : r[j] = st[a + j - 1]
        BY <1>3, <2>1, SubSeqProperties
    <2>3. i \in 1..(Len(st) - a + 1) /\ a + i - 1 = Len(s) + i
          /\ Len(s) + i \in 1..(Len(s) + Len(t)) /\ ~(Len(s) + i <= Len(s))
          /\ Len(s) + i - Len(s) = i
        BY <1>1, <1>2
    <2> HIDE DEF r
    <2> QED
        BY <1>1, <2>2, <2>3, SMTT(30)
<1>6. r \in Seq(Runes) /\ t \in Seq(Runes)
    BY <1>4 DEF Line
<1> HIDE DEF r
<1>7. r = t
    BY <1>4, <1>5, <1>6, SeqEqual
<1> QED
    BY <1>7 DEF r, st

LEMMA AddKeyRight ==
    ASSUME NEW n \in Nat, view \in Drawn(view, n, n), line \in Line,
           prompt \in Line, pos \in 0..Len(line), NEW k \in Runes,
           addKeyToLine(k)
    PROVE  KeepsRight(n)
<1> SUFFICES ASSUME Right(view, n, line, pos)
             PROVE  /\ Right(view', n, line', pos')
                    /\ Only(view, n, line) => Only(view', n, line')
    BY DEF KeepsRight
<1> DEFINE head == SubSeq(line, 1, pos)
           tail == SubSeq(line, pos + 1, Len(line))
           one == <<k>>
           new == one \o tail
           l == head \o new
           w == writeLine(view, new)
<1>1. Len(line) \in Nat /\ pos \in Nat /\ pos <= Len(line) /\ n <= n
    BY DEF Line
<1>2. head \in Line /\ Len(head) = pos
    BY Prefix1
<1>3. tail \in Line /\ Len(tail) = Len(line) - pos
    <2>1. /\ tail \in Line
          /\ Len(tail) = IF pos + 1 <= Len(line) THEN Len(line) - (pos + 1) + 1 ELSE 0
        BY <1>1, SliceIsText
    <2> HIDE DEF tail
    <2> QED
        BY <1>1, <2>1
<1>4. one \in Line /\ Len(one) = 1
    BY DEF Line
<1>5. new \in Line /\ Len(new) = 1 + Len(tail)
    BY <1>3, <1>4, JoinIsText
<1>6. /\ line' = (head \o one) \o tail /\ pos' = pos + 1
      /\ view' = moveCursorToPos(writeLine(view,
                     SubSeq((head \o one) \o tail, pos + 1,
                            Len((head \o one) \o tail))), pos + 1)
    <2>1. pos + 1 - 1 = pos
        BY <1>1
    <2> QED
        BY <2>1 DEF addKeyToLine, Put, InsertAt
<1> HIDE DEF head, tail, one
<1>7. (head \o one) \o tail = l
    <2> SUFFICES ASSUME NEW x \in Line, x = head, NEW y \in Line, y = one,
                        NEW z \in Line, z = tail
                 PROVE  (x \o y) \o z = x \o (y \o z)
        BY <1>2, <1>3, <1>4
    <2> QED
        BY JoinedTwice
<1> HIDE DEF new
<1>8. SubSeq(l, pos + 1, Len(l)) = new
    <2> SUFFICES ASSUME NEW x \in Line, x = head, NEW y \in Line, y = new
                 PROVE  SubSeq(x \o y, Len(x) + 1, Len(x \o y)) = y
        BY <1>2, <1>5
    <2> QED
        BY SecondPart
<1> HIDE DEF l
<1>9. line' = l /\ view' = moveCursorToPos(w, pos + 1)
    BY <1>6, <1>7, <1>8
<1>10. w \in Drawn(view, n, n) /\ Wrote(view, w, new)
    BY <1>1, <1>5, WriteLineDraws, WriteLineWrites
<1> HIDE DEF w
<1>11. Wrote(view, w, new \o Blanks(0))
    BY <1>5, <1>10, NoBlanks
<1>12. /\ Right(moveCursorToPos(w, pos + 1), n, SubSeq(line, 1, pos) \o new, pos + 1)
       /\ (Only(view, n, line) /\ pos + Len(new) + 0 >= Len(line))
             => Only(moveCursorToPos(w, pos + 1), n, SubSeq(line, 1, pos) \o new)
    <2>1. pos + 1 \in Nat
        BY <1>1
    <2> QED
        BY <1>5, <1>10, <1>11, <2>1, Redrawn
<1>13. pos + Len(new) + 0 >= Len(line)
    BY <1>1, <1>3, <1>5
<1> QED
    BY <1>6, <1>9, <1>12, <1>13 DEF l, head

LEMMA DeleteLineRight ==
    ASSUME NEW n \in Nat, view \in Drawn(view, n, n), line \in Line,
           prompt \in Line, pos \in 0..Len(line), DeleteLine
    PROVE  KeepsRight(n)
<1> SUFFICES ASSUME Right(view, n, line, pos)
             PROVE  /\ Right(view', n, line', pos')
                    /\ Only(view, n, line) => Only(view', n, line')
    BY DEF KeepsRight
<1> DEFINE m == Len(line) - pos
           head == SubSeq(line, 1, pos)
           w == writeLine(view, Blanks(m))
<1>1. Len(line) \in Nat /\ m \in Nat /\ pos \in Nat /\ pos + m = Len(line) /\ n <= n
    BY DEF Line
<1>2. line' = head /\ pos' = pos /\ view' = moveCursorToPos(w, pos)
    BY DEF DeleteLine, Put
<1> HIDE DEF m
<1>3. Blanks(m) \in Line /\ <<>> \in Line /\ Len(<<>>) = 0
    BY <1>1, BlanksAreText DEF Line
<1>4. w \in Drawn(view, n, n) /\ Wrote(view, w, Blanks(m))
    BY <1>1, <1>3, WriteLineDraws, WriteLineWrites
<1> HIDE DEF w
<1>5. <<>> \o Blanks(m) = Blanks(m)
    BY <1>3, ConcatEmptySeq DEF Line
<1>6. head \o <<>> = head
    <2>1. head \in Line
        BY Prefix1
    <2> QED
        BY <2>1, ConcatEmptySeq DEF Line
<1>7. Wrote(view, w, <<>> \o Blanks(m))
    BY <1>4, <1>5
<1>8. /\ Right(moveCursorToPos(w, pos), n, SubSeq(line, 1, pos) \o <<>>, pos)
      /\ (Only(view, n, line) /\ pos + Len(<<>>) + m >= Len(line))
            => Only(moveCursorToPos(w, pos), n, SubSeq(line, 1, pos) \o <<>>)
    BY <1>1, <1>3, <1>4, <1>7, Redrawn
<1>9. pos + Len(<<>>) + m >= Len(line)
    BY <1>1, <1>3
<1> QED
    BY <1>2, <1>6, <1>8, <1>9

LEMMA ChangedRight ==
    ASSUME NEW n \in Nat, view \in Drawn(view, n, n), line \in Line,
           prompt \in Line, pos \in 0..Len(line), Changed
    PROVE  KeepsRight(n)
<1>1. CASE Nothing
    BY <1>1 DEF Nothing, KeepsRight
<1>2. CASE \E p \in 0..Len(line) : PutAt(p)
    BY <1>2, PutAtRight
<1>3. CASE \E at \in 0..Len(line) : \E c \in Nat : EraseBefore(at, c)
    BY <1>3, EraseRight
<1>4. CASE \E k \in Runes : addKeyToLine(k)
    BY <1>4, AddKeyRight
<1>5. CASE DeleteLine
    BY <1>5, DeleteLineRight
<1>6. CASE Sets
    <2>1. PICK l \in Line : \E p \in 0..Len(l) : setLine(view, l, p)
        BY <1>6 DEF Sets
    <2>2. Len(line) <= Len(line)
        BY DEF Line
    <2> QED
        BY <2>1, <2>2, SetLineRight DEF KeepsRight, Right
<1> QED
    BY <1>1, <1>2, <1>3, <1>4, <1>5, <1>6 DEF Changed

-----------------------------------------------------------------------------
(* The prompt and the line, drawn anew from the start of a row.            *)
LEMMA PlaceBelow ==
    ASSUME NEW w \in Nat \ {0}, NEW n \in Nat, NEW c \in Grid, c[2] < w
    PROVE  Place(w, n * w, c) > 0 <=> c[1] >= n
<1> DEFINE a == c[1] * w
           b == n * w
<1>1. c[1] \in Nat /\ c[2] \in Nat
    BY CellsOfGrid
<1>2. a \in Nat /\ b \in Nat
    BY <1>1
<1>3. Place(w, n * w, c) = a + c[2] - b + 1
    BY DEF Place
<1>4. CASE c[1] >= n
    <2>1. a >= b
        <3>1. CASE c[1] = n
            BY <1>2, <3>1
        <3>2. CASE n < c[1]
            <4>1. b + w <= a
                BY <1>1, <3>2, RowsInOrder
            <4> QED
                BY <1>2, <4>1
        <3> QED
            BY <1>1, <1>4, <3>1, <3>2
    <2> HIDE DEF a, b
    <2> QED
        BY <1>1, <1>2, <1>3, <1>4, <2>1
<1>5. CASE ~(c[1] >= n)
    <2>1. a + w <= b
        BY <1>1, <1>5, RowsInOrder
    <2> HIDE DEF a, b
    <2> QED
        BY <1>1, <1>2, <1>3, <1>5, <2>1
<1> QED
    BY <1>4, <1>5

LEMMA Painted ==
    ASSUME NEW u, NEW top \in Nat, NEW n \in Nat, top <= n,
           NEW v \in Drawn(u, top, n), v.x = 0, v.y = 0, prompt \in Line,
           NEW l \in Line, NEW w \in Drawn(u, top, n), Wrote(v, w, prompt \o l)
    PROVE  /\ Right(w, n, l, Len(l))
           /\ (/\ CleanFrom(v, n * v.width + (Len(prompt) + Len(l)))
               /\ BlankBelow(v, n + v.max)) => Only(w, n, l)
<1> DEFINE P == n * v.width
           s == prompt \o l
<1>1. Len(prompt) \in Nat /\ Len(l) \in Nat
    BY DEF Line
<1>2. s \in Line /\ Len(s) = Len(prompt) + Len(l)
    BY JoinIsText
<1>3. P \in Nat /\ Spot(v) = P /\ w.width = v.width /\ Spot(w) = P + Len(s)
    <2>1. /\ v.width \in Nat /\ v.row = n + v.y
          /\ Spot(v) = v.row * v.width + v.x
        BY DrawnFacts
    <2>2. v.row = n
        BY <2>1
    <2>3. P \in Nat
        BY <2>1
    <2>4. Spot(v) = P
        BY <2>1, <2>2, <2>3
    <2> QED
        BY <2>3, <2>4 DEF Wrote
<1> HIDE DEF s
<1>4. <<>> \in Line /\ Len(<<>>) = 0
    BY DEF Line
<1>5. Holds(w, P, s)
    <2>1. Holds(v, P, <<>>)
        BY <1>4 DEF Holds
    <2>2. Wrote(v, w, s)
        BY DEF s
    <2>3. 0 \in 0..Len(<<>>) /\ Spot(v) = P + 0
        BY <1>3, <1>4
    <2> HIDE DEF P
    <2>4. Holds(w, P, SubSeq(<<>>, 1, 0) \o s)
        BY <1>2, <1>3, <1>4, <2>1, <2>2, <2>3, HoldsBoth
    <2>5. SubSeq(<<>>, 1, 0) = <<>>
        BY SubSeqEmpty
    <2>6. <<>> \o s = s
        BY <1>2, ConcatEmptySeq DEF Line
    <2> QED
        BY <2>4, <2>5, <2>6
<1> HIDE DEF P
<1>6. Right(w, n, l, Len(l))
    BY <1>2, <1>3, <1>5 DEF Right, P, s
<1>7. ASSUME CleanFrom(v, P + (Len(prompt) + Len(l))), BlankBelow(v, n + v.max)
      PROVE  Only(w, n, l)
    <2>1. Wrote(v, w, s) /\ Wrote(v, w, s \o Blanks(0))
        BY <1>2, NoBlanks DEF s
    <2>2. P + Len(s) \in Nat /\ P + Len(s) <= Spot(v) + Len(s) + 0
        BY <1>1, <1>2, <1>3
    <2>3. CleanFrom(v, P + Len(s))
        BY <1>2, <1>7
    <2>4. CleanFrom(w, Spot(v) + Len(s))
        BY <1>2, <2>1, <2>2, <2>3, CleanBehind
    <2>5. BlankBelow(w, n + w.max)
        BY <1>2, <1>7, <2>1, BlankBehind
    <2> QED
        BY <1>2, <1>3, <2>4, <2>5 DEF Only, P
<1> QED
    BY <1>6, <1>7 DEF P

(* Rows with nothing in them.                                              *)
LEMMA NothingThere ==
    ASSUME NEW u, NEW top, NEW n \in Nat, NEW v \in Drawn(u, top, n), NEW e \in Nat,
           \A c \in Grid : c[1] >= n => v.cells[c] = Blank
    PROVE  CleanFrom(v, n * v.width + e) /\ BlankBelow(v, n + v.max)
<1>1. v.width \in Nat \ {0} /\ v.max \in Nat
    BY DrawnFacts
<1>2. ASSUME NEW c \in Grid, c[2] < v.width, Place(v.width, n * v.width + e, c) > 0
      PROVE  v.cells[c] = Blank
    <2> DEFINE P == n * v.width
    <2>1. P \in Int
        BY <1>1
    <2>2. /\ Place(v.width, P, c) \in Int
          /\ Place(v.width, P + e, c) = Place(v.width, P, c) - e
        BY <1>1, <2>1, PlaceShifts
    <2>3. Place(v.width, P, c) > 0
        BY <1>2, <2>2
    <2>4. c[1] >= n
        BY <1>1, <1>2, <2>3, PlaceBelow
    <2> QED
        BY <2>4
<1>3. ASSUME NEW c \in Grid, c[1] > n + v.max PROVE v.cells[c] = Blank
    <2>1. c[1] >= n
        BY <1>1, <1>3, CellsOfGrid
    <2> QED
        BY <2>1
<1> QED
    BY <1>2, <1>3 DEF CleanFrom, BlankBelow

LEMMA ClearedScreenRight ==
    ASSUME view \in View, prompt \in Line
    PROVE  Right(ClearedScreen, 0, <<>>, 0) /\ Only(ClearedScreen, 0, <<>>)
<1> DEFINE v == EmptyView
           w == ClearedScreen
<1>1. /\ v \in Drawn(view, 0, 0) /\ v.x = 0 /\ v.y = 0 /\ v.cells = EmptyGrid
      /\ w \in Drawn(view, 0, 0)
    BY EmptyViewDraws, ClearedScreenDraws
<1>2. w = Text(v, prompt)
    BY DEF ClearedScreen, EmptyView
<1>3. 0 \in Nat /\ 0 <= 0 /\ <<>> \in Line /\ Len(<<>>) = 0
    BY DEF Line
<1> HIDE DEF v, w
<1>4. Wrote(v, w, prompt)
    BY <1>1, <1>2, <1>3, TextWrites
<1>5. prompt \o <<>> = prompt
    BY ConcatEmptySeq DEF Line
<1>6. \A c \in Grid : c[1] >= 0 => v.cells[c] = Blank
    BY <1>1 DEF EmptyGrid
<1>7. /\ CleanFrom(v, 0 * v.width + (Len(prompt) + Len(<<>>)))
      /\ BlankBelow(v, 0 + v.max)
    <2>1. Len(prompt) + Len(<<>>) \in Nat
        BY <1>3 DEF Line
    <2> QED
        BY <1>1, <1>3, <1>6, <2>1, NothingThere
<1>8. Right(w, 0, <<>>, Len(<<>>)) /\ Only(w, 0, <<>>)
    <2>1. Wrote(v, w, prompt \o <<>>)
        BY <1>4, <1>5
    <2> QED
        BY <1>1, <1>3, <1>7, <2>1, Painted
<1> QED
    BY <1>3, <1>8 DEF w

LEMMA RepaintRight ==
    ASSUME NEW n \in Nat, NEW u, NEW v \in Drawn(u, n, n), NEW s \in Line,
           NEW p \in Nat, prompt \in Line
    PROVE  LET w == clearAndRepaint(v, s, p, v.max) IN
           /\ Right(w, n, s, p)
           /\ BlankBelow(v, n + v.max) => Only(w, n, s)
<1> DEFINE h == Home(v)
           clean == ClearToRight(h, n..(n + v.max))
           a == Text(clean, prompt)
           b == writeLine(a, s)
           w == moveCursorToPos(b, p)
<1>1. /\ h \in Drawn(u, n, n) /\ h.x = 0 /\ h.y = 0 /\ h.row = n
      /\ h.cells = v.cells /\ h.max = v.max /\ v.max \in Nat /\ n <= n
    BY HomeDraws, DrawnFacts
<1>2. clearAndRepaint(v, s, p, v.max) = w
    BY <1>1 DEF clearAndRepaint, Home
<1> HIDE DEF h
<1>3. clean \in Drawn(u, n, n)
    <2>1. \A r \in n..(n + v.max) : r >= n
        BY <1>1
    <2> QED
        BY <1>1, <2>1, ClearedHome
<1>4. clean.x = 0 /\ clean.y = 0 /\ clean.max = v.max
    BY <1>1 DEF ClearToRight, Clear, Drawn, View
<1>5. \A c \in Grid : clean.cells[c] = IF c[1] \in n..(n + v.max) THEN Blank
                                     ELSE v.cells[c]
    <2>1. h \in View /\ h.col = 0
        BY <1>1 DEF Drawn
    <2>2. \A c \in Grid : clean.cells[c] =
              IF c[1] \in n..(n + v.max) /\ c[2] >= h.col THEN Blank ELSE v.cells[c]
        BY <1>1, <2>1 DEF ClearToRight, Clear, View
    <2>3. \A c \in Grid : c[2] >= h.col
        BY <2>1, CellsOfGrid
    <2> HIDE DEF clean
    <2> QED
        BY <2>2, <2>3
<1> HIDE DEF clean
<1>6. a \in Drawn(u, n, n) /\ Wrote(clean, a, prompt)
    BY <1>1, <1>3, TextDraws, TextWrites
<1> HIDE DEF a
<1>7. b \in Drawn(u, n, n) /\ Wrote(a, b, s)
    BY <1>1, <1>6, WriteLineDraws, WriteLineWrites
<1> HIDE DEF b
<1>8. Wrote(clean, b, prompt \o s)
    BY <1>3, <1>6, <1>7, WroteTwice
<1>9. /\ Right(b, n, s, Len(s))
      /\ (/\ CleanFrom(clean, n * clean.width + (Len(prompt) + Len(s)))
          /\ BlankBelow(clean, n + clean.max)) => Only(b, n, s)
    BY <1>1, <1>3, <1>4, <1>7, <1>8, Painted
<1>10. BlankBelow(v, n + v.max) => Only(b, n, s)
    <2> SUFFICES ASSUME BlankBelow(v, n + v.max) PROVE Only(b, n, s)
        OBVIOUS
    <2>1. ASSUME NEW c \in Grid, c[1] >= n PROVE clean.cells[c] = Blank
        <3>1. c[1] \in n..(n + v.max) \/ c[1] > n + v.max
            BY <1>1, <2>1, CellsOfGrid
        <3> QED
            BY <1>5, <3>1 DEF BlankBelow
    <2>2. Len(prompt) + Len(s) \in Nat
        BY DEF Line
    <2> QED
        BY <1>3, <1>9, <2>1, <2>2, NothingThere
<1>11. Right(w, n, s, p) /\ (Only(b, n, s) => Only(w, n, s))
    <2>1. Holds(b, n * b.width, prompt \o s)
        BY <1>9 DEF Right
    <2> QED
        BY <1>7, <2>1, CursorRight
<1> HIDE DEF w
<1> QED
    BY <1>2, <1>10, <1>11

-----------------------------------------------------------------------------
(* The prompt and the line are where the cursor says.                      *)
InputInv ==
    /\ shown \in {"stale", "right", "exact"}
    /\ mode # "reading" => line = <<>>
    /\ shown # "stale" => Right(view, Len(said), line, pos)
    /\ shown = "exact" => Only(view, Len(said), line)

LEMMA InvFacts ==
    ASSUME DisplayInv
    PROVE  /\ Len(said) \in Nat /\ view \in Drawn(view, Len(said), Len(said))
           /\ prompt \in Line /\ line \in Line /\ pos \in 0..Len(line) /\ pos \in Nat
           /\ Len(line) \in Nat /\ Len(prompt) \in Nat /\ Len(prompt) > 0
           /\ view \in View
<1>1. TypeOK /\ Placed /\ SaidOK
    BY DEF DisplayInv
<1>2. prompt \in Line /\ prompt # <<>>
    <2>1. client \in Client /\ prompt \in client.prompts
        BY <1>1, EditorAssumption DEF TypeOK
    <2>2. client.prompts \subseteq Line \ {<<>>}
        BY <2>1 DEF Client
    <2> QED
        BY <2>1, <2>2
<1>3. Len(prompt) \in Nat /\ Len(prompt) > 0
    BY <1>2 DEF Line
<1>4. line \in Line /\ pos \in 0..Len(line) /\ view \in View
    BY <1>1 DEF TypeOK
<1>5. Len(line) \in Nat /\ pos \in Nat
    BY <1>4 DEF Line
<1>6. Len(said) \in Nat
    BY <1>1, LenProperties DEF SaidOK
<1> QED
    BY <1>1, <1>2, <1>3, <1>4, <1>5, <1>6 DEF Placed

(* With the cursor where a line starts, no prompt has been drawn.          *)
LEMMA StaleAtStart ==
    ASSUME DisplayInv, InputInv, view.x = 0, view.y = 0
    PROVE  shown = "stale"
<1> SUFFICES ASSUME shown # "stale" PROVE FALSE
    OBVIOUS
<1> DEFINE n == Len(said)
           W == view.width
<1>1. /\ n \in Nat /\ view \in Drawn(view, n, n) /\ Len(prompt) \in Nat
      /\ Len(prompt) > 0 /\ pos \in Nat
    BY InvFacts
<1>2. Spot(view) = n * W + (Len(prompt) + pos)
    BY DEF InputInv, Right
<1> HIDE DEF n
<1>3. /\ Spot(view) = view.row * W + view.x /\ view.row = n + view.y
      /\ W \in Nat
    BY <1>1, DrawnFacts
<1>4. view.row = n
    BY <1>1, <1>3
<1>5. n * W \in Nat
    BY <1>1, <1>3
<1> QED
    BY <1>1, <1>2, <1>3, <1>4, <1>5

LEMMA FirstPaintShows ==
    ASSUME DisplayInv, InputInv, FirstPaint
    PROVE  InputInv'
<1> DEFINE n == Len(said)
<1>1. /\ n \in Nat /\ n <= n /\ view \in Drawn(view, n, n) /\ prompt \in Line
      /\ line \in Line /\ pos \in 0..Len(line) /\ Len(prompt) \in Nat
    BY InvFacts
<1>2. /\ view' = IF view.x = 0 /\ view.y = 0 THEN writeLine(view, prompt) ELSE view
      /\ mode = "away" /\ mode' = "reading" /\ said' = said
      /\ line' = line /\ pos' = pos /\ prompt' = prompt
      /\ shown' = IF view.x = 0 /\ view.y = 0
                  THEN IF BlankBelow(view, view.row - 1) THEN "exact" ELSE "right"
                  ELSE shown
    BY DEF FirstPaint, StartReading, Said, Shown, editVars
<1>3. line = <<>> /\ pos = 0 /\ Len(<<>>) = 0 /\ <<>> \in Line
    <2>1. line = <<>>
        BY <1>2 DEF InputInv
    <2> QED
        BY <1>1, <2>1 DEF Line
<1> HIDE DEF n
<1>4. CASE ~(view.x = 0 /\ view.y = 0)
    BY <1>2, <1>3, <1>4 DEF InputInv, Right, Only
<1>5. CASE view.x = 0 /\ view.y = 0
    <2> DEFINE w == writeLine(view, prompt)
    <2>1. w \in Drawn(view, n, n) /\ Wrote(view, w, prompt)
        BY <1>1, WriteLineDraws, WriteLineWrites
    <2>2. prompt \o <<>> = prompt
        BY <1>1, ConcatEmptySeq DEF Line
    <2>3. view' = w
        BY <1>2, <1>5
    <2> HIDE DEF w
    <2>4. /\ Right(w, n, <<>>, Len(<<>>))
          /\ (/\ CleanFrom(view, n * view.width + (Len(prompt) + Len(<<>>)))
              /\ BlankBelow(view, n + view.max)) => Only(w, n, <<>>)
        <3>1. Wrote(view, w, prompt \o <<>>)
            BY <2>1, <2>2
        <3> QED
            BY <1>1, <1>3, <1>5, <2>1, <3>1, Painted
    <2>5. BlankBelow(view, view.row - 1) => Only(w, n, <<>>)
        <3> SUFFICES ASSUME BlankBelow(view, view.row - 1) PROVE Only(w, n, <<>>)
            OBVIOUS
        <3>1. view.row = n
            BY <1>1, <1>5, DrawnFacts
        <3>2. ASSUME NEW c \in Grid, c[1] >= n PROVE view.cells[c] = Blank
            <4>1. c[1] > view.row - 1
                BY <1>1, <3>1, <3>2, CellsOfGrid
            <4> QED
                BY <4>1 DEF BlankBelow
        <3>3. Len(prompt) + Len(<<>>) \in Nat
            BY <1>1, <1>3
        <3> QED
            BY <1>1, <2>4, <3>2, <3>3, NothingThere
    <2>6. shown' \in {"exact", "right"} /\ (shown' = "exact" => Only(w, n, <<>>))
        BY <1>2, <1>5, <2>5
    <2> QED
        BY <1>2, <1>3, <2>3, <2>4, <2>6 DEF InputInv, Right, Only, n
<1> QED
    BY <1>4, <1>5

LEMMA KeyShows ==
    ASSUME DisplayInv, NEW k, handleKey(k), k # "enter"
    PROVE  /\ IF k = "clear" /\ ~paste
              THEN Right(view', 0, line', pos') /\ Only(view', 0, line')
              ELSE KeepsRight(Len(said))
           /\ mode' = mode
<1> DEFINE n == Len(said)
<1>1. /\ n \in Nat /\ view \in Drawn(view, n, n) /\ prompt \in Line /\ view \in View
      /\ line \in Line /\ pos \in 0..Len(line) /\ TypeOK
    BY InvFacts DEF DisplayInv
<1> HIDE DEF n
<1>2. /\ IF k = "clear" /\ ~paste THEN setLine(ClearedScreen, line, pos) ELSE Changed
      /\ mode' = mode
    BY <1>1, KeyHandled
<1>3. Changed => KeepsRight(n)
    BY <1>1, ChangedRight
<1>4. setLine(ClearedScreen, line, pos)
         => Right(view', 0, line', pos') /\ Only(view', 0, line')
    <2> SUFFICES ASSUME setLine(ClearedScreen, line, pos)
                 PROVE  Right(view', 0, line', pos') /\ Only(view', 0, line')
        OBVIOUS
    <2>1. Right(ClearedScreen, 0, <<>>, 0) /\ Only(ClearedScreen, 0, <<>>)
        BY <1>1, ClearedScreenRight
    <2>2. ClearedScreen \in Drawn(view, 0, 0)
        BY <1>1, ClearedScreenDraws
    <2>3. <<>> \in Line /\ Len(<<>>) <= Len(line)
        BY <1>1 DEF Line
    <2>4. Holds(ClearedScreen, 0 * ClearedScreen.width, prompt \o <<>>)
        BY <2>1 DEF Right
    <2>5. 0 \in Nat
        OBVIOUS
    <2> QED
        BY <1>1, <2>1, <2>2, <2>3, <2>4, <2>5, SetLineRight
<1> QED
    BY <1>2, <1>3, <1>4 DEF n

(* While the prompt stays, what is right about the view depends on no      *)
(* other variable.                                                         *)
LEMMA InvNext ==
    ASSUME NEW n, Len(said') = n, prompt' = prompt,
           shown' \in {"stale", "right", "exact"}, mode' # "reading" => line' = <<>>,
           shown' # "stale" => Right(view', n, line', pos'),
           shown' = "exact" => Only(view', n, line')
    PROVE  InputInv'
BY DEF InputInv, Right, Only

LEMMA TypeShows ==
    ASSUME DisplayInv, InputInv, NEW input \in Arrivals, Type(input)
    PROVE  InputInv'
<1> DEFINE n == Len(said)
           key == bytesToKey(input, paste).key
<1>1. /\ shown \in {"stale", "right", "exact"}
      /\ shown # "stale" => Right(view, n, line, pos)
      /\ shown = "exact" => Only(view, n, line)
    BY DEF InputInv
<1>2. prompt' = prompt /\ mode = "reading"
    BY DEF Type, ReadKey, Available
<1>3. /\ \/ /\ key # "enter" /\ ~(key = "clear" /\ ~paste)
            /\ UNCHANGED <<editVars, view>>
            /\ mode' = mode \/ line = <<>>
         \/ handleKey(key)
      /\ CASE key = "enter" /\ client.clears    -> Said(said) /\ Shown("stale")
           [] key = "enter" /\ ~client.clears   -> /\ Said(said \o RowsTo(view'.row))
                                                /\ Shown("stale")
           [] key = "clear" /\ ~paste        -> Said(<<>>) /\ Shown("exact")
           [] OTHER                         -> UNCHANGED displayVars
    BY DEF Type, ReadKey
<1>4. client.clears \in BOOLEAN
    BY ClientTypes DEF DisplayInv
<1> HIDE DEF key, n
<1>5. CASE /\ key # "enter" /\ ~(key = "clear" /\ ~paste)
           /\ UNCHANGED <<editVars, view>>
           /\ mode' = mode \/ line = <<>>
    <2>1. said' = said /\ shown' = shown /\ line' = line /\ pos' = pos /\ view' = view
        BY <1>3, <1>5 DEF displayVars, editVars
    <2>2. Len(said') = n
        BY <2>1 DEF n
    <2>3. mode' # "reading" => line' = <<>>
        BY <1>2, <1>5, <2>1
    <2> QED
        BY <1>1, <1>2, <2>1, <2>2, <2>3, InvNext
<1>6. CASE handleKey(key) /\ key # "enter"
    <2>1. /\ IF key = "clear" /\ ~paste
             THEN Right(view', 0, line', pos') /\ Only(view', 0, line')
             ELSE KeepsRight(n)
          /\ mode' = mode
        BY <1>6, KeyShows DEF n
    <2>2. CASE key = "clear" /\ ~paste
        <3>1. said' = <<>> /\ shown' = "exact"
            BY <1>3, <1>6, <2>2 DEF Said, Shown
        <3>2. Len(said') = 0
            BY <3>1
        <3> QED
            BY <1>2, <2>1, <2>2, <3>1, <3>2, InvNext
    <2>3. CASE ~(key = "clear" /\ ~paste)
        <3>1. said' = said /\ shown' = shown
            BY <1>3, <1>6, <2>3 DEF displayVars
        <3>2. Len(said') = n
            BY <3>1 DEF n
        <3>3. KeepsRight(n)
            BY <2>1, <2>3
        <3>4. /\ shown # "stale" => Right(view', n, line', pos')
              /\ shown = "exact" => Only(view', n, line')
            BY <1>1, <3>3 DEF KeepsRight
        <3> QED
            BY <1>1, <1>2, <2>1, <3>1, <3>2, <3>4, InvNext
    <2> QED
        BY <2>2, <2>3
<1>7. CASE handleKey(key) /\ key = "enter"
    <2>1. line' = <<>>
        <3>1. Enter
            BY <1>7, KeyHandled DEF DisplayInv
        <3> QED
            BY <3>1 DEF Enter, Put
    <2>2. shown' = "stale"
        BY <1>3, <1>4, <1>7 DEF Shown
    <2> QED
        BY <1>2, <2>1, <2>2, InvNext
<1> QED
    BY <1>3, <1>5, <1>6, <1>7

LEMMA PromptShows ==
    ASSUME DisplayInv, InputInv, NEW p \in client.prompts, ChangePrompt(p)
    PROVE  InputInv'
<1>1. /\ prompt' = p /\ said' = said /\ view' = view /\ line' = line /\ pos' = pos
      /\ mode' = mode /\ shown' = IF p = prompt THEN shown ELSE "stale"
    BY DEF ChangePrompt, SetPrompt, Said, Shown, editVars, inputVars
<1>2. CASE p = prompt
    BY <1>1, <1>2 DEF InputInv, Right, Only
<1>3. CASE p # prompt
    BY <1>1, <1>3 DEF InputInv
<1> QED
    BY <1>2, <1>3

LEMMA MessageBelow ==
    ASSUME NEW n \in Nat, view \in Drawn(view, n, n), NEW k \in Nat
    PROVE  LET w == Message(ClearUp(view), k) IN
           w \in Drawn(view, n, n + k) /\ w.x = 0 /\ w.y = 0
<1> DEFINE v == ClearUp(view)
<1>1. v \in Drawn(view, n, n) /\ v.x = 0 /\ v.y = 0 /\ n <= n
    BY ClearUpDraws
<1> HIDE DEF v
<1>2. /\ Message(v, k) \in Drawn(view, n, n + k)
      /\ Message(v, k).x = 0 /\ Message(v, k).y = 0
    BY <1>1, MessageDraws
<1> QED
    BY <1>2 DEF v

(* Below a message nothing is left of the line, if only the line was there *)
(* or nothing was below the cursor.                                        *)
LEMMA MessageClears ==
    ASSUME NEW n \in Nat, view \in Drawn(view, n, n), NEW k \in Nat,
           prompt \in Line, line \in Line,
           Only(view, n, line) \/ BlankBelow(view, view.row)
    PROVE  LET w == Message(ClearUp(view), k) IN
           /\ CleanFrom(w, (n + k) * w.width + (Len(prompt) + Len(line)))
           /\ BlankBelow(w, (n + k) + w.max)
<1> DEFINE v == ClearUp(view)
           w == Message(v, k)
           m == n + k
           e == Len(prompt) + Len(line)
           W == view.width
<1>1. /\ v \in Drawn(view, n, n) /\ v.x = 0 /\ v.y = 0 /\ v.width = W
      /\ v.max = view.max
      /\ \A c \in Grid : v.cells[c] = IF c[1] >= n /\ c[1] <= view.row THEN Blank
                                     ELSE view.cells[c]
    BY ClearUpDraws
<1> HIDE DEF v
<1>2. /\ w \in Drawn(view, n, m) /\ w.width = W /\ w.max = view.max
      /\ \A c \in Grid : c[1] >= m => w.cells[c] = v.cells[c]
    BY <1>1, MessageDraws
<1> HIDE DEF w
<1>3. W \in Nat \ {0} /\ view.max \in Nat /\ view.row \in Nat
    BY DrawnFacts
<1>4. e \in Nat /\ m \in Nat /\ m >= n /\ n * W \in Nat /\ k * W \in Nat
      /\ m * W = n * W + k * W
    BY <1>3 DEF Line
<1>5. CASE BlankBelow(view, view.row)
    <2>1. ASSUME NEW c \in Grid, c[1] >= m PROVE w.cells[c] = Blank
        <3>1. c[1] \in Nat /\ c[1] >= n
            BY <1>4, <2>1, CellsOfGrid
        <3>2. c[1] > view.row => view.cells[c] = Blank
            BY <1>5 DEF BlankBelow
        <3> QED
            BY <1>1, <1>2, <1>3, <2>1, <3>1, <3>2
    <2> HIDE DEF m, e
    <2> QED
        BY <1>2, <1>4, <2>1, NothingThere DEF m, e, w, v
<1>6. CASE Only(view, n, line)
    <2>1. ASSUME NEW c \in Grid, c[1] >= m, view.cells[c] = Blank
          PROVE  w.cells[c] = Blank
        BY <1>1, <1>2, <2>1
    <2>2. ASSUME NEW c \in Grid, c[2] < W, Place(W, m * W + e, c) > 0
          PROVE  w.cells[c] = Blank
        <3> DEFINE P == m * W
                   Q == n * W
                   R == k * W
        <3>0. P \in Int /\ Q \in Int /\ R \in Nat /\ e \in Int /\ P = Q + R /\ W \in Nat
            BY <1>3, <1>4
        <3> HIDE DEF e, R, Q
        <3>1. /\ Place(W, Q, c) \in Int /\ Place(W, Q + e, c) = Place(W, Q, c) - e
              /\ Place(W, Q + R, c) = Place(W, Q, c) - R
            BY <3>0, PlaceShifts
        <3>2. Place(W, P, c) \in Int /\ Place(W, P + e, c) = Place(W, P, c) - e
            <4> HIDE DEF P
            <4> QED
                BY <3>0, PlaceShifts
        <3>3. Place(W, P, c) > 0
            <4>1. Place(W, P + e, c) > 0
                BY <2>2
            <4> HIDE DEF P
            <4> QED
                BY <1>4, <3>2, <4>1
        <3>4. c[1] >= m
            BY <1>3, <1>4, <2>2, <3>3, PlaceBelow
        <3>5. Place(W, P + e, c) > 0
            BY <2>2
        <3> HIDE DEF P
        <3>6. Place(W, Q + e, c) > 0
            BY <3>0, <3>1, <3>2, <3>5
        <3>7. view.cells[c] = Blank
            BY <1>6, <2>2, <3>6 DEF Only, CleanFrom, Q, e
        <3> QED
            BY <2>1, <3>4, <3>7
    <2>3. ASSUME NEW c \in Grid, c[1] > m + view.max PROVE w.cells[c] = Blank
        <3>0. c[1] \in Nat /\ m \in Nat /\ m >= n
            BY CellsOfGrid
        <3>1. c[1] \in Nat /\ c[1] >= m /\ c[1] > n + view.max
            <4> HIDE DEF m
            <4> QED
                BY <1>3, <2>3, <3>0
        <3>2. view.cells[c] = Blank
            BY <1>6, <3>1 DEF Only, BlankBelow
        <3> QED
            BY <2>1, <3>1, <3>2
    <2> HIDE DEF m, e
    <2> QED
        BY <1>2, <2>2, <2>3 DEF CleanFrom, BlankBelow, m, e, w, v
<1> QED
    BY <1>5, <1>6

LEMMA WriteShows ==
    ASSUME DisplayInv, InputInv, NEW k \in MessageRows, WriteMessage(k)
    PROVE  InputInv'
<1> DEFINE n == Len(said)
           m == n + k
           v == ClearUp(view)
           w == Message(v, k)
           p == writeLine(w, prompt)
           l == writeLine(p, line)
           z == moveCursorToPos(l, pos)
<1>1. /\ n \in Nat /\ n <= n /\ view \in Drawn(view, n, n) /\ prompt \in Line
      /\ line \in Line /\ pos \in Nat
    BY InvFacts
<1>2. k \in Nat /\ m \in Nat /\ n <= m
    <2>1. k \in Nat
        BY EditorAssumption
    <2> QED
        BY <1>1, <2>1
<1>3. /\ view' = IF view.x = 0 /\ view.y = 0 THEN Message(view, k) ELSE z
      /\ shown' = IF view.x = 0 /\ view.y = 0 THEN shown ELSE Repainted(view.row)
      /\ line' = line /\ pos' = pos /\ prompt' = prompt /\ mode' = mode
    BY DEF WriteMessage, Write, Shown, editVars, inputVars
<1>4. Placed' /\ Len(said') \in Nat
    <2>1. DisplayInv'
        BY WriteKeeps
    <2> QED
        BY <2>1, LenProperties DEF DisplayInv, SaidOK
<1>5. mode' # "reading" => line' = <<>>
    BY <1>3 DEF InputInv
<1> HIDE DEF n, v, w, p, l, z
<1>6. CASE view.x = 0 /\ view.y = 0
    <2>1. shown = "stale"
        BY <1>6, StaleAtStart
    <2>2. shown' = "stale"
        BY <1>3, <1>6, <2>1
    <2> HIDE DEF n, m, v, w, p, l, z
    <2> QED
        BY <1>3, <1>5, <2>2, InvNext
<1>7. CASE ~(view.x = 0 /\ view.y = 0)
    <2>2. Only(view, n, line) \/ BlankBelow(view, view.row)
             => /\ CleanFrom(w, m * w.width + (Len(prompt) + Len(line)))
                /\ BlankBelow(w, m + w.max)
        BY <1>1, <1>2, MessageClears DEF v, w
    <2>3. w \in Drawn(view, n, m) /\ w.x = 0 /\ w.y = 0
        BY <1>1, <1>2, MessageBelow DEF v, w
    <2> HIDE DEF m
    <2>4. p \in Drawn(view, n, m) /\ Wrote(w, p, prompt)
        BY <1>1, <1>2, <2>3, WriteLineDraws, WriteLineWrites DEF p
    <2>5. l \in Drawn(view, n, m) /\ Wrote(p, l, line)
        BY <1>1, <1>2, <2>4, WriteLineDraws, WriteLineWrites DEF l
    <2>6. Wrote(w, l, prompt \o line)
        BY <1>1, <1>2, <2>3, <2>4, <2>5, WroteTwice
    <2>7. /\ Right(l, m, line, Len(line))
          /\ (/\ CleanFrom(w, m * w.width + (Len(prompt) + Len(line)))
              /\ BlankBelow(w, m + w.max)) => Only(l, m, line)
        BY <1>1, <1>2, <2>3, <2>5, <2>6, Painted
    <2>8. Right(z, m, line, pos) /\ (Only(l, m, line) => Only(z, m, line))
        <3>1. Holds(l, m * l.width, prompt \o line)
            BY <2>7 DEF Right
        <3> QED
            BY <1>1, <1>2, <2>5, <3>1, CursorRight DEF z
    <2>9. z \in Drawn(view, n, m)
        BY <1>1, <1>2, <2>5, CursorMoves DEF z
    <2>10. view' = z
        BY <1>3, <1>7
    <2>11. Len(said') = m
        <3>1. view'.row = Len(said') + view'.y
            BY <1>4 DEF Placed, Drawn
        <3>2. z.row = m + z.y /\ z.y \in Nat
            BY <1>2, <2>9, DrawnFacts
        <3> QED
            BY <1>2, <1>4, <2>10, <3>1, <3>2
    <2>12. /\ shown' \in {"exact", "right"}
           /\ shown' = "exact" => shown = "exact" \/ BlankBelow(view, view.row)
        BY <1>3, <1>7 DEF Repainted
    <2>13. shown = "exact" => Only(view, n, line)
        BY DEF InputInv, n
    <2>14. /\ Right(view', m, line', pos')
           /\ shown' = "exact" => Only(view', m, line')
        BY <1>3, <2>2, <2>7, <2>8, <2>10, <2>12, <2>13
    <2> QED
        BY <1>3, <1>5, <2>11, <2>12, <2>14, InvNext
<1> QED
    BY <1>6, <1>7

LEMMA ResizeShows ==
    ASSUME DisplayInv, InputInv, NEW w \in Widths, Resize(w)
    PROVE  InputInv'
<1> DEFINE n == Len(said)
           v == [view EXCEPT !.width = w]
           z == clearAndRepaint(v, line, pos, v.max)
<1>1. /\ n \in Nat /\ n <= n /\ view \in Drawn(view, n, n) /\ prompt \in Line
      /\ line \in Line /\ pos \in Nat /\ view \in View
    BY InvFacts
<1>2. /\ v \in View /\ v.width = w /\ v.x = view.x /\ v.y = view.y
      /\ v.max = view.max /\ v.row = view.row /\ v.col = view.col
      /\ v.late = view.late /\ v.cells = view.cells
    BY <1>1 DEF View
<1>3. /\ w > view.width
      /\ view' = IF line = <<>> /\ v.x = 0 /\ v.y = 0 THEN v ELSE z
      /\ shown' = IF line = <<>> /\ view.x = 0 /\ view.y = 0 THEN shown
                  ELSE Repainted(view.row - view.y + view.max)
      /\ line' = line /\ pos' = pos /\ prompt' = prompt /\ mode' = mode
      /\ said' = said
    BY DEF Resize, SetSize, Said, Shown, editVars, inputVars
<1>4. Len(said') = n /\ (mode' # "reading" => line' = <<>>)
    BY <1>3 DEF InputInv
<1>5. /\ shown \in {"stale", "right", "exact"}
      /\ shown = "exact" => Only(view, n, line)
    BY DEF InputInv
<1> HIDE DEF n, v, z
<1>6. CASE line = <<>> /\ view.x = 0 /\ view.y = 0
    <2>1. shown' = "stale"
        BY <1>3, <1>6, StaleAtStart
    <2> QED
        BY <1>3, <1>4, <2>1, InvNext
<1>7. CASE ~(line = <<>> /\ view.x = 0 /\ view.y = 0)
    <2>1. /\ view.row = n + view.y /\ view.y \in Nat /\ view.max \in Nat
          /\ view.x \in Nat /\ view.x < view.width /\ view.width \in Nat
        BY <1>1, DrawnFacts
    <2>2. v \in Drawn(view, n, n)
        <3>1. view.x < w
            BY <1>3, <2>1, WidthsPositive
        <3> QED
            BY <1>1, <1>2, <3>1 DEF Drawn
    <2>3. /\ Right(z, n, line, pos)
          /\ BlankBelow(v, n + v.max) => Only(z, n, line)
        BY <1>1, <2>2, RepaintRight DEF z
    <2>4. view' = z
        BY <1>2, <1>3, <1>7
    <2>5. /\ shown' \in {"exact", "right"}
          /\ shown' = "exact" => \/ shown = "exact"
                                 \/ BlankBelow(view, view.row - view.y + view.max)
        BY <1>3, <1>7 DEF Repainted
    <2>6. view.row - view.y + view.max = n + view.max
        BY <1>1, <2>1
    <2>7. shown' = "exact" => BlankBelow(view, n + view.max)
        BY <1>5, <2>5, <2>6 DEF Only
    <2>8. BlankBelow(view, n + view.max) => BlankBelow(v, n + v.max)
        BY <1>2 DEF BlankBelow
    <2>9. shown' = "exact" => Only(view', n, line')
        BY <1>3, <2>3, <2>4, <2>7, <2>8
    <2>10. Right(view', n, line', pos')
        BY <1>3, <2>3, <2>4
    <2> QED
        BY <1>3, <1>4, <2>5, <2>9, <2>10, InvNext
<1> QED
    BY <1>6, <1>7

(* What has moved up by k rows has kept its place.                         *)
LEMMA PlaceLower ==
    ASSUME NEW w \in Nat, NEW k \in Nat, NEW p \in Nat, NEW q, q = p + k * w,
           NEW c \in Grid, NEW d \in Grid, d[1] = c[1] + k, d[2] = c[2]
    PROVE  Place(w, q, d) = Place(w, p, c)
<1>1. c[1] \in Nat /\ c[2] \in Nat
    BY CellsOfGrid
<1> DEFINE a == c[1] * w
           b == k * w
<1>2. a \in Nat /\ b \in Nat /\ d[1] * w = a + b
    BY <1>1
<1> HIDE DEF a, b
<1>3. Place(w, q, d) = (a + b) + c[2] - (p + b) + 1
    BY <1>2 DEF Place, b
<1>4. Place(w, p, c) = a + c[2] - p + 1
    BY DEF Place, a
<1> QED
    BY <1>1, <1>2, <1>3, <1>4

(* A text of so many characters has room from row 1 + k on.                *)
LEMMA HasRoom ==
    ASSUME NEW w \in Nat \ {0}, NEW k \in Nat, NEW size \in Nat, NEW c \in Grid,
           c[2] < w, Place(w, 1 * w, c) \in 1..size, 1 + k + size \div w < Rows
    PROVE  c[1] + k < Rows
<1> DEFINE q == size \div w
           b == c[1] - 1
<1>1. Splits(size, w, q, size % w)
    BY Remainder
<1>2. q \in Nat /\ size < q * w + w /\ q * w \in Nat
    <2>1. q \in Nat /\ size % w \in 0..(w - 1) /\ size = q * w + (size % w)
        BY <1>1 DEF Splits
    <2>2. q * w \in Nat
        BY <2>1
    <2> HIDE DEF q
    <2> QED
        BY <2>1, <2>2
<1>3. c[1] \in Nat /\ c[2] \in Nat
    BY CellsOfGrid
<1>4. c[1] >= 1
    <2>1. Place(w, 1 * w, c) > 0
        OBVIOUS
    <2> QED
        BY <2>1, PlaceBelow
<1>5. b \in Nat /\ c[1] = b + 1
    BY <1>3, <1>4
<1> HIDE DEF b, q
<1>6. b * w \in Nat /\ b * w + c[2] + 1 <= size
    <2>1. c[1] * w = b * w + w /\ 1 * w = w /\ b * w \in Nat
        BY <1>5
    <2>2. Place(w, 1 * w, c) = c[1] * w + c[2] - (1 * w) + 1
        BY DEF Place
    <2> DEFINE t == b * w
    <2> HIDE DEF t
    <2>3. Place(w, 1 * w, c) = (t + w) + c[2] - w + 1
        BY <2>1, <2>2 DEF t
    <2>4. Place(w, 1 * w, c) <= size /\ t \in Nat
        BY <2>1 DEF t
    <2>5. t + c[2] + 1 <= size
        BY <1>3, <2>3, <2>4
    <2> QED
        BY <2>1, <2>5 DEF t
<1>7. b <= q
    <2> SUFFICES ASSUME q < b PROVE FALSE
        BY <1>2, <1>5
    <2>1. q * w + w <= b * w
        BY <1>2, <1>5, RowsInOrder
    <2> QED
        BY <1>2, <1>3, <1>6, <2>1
<1>8. 1 + k + q < Rows
    BY DEF q
<1> QED
    BY <1>2, <1>5, <1>7, <1>8, ScreenAssumption

LEMMA ScrollShows ==
    ASSUME DisplayInv, InputInv, Scroll
    PROVE  InputInv'
<1> DEFINE n == Len(said)
           k == n - 1
           s == prompt \o line
           e == Len(prompt) + Len(line)
           W == view.width
<1>1. /\ n \in Nat /\ view \in Drawn(view, n, n) /\ prompt \in Line /\ line \in Line
      /\ pos \in Nat /\ view \in View
    BY InvFacts
<1>2. n > 1 /\ n + e \div W < Rows
    BY DEF Scroll
<1>3. /\ view' = Scrolled(view, k) /\ Len(said') = 1
      /\ prompt' = prompt /\ line' = line /\ pos' = pos /\ mode' = mode
      /\ shown' = shown
    BY DEF Scroll, editVars, inputVars
<1>4. s \in Line /\ Len(s) = e /\ e \in Nat
    BY <1>1, JoinIsText DEF Line
<1>5. /\ W \in Nat \ {0} /\ view.row = n + view.y /\ view.y \in Nat /\ view.x \in Nat
      /\ view.col = view.x /\ ~view.late /\ view.max \in Nat
      /\ Spot(view) = view.row * W + view.x
    BY <1>1, DrawnFacts
<1>6. k \in Nat /\ n = 1 + k
    BY <1>1, <1>2
<1> HIDE DEF n, k, s, e
<1>7. AtLeast0(view.row - k) = 1 + view.y
    BY <1>5, <1>6 DEF AtLeast0
<1>8. /\ view'.width = W /\ view'.max = view.max /\ view'.row = 1 + view.y
      /\ view'.col = view.x /\ ~view'.late
      /\ \A c \in Grid : view'.cells[c] = IF c[1] + k < Rows
                                         THEN view.cells[<<c[1] + k, c[2]>>]
                                         ELSE Blank
    BY <1>1, <1>3, <1>5, <1>7 DEF Scrolled, View
<1>9. ASSUME NEW c \in Grid, c[1] + k < Rows
      PROVE  <<c[1] + k, c[2]>> \in Grid
    BY <1>6, <1>9, ScreenAssumption DEF Grid
<1>10. ASSUME NEW c \in Grid, c[1] + k < Rows, NEW f \in Nat
       PROVE  Place(W, n * W + f, <<c[1] + k, c[2]>>) = Place(W, 1 * W + f, c)
    <2> DEFINE d == <<c[1] + k, c[2]>>
    <2>1. d \in Grid /\ d[1] = c[1] + k /\ d[2] = c[2]
        BY <1>9, <1>10
    <2> HIDE DEF d
    <2> DEFINE p == 1 * W + f
               q == n * W + f
    <2>2. p \in Nat /\ q = p + k * W
        <3>1. k * W \in Nat /\ W \in Nat
            BY <1>5, <1>6
        <3>2. n * W = 1 * W + k * W
            <4>1. k \in Nat /\ n = 1 + k
                BY <1>6
            <4> HIDE DEF W
            <4> QED
                BY <3>1, <4>1
        <3> DEFINE a == k * W
                   b == 1 * W
        <3>3. b \in Nat
            BY <3>1
        <3> HIDE DEF a, b
        <3>4. b + f \in Nat /\ (b + a) + f = (b + f) + a
            BY <1>10, <3>1, <3>3 DEF a
        <3> QED
            BY <3>2, <3>4 DEF a, b
    <2>3. W \in Nat /\ k \in Nat
        BY <1>5, <1>6
    <2> HIDE DEF p, q, W
    <2>4. Place(W, q, d) = Place(W, p, c)
        BY <2>1, <2>2, <2>3, PlaceLower
    <2> QED
        BY <2>4 DEF d, p, q
<1>11. ASSUME Right(view, n, line, pos) PROVE Right(view', 1, line', pos')
    <2>1. Spot(view') = 1 * W + (Len(prompt) + pos)
        <3> DEFINE a == k * W
                   b == view.y * W
                   g == Len(prompt) + pos
        <3>1. a \in Nat /\ b \in Nat /\ g \in Nat
            BY <1>1, <1>5, <1>6 DEF Line
        <3>2. view.row * W = a + W + b /\ n * W = a + W /\ (1 + view.y) * W = W + b
            <4>1. /\ n * W = k * W + W /\ (1 + view.y) * W = W + view.y * W
                  /\ (k + 1 + view.y) * W = k * W + W + view.y * W
                BY <1>5, <1>6
            <4>2. view.row = k + 1 + view.y
                BY <1>5, <1>6
            <4> QED
                BY <4>1, <4>2
        <3>3. Spot(view) = n * W + g
            BY <1>11 DEF Right
        <3>4. Spot(view') = (1 + view.y) * W + view.x
            <4>1. (1 + view.y) * W + view.x + 0 = (1 + view.y) * W + view.x
                BY <1>5
            <4> QED
                BY <1>8, <4>1 DEF Spot
        <3> HIDE DEF a, b, g
        <3>5. (a + W + b) + view.x = (a + W) + g
            BY <1>5, <3>2, <3>3
        <3>6. Spot(view') = (W + b) + view.x /\ 1 * W = W
            BY <1>5, <3>2, <3>4
        <3>7. Spot(view') = W + g
            BY <1>5, <3>1, <3>5, <3>6
        <3> QED
            BY <3>6, <3>7 DEF g
    <2>2. ASSUME NEW c \in Grid, c[2] < W, Place(W, 1 * W, c) \in 1..Len(s)
          PROVE  view'.cells[c] = s[Place(W, 1 * W, c)]
        <3> DEFINE d == <<c[1] + k, c[2]>>
        <3>1. c[1] + k < Rows
            BY <1>2, <1>4, <1>5, <1>6, <2>2, HasRoom
        <3>2. Place(W, n * W, d) = Place(W, 1 * W, c)
            <4>1. Place(W, n * W + 0, d) = Place(W, 1 * W + 0, c)
                BY <1>10, <3>1
            <4>2. n * W + 0 = n * W /\ 1 * W + 0 = 1 * W
                BY <1>1, <1>5
            <4> QED
                BY <4>1, <4>2
        <3>3. d \in Grid /\ d[2] < W
            BY <1>9, <2>2, <3>1
        <3>4. view'.cells[c] = view.cells[d]
            BY <1>8, <3>1
        <3> HIDE DEF d
        <3>5. Holds(view, n * W, s)
            BY <1>11 DEF Right, s
        <3>6. view.cells[d] = s[Place(W, n * W, d)]
            BY <2>2, <3>2, <3>3, <3>5 DEF Holds
        <3> QED
            BY <3>2, <3>4, <3>6
    <2> QED
        BY <1>3, <1>8, <2>1, <2>2 DEF Right, Holds, s
<1>12. ASSUME Only(view, n, line) PROVE Only(view', 1, line')
    <2>1. ASSUME NEW c \in Grid, c[2] < W, Place(W, 1 * W + e, c) > 0
          PROVE  view'.cells[c] = Blank
        <3> DEFINE d == <<c[1] + k, c[2]>>
        <3>1. CASE c[1] + k < Rows
            <4>1. Place(W, n * W + e, d) = Place(W, 1 * W + e, c)
                BY <1>4, <1>10, <3>1
            <4>2. d \in Grid /\ d[2] < W
                BY <1>9, <2>1, <3>1
            <4>3. view'.cells[c] = view.cells[d]
                BY <1>8, <3>1
            <4> HIDE DEF d
            <4>4. view.cells[d] = Blank
                BY <1>12, <2>1, <4>1, <4>2 DEF Only, CleanFrom, e
            <4> QED
                BY <4>3, <4>4
        <3>2. CASE ~(c[1] + k < Rows)
            BY <1>8, <3>2
        <3> QED
            BY <3>1, <3>2
    <2>2. ASSUME NEW c \in Grid, c[1] > 1 + view.max
          PROVE  view'.cells[c] = Blank
        <3> DEFINE d == <<c[1] + k, c[2]>>
        <3>1. CASE c[1] + k < Rows
            <4>1. d \in Grid /\ d[1] > n + view.max
                <5>1. c[1] \in Nat /\ d \in Grid /\ d[1] = c[1] + k
                    BY <1>9, <3>1, CellsOfGrid
                <5> HIDE DEF d
                <5> QED
                    BY <1>5, <1>6, <2>2, <5>1
            <4>2. view'.cells[c] = view.cells[d]
                BY <1>8, <3>1
            <4> HIDE DEF d
            <4>3. view.cells[d] = Blank
                BY <1>12, <4>1 DEF Only, BlankBelow
            <4> QED
                BY <4>2, <4>3
        <3>2. CASE ~(c[1] + k < Rows)
            BY <1>8, <3>2
        <3> QED
            BY <3>1, <3>2
    <2> QED
        BY <1>3, <1>8, <2>1, <2>2 DEF Only, CleanFrom, BlankBelow, e
<1>13. /\ shown \in {"stale", "right", "exact"} /\ (mode # "reading" => line = <<>>)
       /\ shown # "stale" => Right(view, n, line, pos)
       /\ shown = "exact" => Only(view, n, line)
    BY DEF InputInv, n
<1> QED
    BY <1>3, <1>11, <1>12, <1>13, InvNext

LEMMA StepShows ==
    DisplayInv /\ InputInv /\ [DisplayNext]_<<vars, displayVars>> => InputInv'
<1> SUFFICES ASSUME DisplayInv, InputInv, [DisplayNext]_<<vars, displayVars>>
             PROVE  InputInv'
    OBVIOUS
<1>1. CASE Scroll
    BY <1>1, ScrollShows
<1>2. CASE FirstPaint
    BY <1>2, FirstPaintShows
<1>3. CASE \E input \in Arrivals : Type(input)
    BY <1>3, TypeShows
<1>4. CASE \E n \in MessageRows : WriteMessage(n)
    BY <1>4, WriteShows
<1>5. CASE \E p \in client.prompts : ChangePrompt(p)
    BY <1>5, PromptShows
<1>6. CASE \E w \in Widths : Resize(w)
    BY <1>6, ResizeShows
<1>7. CASE UNCHANGED <<vars, displayVars>>
    BY <1>7 DEF InputInv, Right, Only, vars, editVars, inputVars, displayVars
<1> QED
    BY <1>1, <1>2, <1>3, <1>4, <1>5, <1>6, <1>7 DEF DisplayNext

(* The layout of InputShown puts each character in its place.              *)
LEMMA LaidOut ==
    ASSUME DisplayInv, InputInv
    PROVE  InputShown
<1> DEFINE n == Len(said)
           top == view.row - view.y
           s == prompt \o line
           W == view.width
           cells == {c \in Grid : c[1] >= n /\ c[2] < W}
           want == Layout(n)
<1>1. /\ n \in Nat /\ view \in Drawn(view, n, n) /\ prompt \in Line /\ line \in Line
      /\ Len(line) \in Nat /\ Len(prompt) \in Nat
    BY InvFacts
<1>2. s \in Line /\ Len(s) = Len(prompt) + Len(line) /\ DOMAIN s = 1..Len(s)
    BY <1>1, JoinIsText DEF Line
<1>3. W \in Nat \ {0} /\ view.row = n + view.y /\ view.y \in Nat
    BY <1>1, DrawnFacts
<1>4. top = n
    BY <1>1, <1>3
<1>5. DOMAIN want = cells
    BY DEF Layout
<1>6. ASSUME NEW c \in cells
      PROVE  want[c] = IF Place(W, n * W, c) \in 1..Len(s)
                       THEN s[Place(W, n * W, c)] ELSE Blank
    <2>1. want[c] = LET i == (c[1] - n) * W + c[2] + 1
                    IN  IF i \in DOMAIN s THEN s[i] ELSE Blank
        BY <1>6 DEF Layout
    <2>2. (c[1] - n) * W + c[2] + 1 = Place(W, n * W, c)
        <3> DEFINE a == c[1] * W
                   b == n * W
        <3>1. c[1] \in Nat /\ c[2] \in Nat
            BY CellsOfGrid
        <3>2. a \in Nat /\ b \in Nat /\ (c[1] - n) * W = a - b
            BY <1>1, <1>3, <3>1
        <3> HIDE DEF a, b
        <3>3. Place(W, n * W, c) = a + c[2] - b + 1
            BY DEF Place, a, b
        <3> QED
            BY <3>1, <3>2, <3>3
    <2> QED
        BY <1>2, <2>1, <2>2
<1> HIDE DEF n, s, want
<1>7. ASSUME shown # "stale", NEW c \in cells, want[c] # Blank
      PROVE  view.cells[c] = want[c]
    <2>1. Holds(view, n * W, s)
        BY <1>7 DEF InputInv, Right, n, s
    <2> QED
        BY <1>6, <1>7, <2>1 DEF Holds
<1>8. ASSUME shown = "exact", NEW c \in cells
      PROVE  view.cells[c] = want[c]
    <2> DEFINE i == Place(W, n * W, c)
    <2>1. Holds(view, n * W, s)
        BY <1>8 DEF InputInv, Right, n, s
    <2>2. CleanFrom(view, n * W + Len(s))
        BY <1>2, <1>8 DEF InputInv, Only, n, s
    <2>3. i \in Int /\ Place(W, n * W + Len(s), c) = i - Len(s)
        <3>1. n * W \in Int /\ Len(s) \in Int
            BY <1>1, <1>2, <1>3
        <3> QED
            BY <1>3, <3>1, PlaceShifts
    <2>4. i > 0
        BY <1>1, <1>3, PlaceBelow
    <2> HIDE DEF i
    <2>5. CASE i \in 1..Len(s)
        BY <1>6, <2>1, <2>5 DEF Holds, i
    <2>6. CASE i \notin 1..Len(s)
        <3>1. Place(W, n * W + Len(s), c) > 0
            BY <1>1, <1>2, <2>3, <2>4, <2>6
        <3>2. view.cells[c] = Blank
            BY <2>2, <3>1 DEF CleanFrom
        <3> QED
            BY <1>6, <2>6, <3>2 DEF i
    <2> QED
        BY <2>5, <2>6
<1> QED
    BY <1>4, <1>5, <1>7, <1>8 DEF InputShown, want, cells

(* What the user edits is on the screen, at the place where the cursor     *)
(* says it is: whatever keys, messages, prompts and sizes come in between, *)
(* each key redraws enough of the line, and a message or a new size draws  *)
(* it again below.  Where nothing was left from before, nothing else is    *)
(* there.                                                                  *)
THEOREM InputIsShown == DisplaySpec => []InputShown
<1>1. DisplayInit => InputInv
    BY DEF DisplayInit, Init, InputInv
<1>2. DisplayInv /\ InputInv => InputShown
    BY LaidOut
<1> QED
    BY <1>1, <1>2, StartsWell, StepKeeps, StepShows, PTL DEF DisplaySpec

=============================================================================
