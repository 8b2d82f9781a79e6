------------------------------ MODULE Display -------------------------------
(***************************************************************************)
(* What a client sees of LineEditor: two variables observe which rows the  *)
(* user is meant to find on the screen, above the line being edited, and   *)
(* whether that line is meant to be there.                                 *)
(***************************************************************************)
EXTENDS LineEditor

VARIABLES
    said,   \* the rows written above the line being edited
    shown   \* of the prompt and the line: "stale", "right" or "exact",
            \* that is with nothing else behind it

displayVars == <<said, shown>>

DisplayInit == Init /\ said = <<>> /\ shown = "stale"

(* The rows from where said ends to the row given.                         *)
RowsTo(r) == [i \in 1..(r - Len(said)) |-> RowOf(view', Len(said) + i - 1)]

Said(s) == said' = s
Shown(s) == shown' = s

(* A repaint leaves nothing behind unless something was below its rows.    *)
Repainted(bottom) ==
    IF shown = "exact" \/ BlankBelow(view, bottom) THEN "exact" ELSE "right"

FirstPaint ==
    /\ StartReading
    /\ Said(said)
    /\ Shown(IF view.x = 0 /\ view.y = 0
             THEN IF BlankBelow(view, view.row - 1) THEN "exact" ELSE "right"
             ELSE shown)

(* Keys change the line where it is, but for two of them.                  *)
Type(input) ==
    LET key == bytesToKey(input, paste).key
    IN  /\ ReadKey(input)
        /\ CASE key = "enter" /\ client.clears    -> Said(said) /\ Shown("stale")
             [] key = "enter" /\ ~client.clears   -> /\ Said(said \o RowsTo(view'.row))
                                                 /\ Shown("stale")
             [] key = "clear" /\ ~paste        -> Said(<<>>) /\ Shown("exact")
             [] OTHER                         -> UNCHANGED displayVars

WriteMessage(n) ==
    /\ Write(n)
    /\ Said(said \o RowsTo(Len(said) + n))
    /\ Shown(IF view.x = 0 /\ view.y = 0 THEN shown ELSE Repainted(view.row))

ChangePrompt(p) ==
    /\ SetPrompt(p)
    /\ Said(said)
    /\ Shown(IF p = prompt THEN shown ELSE "stale")

Resize(w) ==
    /\ SetSize(w)
    /\ Said(said)
    /\ Shown(IF line = <<>> /\ view.x = 0 /\ view.y = 0 THEN shown
             ELSE Repainted(view.row - view.y + view.max))

(* bound: the screen keeps one row of what was said and forgets the others *)
(* before anything else happens; the line has room on it (as Fits sees to).*)
Scroll ==
    /\ Len(said) > 1
    /\ Len(said) + (Len(prompt) + Len(line)) \div view.width < Rows
    /\ view' = Scrolled(view, Len(said) - 1)
    /\ said' = <<said[Len(said)]>>
    /\ UNCHANGED <<editVars, prompt, inputVars, historyVars, client, shown>>

DisplayNext ==
    \/ Scroll
    \/ /\ Len(said) < 2
       /\ \/ FirstPaint
          \/ \E input \in Arrivals : Type(input)
          \/ \E n \in MessageRows : WriteMessage(n)
          \/ \E p \in client.prompts : ChangePrompt(p)
          \/ \E w \in Widths : Resize(w)

DisplaySpec == DisplayInit /\ [][DisplayNext]_<<vars, displayVars>>

-----------------------------------------------------------------------------
(* The server knows where the cursor is: cursorX and cursorY are its real  *)
(* column and its row below what was written before ("cursorX contains the *)
(* current X value of the cursor", terminal.go:72).  Every movement is     *)
(* relative, so one wrong step would displace all that is drawn later.     *)
CursorKnown ==
    /\ view.row = Len(said) + view.y
    /\ view.col = view.x
    /\ ~view.late

(* No key, message, change of the prompt or of the size damages a message  *)
(* or a line above the one being edited: Write and the repaint clear as    *)
(* many rows as that line has, and never one more.                         *)
SaidCells == {c \in Grid : c[1] < Len(said) /\ said[c[1] + 1][c[2]] # Blank}
MessagesStay == \A c \in SaidCells : view.cells[c] = said[c[1] + 1][c[2]]

(* What is on the screen from where the line starts.                       *)
Layout(n) ==
    LET s == prompt \o line
    IN  [c \in {c \in Grid : c[1] >= n /\ c[2] < view.width} |->
            LET i == (c[1] - n) * view.width + c[2] + 1
            IN  IF i \in DOMAIN s THEN s[i] ELSE Blank]

(* After a repaint and whatever is typed from there, the screen shows the  *)
(* prompt and the line; and nothing but them, unless the repaint came when *)
(* the cursor was above text of an earlier state.                          *)
InputShown ==
    LET top == view.row - view.y
        want == Layout(top)
    IN  /\ shown # "stale" =>
               \A c \in DOMAIN want : want[c] # Blank => view.cells[c] = want[c]
        /\ shown = "exact" =>
               \A c \in DOMAIN want : view.cells[c] = want[c]

(* A line is returned as pasted only if all of it was pasted ("the returned *)
(* line consists only of pasted data", terminal.go:947), however typing,   *)
(* pasting and recalling are mixed.  (No client types "lead", and typed    *)
(* keys that are not known are in no line.)                                *)
PasteTold ==
    [][(mode = "reading" /\ mode' = "away" /\ pasted')
           => \A i \in DOMAIN line : line[i] \in {"lead", "unknown"}]_vars
=============================================================================
