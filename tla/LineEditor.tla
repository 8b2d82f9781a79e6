----------------------------- MODULE LineEditor -----------------------------
(***************************************************************************)
(* sshd/terminal/terminal.go: the line a client is editing and what the    *)
(* server believes its screen to be.  One goroutine reads lines; others    *)
(* write messages and change the prompt.  The lock is held but for the     *)
(* wait for input, so a key, a message or a change is one step.            *)
(***************************************************************************)
EXTENDS Keys, Screen, SequencesExt

CONSTANTS
    Widths,         \* the widths SetSize is called with
    Clients,        \* who may be connected
    Words,          \* what the callback may complete to
    MessageRow,     \* the text of each row of a message
    MessageRows,    \* how many rows a message may have
    MaxLine,        \* maxLineLength
    HistoryLen      \* how many lines the ring keeps

(* What a line may hold: what is printable, and keyUnknown from a paste,   *)
(* sent as one replacement character.                                      *)
Runes == Enders \cup {" ", "lead", "[", "1", ";", "3", "200", "201", "unknown"}
Line == Seq(Runes)

(* What a client types and pastes, in any pieces; bound: the length from   *)
(* which its lines do not grow; the prompts it gets, and enterClear.       *)
Client == [types: SUBSET Seq(Bytes), pastes: SUBSET Seq(Bytes), upTo: Nat,
           prompts: SUBSET (Line \ {<<>>}), clears: BOOLEAN]

ASSUME EditorAssumption ==
    /\ Widths \subseteq 1..Cols
    /\ Clients \subseteq Client
    /\ Words \subseteq Line \ {<<>>}
    /\ MessageRows \subseteq Nat
    /\ MessageRow \in Line /\ \A w \in Widths : Len(MessageRow) <= w
    /\ MaxLine \in Nat /\ HistoryLen \in Nat \ {0}
    /\ Blank = " "

VARIABLES
    line, pos,  \* the line entered so far and the cursor in it
    prompt,
    view,       \* the screen, and what the server believes of it: x, y, max
    mode,       \* where readLine is
    rest,       \* the bytes read that are not a key yet
    paste,      \* pasteActive
    pasted,     \* lineIsPasted
    log,        \* the lines entered before, oldest first
    index,      \* historyIndex
    pending,    \* historyPending
    client      \* who is connected

editVars == <<line, pos>>
inputVars == <<mode, rest, paste, pasted>>
historyVars == <<log, index, pending>>
vars == <<editVars, prompt, view, inputVars, historyVars, client>>

Modes == {"away", "reading", "eof"}

View == [width : Widths, x : Nat, y : Nat, max : Nat, cells : [Grid -> Runes],
         row : Nat, col : Nat, late : BOOLEAN]

TypeOK ==
    /\ line \in Line
    /\ pos \in 0..Len(line)
    /\ prompt \in client.prompts
    /\ view \in View
    /\ mode \in Modes
    /\ rest \in Seq(Bytes)
    /\ paste \in BOOLEAN /\ pasted \in BOOLEAN
    /\ log \in Seq(Line) /\ Len(log) <= HistoryLen
    /\ index \in -1..(Len(log) - 1)
    /\ pending \in Line
    /\ client \in Clients

(* NewTerminal, and what Connect sets before it reads.                     *)
Init ==
    /\ client \in Clients
    /\ line = <<>> /\ pos = 0
    /\ prompt \in client.prompts
    /\ \E w \in Widths :
           view = [width |-> w, x |-> 0, y |-> 0, max |-> 0,
                   cells |-> EmptyGrid, row |-> 0, col |-> 0, late |-> FALSE]
    /\ mode = "away" /\ rest = <<>>
    /\ paste = FALSE /\ pasted = FALSE
    /\ log = <<>> /\ index = -1 /\ pending = <<>>

-----------------------------------------------------------------------------
(* Drawing.  Each operator takes a view and gives the one that follows.    *)
Blanks(n) == [i \in 1..n |-> Blank]

(* A plausible bug: nothing moves the cursor on from the last column.      *)
AdvanceLazily(v, places) ==
    LET sum == v.x + places
        y == v.y + sum \div v.width
    IN  [v EXCEPT !.x = sum % v.width, !.y = y,
                  !.max = IF y > @ THEN y ELSE @]

advanceCursor(v, places) ==
    LET sum == v.x + places
        y == v.y + sum \div v.width
        w == [v EXCEPT !.x = sum % v.width, !.y = y,
                       !.max = IF y > @ THEN y ELSE @]
    IN  IF places > 0 /\ w.x = 0 THEN CRLF(w) ELSE w

Text(v, s) == advanceCursor(Show(v, s), Len(s))

(* writeLine: a piece for each row, the first one up to the right edge.    *)
Start(v, i) == IF i = 1 THEN 1 ELSE v.width - v.x + (i - 2) * v.width + 1
Piece(v, s, i) ==
    SubSeq(s, Start(v, i), Below(Start(v, i + 1) - 1, Len(s)))

writeLine(v, s) ==
    LET n == CHOOSE i \in 0..Len(s) :
                 Start(v, i + 1) > Len(s) /\ (i > 0 => Start(v, i) <= Len(s))
        write[i \in 0..n] ==
            IF i = 0 THEN v ELSE Text(write[i - 1], Piece(v, s, i))
    IN  IF s = <<>> THEN v ELSE write[n]

(* move and moveCursorToPos: relative to where the cursor is taken to be.  *)
MoveTo(v, x, y) == MoveBy([v EXCEPT !.x = x, !.y = y], y - v.y, x - v.x)
moveCursorToPos(v, p) ==
    LET at == Len(prompt) + p
    IN  MoveTo(v, at % v.width, at \div v.width)

(* A plausible bug: the loop clears one row too many.                      *)
ClearOneMore(v) ==
    LET w == MoveBy(v, 0, 0 - v.x)
        top == AtLeast0(w.row - v.y - 1)
    IN  [ClearToRight(w, top..w.row) EXCEPT !.row = AtLeast0(w.row - v.y),
                                            !.x = 0, !.y = 0]

(* What clears a row goes there from the one before it.                    *)
ClearUp(v) ==
    LET w == MoveBy(v, 0, 0 - v.x)
        top == AtLeast0(w.row - v.y)
    IN  [ClearToRight(w, top..w.row) EXCEPT !.row = top, !.x = 0, !.y = 0]

clearAndRepaint(v, s, p, rows) ==
    LET top == [MoveBy(v, 0 - v.y, 0 - v.x) EXCEPT !.x = 0, !.y = 0]
        clean == ClearToRight(top, top.row..(top.row + rows))
    IN  moveCursorToPos(writeLine(Text(clean, prompt), s), p)

Message(v, n) ==
    LET write[i \in 0..n] ==
            IF i = 0 THEN v ELSE CRLF(Show(write[i - 1], MessageRow))
    IN  write[n]

-----------------------------------------------------------------------------
(* Changes of the line.                                                    *)
Put(l, p, v) == line' = l /\ pos' = p /\ view' = v
Nothing == UNCHANGED <<line, pos, view>>
PutAt(p) == Put(line, p, moveCursorToPos(view, p))

setLine(v, l, p) ==
    LET shown == writeLine(moveCursorToPos(v, 0), l)
        wiped == writeLine(shown, Blanks(AtLeast0(Len(line) - Len(l))))
    IN  Put(l, p, moveCursorToPos(wiped, p))

(* A plausible bug: the characters behind what was erased are not moved up *)
(* on the screen.                                                          *)
EraseInPlace(at, count) ==
    LET n == IF at < count THEN at ELSE count
        l == SubSeq(line, 1, at - n) \o SubSeq(line, at + 1, Len(line))
        v == moveCursorToPos(view, at - n)
    IN  Put(l, at - n, moveCursorToPos(Text(v, Blanks(n)), at - n))

(* eraseNPreviousChars with the cursor at a position given.                *)
EraseBefore(at, count) ==
    LET n == IF at < count THEN at ELSE count
        tail == SubSeq(line, at + 1, Len(line))
        v == writeLine(moveCursorToPos(view, at - n), tail)
    IN  IF count = 0 THEN Nothing
        ELSE Put(SubSeq(line, 1, at - n) \o tail, at - n,
                 moveCursorToPos(Text(v, Blanks(n)), at - n))

addKeyToLine(k) ==
    LET l == InsertAt(line, pos + 1, k)
        v == writeLine(view, SubSeq(l, pos + 1, Len(l)))
    IN  Put(l, pos + 1, moveCursorToPos(v, pos + 1))

Space(i) == line[i] = " "

(* How far the start of the word to the left is: past spaces, then to the  *)
(* space before the word.                                                  *)
countToLeftWord ==
    LET words == {i \in 1..pos : i = 1 \/ ~Space(i)}
        last == CHOOSE i \in words : \A j \in words : j <= i
        gaps == {i \in 2..last : Space(i)}
    IN  IF pos = 0 THEN 0
        ELSE IF gaps = {} THEN pos
        ELSE pos - (CHOOSE i \in gaps : \A j \in gaps : j <= i)

countToRightWord ==
    LET starts == {i \in (pos + 2)..Len(line) : Space(i - 1) /\ ~Space(i)}
    IN  IF starts = {} THEN Len(line) - pos ELSE First(starts) - pos - 1

-----------------------------------------------------------------------------

DeleteLine ==
    LET v == writeLine(view, Blanks(Len(line) - pos))
    IN  Put(SubSeq(line, 1, pos), pos, moveCursorToPos(v, pos))

ClearedScreen == Text([ClearAll(view) EXCEPT !.x = 0, !.y = 0], prompt)

(* AutoCompleteFunction: the word before the cursor is completed, if there *)
(* is something to complete it to; an unknown command gives way to a space.*)
Complete(w) ==
    LET ends == {i \in 1..pos : Space(i)}
        start == IF ends = {} THEN 0
                 ELSE CHOOSE i \in ends : \A j \in ends : j <= i
        new == Append(w, " ")
    IN  /\ line # <<>> /\ (pos > 0 => ~Space(pos))
        /\ w = <<>> \/ IsPrefix(SubSeq(line, start + 1, pos), w)
        /\ setLine(view,
                   SubSeq(line, 1, start) \o new \o SubSeq(line, pos + 1, Len(line)),
                   start + Len(new))

(* handleKey, outside of a paste, by key.                                  *)
EditKey(k) ==
    \/ k = "backspace" /\ IF pos = 0 THEN Nothing ELSE EraseBefore(pos, 1)
    \/ k \in {"altleft", "altB"} /\ PutAt(pos - countToLeftWord)
    \/ k \in {"altright", "altF"} /\ PutAt(pos + countToRightWord)
    \/ k = "left" /\ IF pos = 0 THEN Nothing ELSE PutAt(pos - 1)
    \/ k = "right" /\ IF pos = Len(line) THEN Nothing ELSE PutAt(pos + 1)
    \/ k = "home" /\ IF pos = 0 THEN Nothing ELSE PutAt(0)
    \/ k = "end" /\ IF pos = Len(line) THEN Nothing ELSE PutAt(Len(line))
    \/ k = "deleteword" /\ EraseBefore(pos, countToLeftWord)
    \/ k = "deleteline" /\ DeleteLine
    \/ k = "ctrlU" /\ EraseBefore(pos, pos)
    \/ k = "ctrlD" /\ IF pos < Len(line) THEN EraseBefore(pos + 1, 1) ELSE Nothing
    \/ k = "clear" /\ setLine(ClearedScreen, line, pos)
    \/ k = "tab" /\ (Nothing \/ \E w \in Words \cup {<<>>} : Complete(w))
    \/ k = "unknown" /\ Nothing
    \/ k \in Runes \ {"unknown"}        \* isPrintable
       /\ IF Len(line) = MaxLine THEN Nothing ELSE addKeyToLine(k)

(* Up and down the ring; what was being entered comes after the newest.    *)
NthPreviousEntry(n) == log[Len(log) - n]

Up ==
    IF index + 1 < Len(log)
    THEN LET l == NthPreviousEntry(index + 1)
         IN  /\ pending' = IF index = -1 THEN line ELSE pending
             /\ index' = index + 1
             /\ setLine(view, l, Len(l))
    ELSE Nothing /\ UNCHANGED <<index, pending>>

Down ==
    /\ IF index = -1 THEN Nothing /\ UNCHANGED index
       ELSE LET l == IF index = 0 THEN pending ELSE NthPreviousEntry(index - 1)
            IN  /\ index' = index - 1
                /\ setLine(view, l, Len(l))
    /\ UNCHANGED pending

(* A plausible bug: the cursor is not put back to the start.               *)
EnterInPlace ==
    /\ Put(<<>>, pos, IF client.clears THEN [ClearFromRow(view) EXCEPT !.max = 0]
                      ELSE [CRLF(moveCursorToPos(view, Len(line)))
                               EXCEPT !.x = 0, !.y = 0, !.max = 0])
    /\ mode' = "away"
    /\ index' = -1
    /\ log' = Append(IF Len(log) < HistoryLen THEN log ELSE Tail(log), line)
    /\ UNCHANGED pending

(* The line is returned.  With enterClear its last row is wiped and the    *)
(* cursor stays where it is.                                               *)
Enter ==
    /\ Put(<<>>, 0, IF client.clears THEN [ClearFromRow(view) EXCEPT !.max = 0]
                    ELSE [CRLF(moveCursorToPos(view, Len(line)))
                             EXCEPT !.x = 0, !.y = 0, !.max = 0])
    /\ mode' = "away"
    /\ index' = -1
    /\ log' = Append(IF Len(log) < HistoryLen THEN log ELSE Tail(log), line)
    /\ UNCHANGED pending

(* Inside of a paste every key but enter is part of the line.  Left out: a *)
(* control character in it, which the screen would obey.                   *)
handleKey(k) ==
    \/ k = "enter" /\ Enter
    \/ /\ \/ /\ paste /\ k \in Runes
             /\ addKeyToLine(k)
             /\ UNCHANGED <<index, pending>>
          \/ ~paste /\ k = "up" /\ Up
          \/ ~paste /\ k = "down" /\ Down
          \/ /\ ~paste /\ EditKey(k)
             /\ UNCHANGED <<index, pending>>
       /\ UNCHANGED <<mode, log>>

-----------------------------------------------------------------------------
(* ReadLine.  Where a new line starts the prompt is drawn.                 *)
StartReading ==
    /\ mode = "away"
    /\ mode' = "reading"
    /\ view' = IF view.x = 0 /\ view.y = 0 THEN writeLine(view, prompt) ELSE view
    /\ pasted' = paste
    /\ UNCHANGED <<editVars, prompt, rest, paste, historyVars, client>>

(* A plausible bug: a key typed after a paste leaves the mark on the line. *)
StillPasted == pasted

StaysPasted == pasted /\ paste

(* bound: from some length on the client only moves and deletes.           *)
Grows(input) ==
    \/ \E i \in DOMAIN input : \/ input[i] \in {" ", "lead", "tab"}
                               \/ i = 1 /\ input[i] \in Letters
    \/ paste /\ bytesToKey(input, paste).key = "unknown"

(* bound: a message and the longest line have room on the screen.          *)
Fits(n) ==
    view.row - view.y + n + (Len(prompt) + client.upTo) \div view.width + 2 < Rows

(* What the client sends comes in pieces that need not be whole keys: the  *)
(* next key may be complete already, or only with bytes that come now.     *)
Available(input) ==
    /\ mode = "reading"
    /\ IsPrefix(rest, input)
    /\ (input # rest /\ Grows(input)) => Len(line) < client.upTo
    /\ Fits(0)

Arrivals == (IF paste THEN client.pastes ELSE client.types) \cup {rest}

(* One turn of the loop.  The lock is let go of in each wait for input,    *)
(* so the others may come in between any two keys.                         *)
ReadKey(input) ==
    LET found == bytesToKey(input, paste)
        key == found.key
    IN  /\ Available(input)
        /\ rest' = SubSeq(input, found.used + 1, Len(input))
        /\ \/ /\ key = "error"
              /\ UNCHANGED <<editVars, view, mode, paste, pasted, historyVars>>
           \/ /\ ~paste /\ key = "ctrlD" /\ line = <<>>
              /\ mode' = "eof"
              /\ UNCHANGED <<editVars, view, paste, pasted, historyVars>>
           \/ /\ ~paste /\ key = "pastestart"
              /\ paste' = TRUE
              /\ pasted' = (pasted \/ line = <<>>)
              /\ UNCHANGED <<editVars, view, mode, historyVars>>
           \/ /\ paste /\ key = "pasteend"
              /\ paste' = FALSE
              /\ UNCHANGED <<editVars, view, mode, pasted, historyVars>>
           \/ /\ key \notin {"error", "pastestart", "pasteend"}
              /\ (key = "ctrlD" /\ line = <<>>) => paste
              /\ pasted' = StaysPasted
              /\ handleKey(key)
              /\ UNCHANGED paste
        /\ UNCHANGED <<prompt, client>>

-----------------------------------------------------------------------------
(* What other goroutines do.                                               *)
Write(n) ==
    /\ Fits(n)
    /\ view' = IF view.x = 0 /\ view.y = 0 THEN Message(view, n)
               ELSE LET v == Message(ClearUp(view), n)
                    IN  moveCursorToPos(writeLine(writeLine(v, prompt), line), pos)
    /\ UNCHANGED <<editVars, prompt, inputVars, historyVars, client>>

SetPrompt(p) ==
    /\ prompt' = p
    /\ UNCHANGED <<editVars, view, inputVars, historyVars, client>>

(* A screen that has become wider.  (What a narrower one does to its text  *)
(* depends on the client; the code says what it assumes.)                  *)
SetSize(w) ==
    /\ w > view.width
    /\ Fits(0)
    /\ LET v == [view EXCEPT !.width = w]
       IN  view' = IF line = <<>> /\ v.x = 0 /\ v.y = 0 THEN v
                   ELSE clearAndRepaint(v, line, pos, v.max)
    /\ UNCHANGED <<editVars, prompt, inputVars, historyVars, client>>

Next ==
    \/ StartReading
    \/ \E input \in Arrivals : ReadKey(input)
    \/ \E n \in MessageRows : Write(n)
    \/ \E p \in client.prompts : SetPrompt(p)
    \/ \E w \in Widths : SetSize(w)

Spec == Init /\ [][Next]_vars
=============================================================================
