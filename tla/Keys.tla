-------------------------------- MODULE Keys --------------------------------
(***************************************************************************)
(* bytesToKey in sshd/terminal/terminal.go: the first key in the bytes     *)
(* read from a client.  A byte is named by what the parser tells apart: a  *)
(* control byte, a letter, a digit or sign of an escape sequence, "lead"   *)
(* and "cont" of a rune of two bytes, and "bad", no UTF-8 at all.  The     *)
(* three digits that tell the two ends of a paste apart are one byte.      *)
(***************************************************************************)
EXTENDS Integers, Sequences, TLC

Letters == {"A", "B", "C", "D", "F", "H", "b", "f"}
Enders == Letters \cup {"~"}

Plain ==
    "^A" :> "home" @@ "^B" :> "left" @@ "^E" :> "end" @@ "^F" :> "right" @@
    "^H" :> "backspace" @@ "^K" :> "deleteline" @@ "^L" :> "clear" @@
    "^W" :> "deleteword" @@ "^N" :> "down" @@ "^P" :> "up"

(* The runes that are keys of their own, in a paste as well.               *)
Special ==
    "^D" :> "ctrlD" @@ "^U" :> "ctrlU" @@ "cr" :> "enter" @@
    "del" :> "backspace" @@ "tab" :> "tab"

Arrows ==
    "A" :> "up" @@ "B" :> "down" @@ "C" :> "right" @@ "D" :> "left" @@
    "H" :> "home" @@ "F" :> "end"
AltArrows == "C" :> "altright" @@ "D" :> "altleft"
AltLetters == "f" :> "altF" @@ "b" :> "altB"

PasteStart == <<"esc", "[", "200", "~">>
PasteEnd == <<"esc", "[", "201", "~">>

Bytes ==
    DOMAIN Plain \cup DOMAIN Special \cup Enders
    \cup {"esc", "[", "1", ";", "3", "200", "201", " ", "lead", "cont", "bad"}

(* The sequences that are known outside and inside of a paste.             *)
Escapes ==
    [s \in {<<"esc", "[", c>> : c \in DOMAIN Arrows} |-> Arrows[s[3]]] @@
    [s \in {<<"esc", "[", "1", ";", "3", c>> : c \in DOMAIN AltArrows} |->
        AltArrows[s[6]]] @@
    [s \in {<<"esc", c>> : c \in DOMAIN AltLetters} |-> AltLetters[s[2]]] @@
    (PasteStart :> "pastestart")

Known ==
    [paste \in BOOLEAN |->
        IF paste THEN PasteEnd :> "pasteend"
        ELSE [s \in {<<c>> : c \in DOMAIN Plain} |-> Plain[s[1]]] @@ Escapes]

Found(key, used) == [key |-> key, used |-> used]
(* utf8.RuneError: more bytes are needed, nothing is consumed.             *)
Partial == Found("error", 0)

First(N) == CHOOSE n \in N : \A m \in N : n <= m

(* A rune of its own.  DecodeRune answers RuneError for a byte that is no  *)
(* UTF-8, and consumes it.                                                 *)
RuneKey(b) ==
    CASE b[1] = "lead" /\ Len(b) = 1 -> Partial
      [] b[1] = "lead" /\ Len(b) > 1 /\ b[2] = "cont" -> Found("lead", 2)
      [] b[1] = "lead" /\ Len(b) > 1 /\ b[2] # "cont" -> Found("error", 1)
      [] b[1] \in {"bad", "cont"} -> Found("error", 1)
      [] b[1] \in DOMAIN Special -> Found(Special[b[1]], 1)
      [] OTHER -> Found(b[1], 1)

(* A sequence not known ends at its first letter or tilde.                 *)
UnknownKey(b) ==
    LET ends == {i \in DOMAIN b : b[i] \in Enders}
    IN  IF ends = {} THEN Partial ELSE Found("unknown", First(ends))

bytesToKey(b, paste) ==
    LET known == {n \in DOMAIN b : SubSeq(b, 1, n) \in DOMAIN Known[paste]}
    IN  IF b = <<>> THEN Partial
        ELSE IF known # {}
        THEN Found(Known[paste][SubSeq(b, 1, First(known))], First(known))
        ELSE IF b[1] = "esc" THEN UnknownKey(b) ELSE RuneKey(b)
=============================================================================
