------------------------------ MODULE History -------------------------------
(***************************************************************************)
(* chat/message/history.go: the last messages of a room in a ring buffer.  *)
(* Add and Get each hold the lock for their whole body.                    *)
(***************************************************************************)
EXTENDS Integers, Sequences

CONSTANTS Entries,      \* the messages
          Nothing,      \* the nil an unused slot holds
          Capacity,     \* the size given to NewHistory
          Asks          \* the numbers Get is called with

ASSUME HistoryAssumption ==
    /\ Nothing \notin Entries
    /\ Capacity \in Nat \ {0}
    /\ Asks \subseteq Nat

VARIABLES
    entries,    \* the slots, from 0
    head,       \* the slot written last
    size,       \* how many slots are in use
    answer      \* what the last Get returned

vars == <<entries, head, size, answer>>

Slots == 0..(Capacity - 1)

(* NewHistory.                                                             *)
Init ==
    /\ entries = [i \in Slots |-> Nothing]
    /\ head = 0
    /\ size = 0
    /\ answer = <<>>

(* A plausible bug: the slot is written before head moves on.              *)
AddThenAdvance(e) ==
    /\ entries' = [entries EXCEPT ![head] = e]
    /\ head' = (head + 1) % Capacity
    /\ size' = IF size < Capacity THEN size + 1 ELSE size
    /\ UNCHANGED answer

Add(e) ==
    /\ head' = (head + 1) % Capacity
    /\ entries' = [entries EXCEPT ![head'] = e]
    /\ size' = IF size < Capacity THEN size + 1 ELSE size
    /\ UNCHANGED answer

(* Go's remainder takes the sign of the dividend; Get corrects for it.     *)
Rem(a, b) == IF a >= 0 THEN a % b ELSE -((-a) % b)

Index(h, i) ==
    LET idx == Rem(h - i, Capacity)
    IN  IF idx < 0 THEN idx + Capacity ELSE idx

Least(a, b) == IF a > b THEN b ELSE a

Newest(n) == [k \in 1..n |-> entries[Index(head, n - k)]]

Get(num) ==
    /\ answer' = Newest(Least(num, size))
    /\ UNCHANGED <<entries, head, size>>

Next ==
    \/ \E e \in Entries : Add(e)
    \/ \E num \in Asks : Get(num)

Spec == Init /\ [][Next]_vars

-----------------------------------------------------------------------------
(* The ring keeps what RecentLog keeps and answers what it answers: the    *)
(* arithmetic of head and size at both ends of the ring loses no message,  *)
(* repeats none and never shows an unused slot (history.Add, history.Get). *)
Log == INSTANCE RecentLog WITH kept <- Newest(size)

Implements == Log!Spec
=============================================================================
