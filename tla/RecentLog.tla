----------------------------- MODULE RecentLog ------------------------------
(***************************************************************************)
(* What a history of chat messages promises: it keeps the last Capacity    *)
(* entries in the order they were added, and answers a reader with the     *)
(* newest of them, oldest first.  Room works with this view of it.         *)
(***************************************************************************)
EXTENDS Integers, Sequences

CONSTANTS Entries,      \* what can be added
          Capacity,     \* how many entries are kept
          Asks          \* the numbers of entries a reader asks for

VARIABLES kept,     \* the entries kept, oldest first
          answer    \* what the last reader was given

Init == kept = <<>> /\ answer = <<>>

Add(e) ==
    /\ kept' = Append(IF Len(kept) < Capacity THEN kept ELSE Tail(kept), e)
    /\ UNCHANGED answer

Get(num) ==
    /\ answer' = IF num >= Len(kept) THEN kept
                 ELSE SubSeq(kept, Len(kept) - num + 1, Len(kept))
    /\ UNCHANGED kept

Next ==
    \/ \E e \in Entries : Add(e)
    \/ \E num \in Asks : Get(num)

Spec == Init /\ [][Next]_<<kept, answer>>
=============================================================================
