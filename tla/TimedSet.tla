------------------------------- MODULE TimedSet -------------------------------
(***************************************************************************)
(* What a set with items that expire promises: an entry stays until it is  *)
(* overwritten or removed or its time has passed, and whoever only reads   *)
(* the set leaves it as it is.                                             *)
(***************************************************************************)
CONSTANTS Keys, Items, NoItem,
          ItemKey       \* the key an item is stored under

VARIABLES content,      \* the entries that have not expired
          expired,      \* the items whose time has passed
          readers       \* how far everybody that only reads has come

Stored(i) == IF i \in expired THEN NoItem ELSE i

Init == content = [k \in Keys |-> NoItem] /\ expired = {}

Put(i) ==
    /\ content' = [content EXCEPT ![ItemKey[i]] = Stored(i)]
    /\ UNCHANGED <<expired, readers>>

Move(old, i) ==
    /\ content' = [content EXCEPT ![old] = NoItem, ![ItemKey[i]] = Stored(i)]
    /\ UNCHANGED <<expired, readers>>

Drop(ks) ==
    /\ content' = [k \in Keys |-> IF k \in ks THEN NoItem ELSE content[k]]
    /\ UNCHANGED <<expired, readers>>

Expire(i) ==
    /\ expired' = expired \cup {i}
    /\ content' = [k \in Keys |-> IF content[k] = i THEN NoItem ELSE content[k]]
    /\ UNCHANGED readers

(* No step of a reader, its clean-ups included, changes what is stored.    *)
Read == readers' # readers /\ UNCHANGED <<content, expired>>

Next ==
    \/ \E i \in Items : Put(i) \/ Expire(i) \/ \E k \in Keys : Move(k, i)
    \/ \E ks \in SUBSET Keys : Drop(ks)
    \/ Read

Spec == Init /\ [][Next]_<<content, expired, readers>>
=============================================================================
