----------------------------- MODULE ExpiringSet -----------------------------
(***************************************************************************)
(* set/set.go with the items of set/item.go: bans, operators and the       *)
(* allowlist are such sets.  An item that expires stays in the map until   *)
(* some reader comes across it and cleans up, after it has let go of the   *)
(* read lock.                                                              *)
(***************************************************************************)
CONSTANTS Keys, Items, NoItem, Threads,
          ItemKey,      \* the normalised key of an item
          Expiring      \* the items made by Expire

ASSUME SetAssumption ==
    /\ Keys # {}
    /\ NoItem \notin Items
    /\ ItemKey \in [Items -> Keys]
    /\ Expiring \subseteq Items

VARIABLES
    lookup,     \* Set.lookup, NoItem if there is no entry
    expired,    \* the items whose time has passed
    call        \* what each reading goroutine is doing

vars == <<lookup, expired, call>>

(* key, item: what In and Get found; rest, seen, stale: the keys Each has  *)
(* yet to visit, has handed to its callback, has to clean up; answer: the  *)
(* item In or Get found last, NoItem for false or ErrMissing.              *)
Call == [step : {"idle", "value", "cleanup", "each", "sweep"},
         op : {"In", "Get", "Each"}, key : Keys, item : Items \cup {NoItem},
         rest : SUBSET Keys, seen : SUBSET Keys, stale : SUBSET Keys,
         answer : Items \cup {NoItem}]

TypeOK ==
    /\ lookup \in [Keys -> Items \cup {NoItem}]
    /\ \A k \in Keys : lookup[k] # NoItem => ItemKey[lookup[k]] = k
    /\ expired \subseteq Expiring
    /\ call \in [Threads -> Call]
    /\ \A t \in Threads : call[t].step \in {"value", "cleanup"}
                              => call[t].item \in Items

NoCall == [step |-> "idle", op |-> "In", key |-> CHOOSE k \in Keys : TRUE,
           item |-> NoItem, rest |-> {}, seen |-> {}, stale |-> {},
           answer |-> NoItem]

Init ==
    /\ lookup = [k \in Keys |-> NoItem]
    /\ expired = {}
    /\ call = [t \in Threads |-> NoCall]

At(t, s) == call[t].step = s
Present(k) == lookup[k] # NoItem
Live(k) == Present(k) /\ lookup[k] \notin expired
Without(ks) == [k \in Keys |-> IF k \in ks THEN NoItem ELSE lookup[k]]

(* A plausible bug: a writer that does not take the lock.                  *)
NoLock == TRUE
(* Each holds the read lock while its callback runs, writers wait for it.  *)
WriteFree == \A t \in Threads : ~At(t, "each")

-----------------------------------------------------------------------------
(* The writers, each with the lock for its whole body.                     *)
Add(i) ==
    /\ WriteFree
    /\ ~Live(ItemKey[i])
    /\ lookup' = [lookup EXCEPT ![ItemKey[i]] = i]
    /\ UNCHANGED <<expired, call>>

Set(i) ==
    /\ WriteFree
    /\ lookup' = [lookup EXCEPT ![ItemKey[i]] = i]
    /\ UNCHANGED <<expired, call>>

Remove(k) ==
    /\ WriteFree
    /\ Present(k)
    /\ lookup' = Without({k})
    /\ UNCHANGED <<expired, call>>

(* A key taken by an entry that has expired counts as taken.               *)
Replace(old, i) ==
    /\ WriteFree
    /\ ItemKey[i] # old => ~Present(ItemKey[i]) /\ Present(old)
    /\ lookup' = [lookup EXCEPT ![old] = NoItem, ![ItemKey[i]] = i]
    /\ UNCHANGED <<expired, call>>

Clear ==
    /\ WriteFree
    /\ lookup' = Without(Keys)
    /\ UNCHANGED <<expired, call>>

Write ==
    \/ \E i \in Items : Add(i) \/ Set(i) \/ \E k \in Keys : Replace(k, i)
    \/ \E k \in Keys : Remove(k)
    \/ Clear

(* Time passes.                                                            *)
Expire(i) ==
    /\ i \in Expiring \ expired
    /\ expired' = expired \cup {i}
    /\ UNCHANGED <<lookup, call>>

-----------------------------------------------------------------------------
Return(t, i) ==
    call' = [call EXCEPT ![t] = [NoCall EXCEPT !.key = call[t].key,
                                 !.op = call[t].op, !.answer = i]]

(* In and Get: the entry is read under the lock,                           *)
Look(t, op, k) ==
    /\ At(t, "idle")
    /\ call' = [call EXCEPT ![t] = [NoCall EXCEPT !.op = op, !.key = k,
                    !.item = lookup[k],
                    !.step = IF Present(k) THEN "value" ELSE "idle"]]
    /\ UNCHANGED <<lookup, expired>>

(* A plausible bug: the entry that was found is taken to be live.          *)
TrustEntry(t) ==
    /\ At(t, "value")
    /\ Return(t, call[t].item)
    /\ UNCHANGED <<lookup, expired>>

(* then its value is asked for without the lock,                           *)
Value(t) ==
    /\ At(t, "value")
    /\ IF call[t].item \in expired
       THEN call' = [call EXCEPT ![t].step = "cleanup"]
       ELSE Return(t, call[t].item)
    /\ UNCHANGED <<lookup, expired>>

(* A plausible bug: cleanup does not look again at what it deletes.        *)
Delete(k) == lookup' = Without({k})

(* and what has expired is deleted, unless it has been overwritten.        *)
CleanUp(k) ==
    lookup' = IF Present(k) /\ lookup[k] \in expired
              THEN Without({k}) ELSE lookup

(* In answers false, Get hands out the item it found all the same.         *)
Cleanup(t) ==
    /\ At(t, "cleanup")
    /\ WriteFree
    /\ CleanUp(call[t].key)
    /\ Return(t, IF call[t].op = "Get" THEN call[t].item ELSE NoItem)
    /\ UNCHANGED expired

-----------------------------------------------------------------------------
(* Each visits the entries under the read lock, in any order, until its    *)
(* callback returns an error; the deferred clean-ups run after it.         *)
EachBegin(t) ==
    /\ At(t, "idle")
    /\ call' = [call EXCEPT ![t] = [NoCall EXCEPT !.op = "Each",
                    !.step = "each", !.rest = {k \in Keys : Present(k)}]]
    /\ UNCHANGED <<lookup, expired>>

Abort(c) == [c EXCEPT !.step = "sweep", !.rest = {}]

EachVisit(t, k) ==
    /\ At(t, "each")
    /\ k \in call[t].rest
    /\ LET c == [call[t] EXCEPT !.rest = @ \ {k}]
           d == [c EXCEPT !.seen = @ \cup {k}]
       IN  IF lookup[k] \in expired
           THEN call' = [call EXCEPT ![t] = [c EXCEPT !.stale = @ \cup {k}]]
           ELSE \E e \in {d, Abort(d)} : call' = [call EXCEPT ![t] = e]
    /\ UNCHANGED <<lookup, expired>>

EachEnd(t) ==
    /\ At(t, "each")
    /\ call[t].rest = {}
    /\ call' = [call EXCEPT ![t].step = "sweep"]
    /\ UNCHANGED <<lookup, expired>>

Sweep(t) ==
    /\ At(t, "sweep")
    /\ \/ \E k \in call[t].stale :
              /\ WriteFree
              /\ CleanUp(k)
              /\ call' = [call EXCEPT ![t].stale = @ \ {k}]
       \/ /\ call[t].stale = {}
          /\ Return(t, NoItem)
          /\ UNCHANGED lookup
    /\ UNCHANGED expired

Read(t) ==
    \/ \E op \in {"In", "Get"}, k \in Keys : Look(t, op, k)
    \/ Value(t) \/ Cleanup(t)
    \/ EachBegin(t) \/ (\E k \in call[t].rest : EachVisit(t, k))
    \/ EachEnd(t) \/ Sweep(t)

Next ==
    \/ Write
    \/ \E i \in Items : Expire(i)
    \/ \E t \in Threads : Read(t)

Spec == Init /\ [][Next]_vars

-----------------------------------------------------------------------------
(* A loop that has come to its end without an error has seen every entry   *)
(* that is live by then: nothing is added, moved or removed behind it      *)
(* (the iterations over the members and over the allowlist rely on it).    *)
EachComplete ==
    \A t \in Threads : At(t, "each") /\ call[t].rest = {} =>
        \A k \in Keys : Live(k) => k \in call[t].seen

(* Expiry and the clean-ups that go with reading are invisible: the map    *)
(* behaves like a set that drops an entry when its time has passed, and    *)
(* neither In and Get nor the clean-ups Each defers ever delete an entry   *)
(* that was renewed since they looked (Set.cleanup looks again under the   *)
(* write lock).                                                            *)
Timed == INSTANCE TimedSet WITH
    content <- [k \in Keys |-> IF Live(k) THEN lookup[k] ELSE NoItem],
    readers <- call

Transparent == Timed!Spec
=============================================================================
