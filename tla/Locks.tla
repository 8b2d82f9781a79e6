-------------------------------- MODULE Locks --------------------------------
(***************************************************************************)
(* Who waits for whom: the locks of the sets, of the settings of Auth and  *)
(* of the users, in the order in which each handler takes and releases     *)
(* them.  What the handlers do in between is in Room and Auth.             *)
(***************************************************************************)
EXTENDS Integers, Sequences

CONSTANTS Goroutines, Nobody,
          Running       \* the names of the handlers in use

ASSUME LocksAssumption == Nobody \notin Goroutines

VARIABLES handler,      \* what each goroutine runs
          pc,           \* how far it has come
          readers,      \* who holds the read lock
          writer        \* who holds the lock or waits for the readers

vars == <<handler, pc, readers, writer>>

Locks == {"members", "allowlist", "settings", "ops", "ignored", "alice", "bob"}

Do(op, l) == <<[op |-> op, lock |-> l]>>
Reading(l, body) == Do("RLock", l) \o body \o Do("RUnlock", l)
Writing(l, body) == Do("Lock", l) \o body \o Do("Unlock", l)
Read(l) == Reading(l, <<>>)
Write(l) == Writing(l, <<>>)

CheckPublicKey == Read("allowlist") \o Read("settings") \o Read("ops")
Join == Write("members")
Ignore == Read("members") \o Write("ignored")
Broadcast == Read("members") \o Reading("members", Read("ignored"))
SetMode == Write("settings")
Add == Read("members") \o Write("allowlist")
Op == Read("members") \o Write("ops")
Import == Reading("members", Write("allowlist"))
Reload == Write("allowlist") \o Reading("settings", Write("allowlist"))
(* A plausible bug: who is not allowed is removed inside the loop.         *)
ReverifyLeave == Read("settings") \o Reading("members", CheckPublicKey \o Join)
Reverify == Read("settings") \o Reading("members", CheckPublicKey)
Status == Read("settings") \o Reading("allowlist", Read("members"))

(* Two users to be sorted, in the order in which the map gave them.        *)
Less(a, b) == Writing(a, Write(b))
Complete(a, b) == Read("members") \o Less(a, b)

Body == [join |-> Join, ignore |-> Ignore, broadcast |-> Broadcast,
         handshake |-> CheckPublicKey, mode |-> SetMode, add |-> Add,
         op |-> Op, import |-> Import, reload |-> Reload,
         reverify |-> Reverify, status |-> Status,
         complete |-> Complete("alice", "bob"),
         completeSwapped |-> Complete("bob", "alice")]

Init ==
    /\ handler \in [Goroutines -> Running]
    /\ pc = [g \in Goroutines |-> 1]
    /\ readers = [l \in Locks |-> {}]
    /\ writer = [l \in Locks |-> Nobody]

Returned(g) == pc[g] > Len(Body[handler[g]])
NextIs(g, op) == ~Returned(g) /\ Body[handler[g]][pc[g]].op = op
Lock(g) == Body[handler[g]][pc[g]].lock
Advance(g) == pc' = [pc EXCEPT ![g] = @ + 1] /\ UNCHANGED handler

(* sync.RWMutex: new readers wait for a writer that waits for the old ones.*)
RLock(g) ==
    /\ NextIs(g, "RLock")
    /\ writer[Lock(g)] = Nobody
    /\ readers' = [readers EXCEPT ![Lock(g)] = @ \cup {g}]
    /\ Advance(g) /\ UNCHANGED writer

RUnlock(g) ==
    /\ NextIs(g, "RUnlock")
    /\ readers' = [readers EXCEPT ![Lock(g)] = @ \ {g}]
    /\ Advance(g) /\ UNCHANGED writer

Announce(g) ==
    /\ NextIs(g, "Lock")
    /\ writer[Lock(g)] = Nobody
    /\ writer' = [writer EXCEPT ![Lock(g)] = g]
    /\ UNCHANGED <<handler, pc, readers>>

Acquire(g) ==
    /\ NextIs(g, "Lock")
    /\ writer[Lock(g)] = g /\ readers[Lock(g)] = {}
    /\ Advance(g) /\ UNCHANGED <<readers, writer>>

Unlock(g) ==
    /\ NextIs(g, "Unlock")
    /\ writer' = [writer EXCEPT ![Lock(g)] = Nobody]
    /\ Advance(g) /\ UNCHANGED readers

Run(g) == RLock(g) \/ RUnlock(g) \/ Announce(g) \/ Acquire(g) \/ Unlock(g)

Next == \E g \in Goroutines : Run(g)

Spec == Init /\ [][Next]_vars /\ \A g \in Goroutines : WF_vars(Run(g))

-----------------------------------------------------------------------------
(* Whatever handlers meet, in whatever order, each of them returns: nobody *)
(* waits for somebody who waits for him.                                   *)
EverybodyReturns == <>(\A g \in Goroutines : Returned(g))
=============================================================================
