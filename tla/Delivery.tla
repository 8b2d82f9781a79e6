------------------------------ MODULE Delivery ------------------------------
(***************************************************************************)
(* What each user has been sent, and in which order: Host with history     *)
(* variables that only observe it.                                         *)
(***************************************************************************)
EXTENDS Host

VARIABLES
    log,        \* every message ever added to the room's history
    place,      \* where in log the message is that a goroutine added, or 0
    handled,    \* the places in log Members.Each has gone through
    got,        \* every message ever buffered for a user
    spared,     \* the places in log Each skipped a user for, by its settings
    since       \* where in log the snapshot a joining user took starts

traceVars == <<log, place, handled, got, spared, since>>

TraceInit ==
    /\ Init
    /\ log = history
    /\ place = [t \in Threads |-> 0]
    /\ handled = DOMAIN history
    /\ got = [u \in Users |->
                 IF u \in Connected THEN {history[i] : i \in handled} ELSE {}]
    /\ spared = [u \in Users |-> {}]
    /\ since = [u \in Users |-> 1]

-----------------------------------------------------------------------------
(* What a step does, seen from outside.                                    *)
Records(t) == At(t, "record") /\ job'[t].step = "lock"
Unlocks(t) == At(t, "each") /\ job'[t].step = "idle"
Spares(t, u) == /\ At(t, "each")
                /\ \E k \in job[t].rest \ job'[t].rest : members[k] = u
                /\ Skips(u, t)

Arrived(u) == IF Len(inbox'[u]) > Len(inbox[u])
              THEN {inbox'[u][Len(inbox'[u])]} ELSE {}

LogRecorded ==
    \/ \E t \in Threads : Records(t) /\ log' = Append(log, job[t].msg)
    \/ (\A t \in Threads : ~Records(t)) /\ UNCHANGED log

Observe ==
    /\ LogRecorded
    /\ place' = [t \in Threads |-> IF Records(t) THEN Len(log) + 1
                                   ELSE IF job'[t].step = "idle" THEN 0
                                   ELSE place[t]]
    /\ handled' = handled \cup {place[t] : t \in {s \in Threads : Unlocks(s)}}
    /\ got' = [u \in Users |-> got[u] \cup Arrived(u)]
    /\ spared' = [u \in Users |->
           spared[u] \cup {place[t] : t \in {s \in Threads : Spares(s, u)}}]
    /\ since' = [u \in Users |->
           IF In(u, "history") /\ phase'[u] = "feed"
           THEN Len(log) - Len(history) + 1 ELSE since[u]]

TraceNext == Next /\ Observe
TraceSpec == TraceInit /\ [][TraceNext]_<<vars, traceVars>>

-----------------------------------------------------------------------------
Listening(u) == /\ InRoom(u)
                /\ phase[u] \notin {"history", "feed"}
                /\ u \notin done

(* A user that joins while messages are in flight misses none: of what the *)
(* room recorded from the start of its history snapshot on, everything the *)
(* members were sent has been sent to it too, unless it ignored the author *)
(* or was quiet when its turn came.  It holds because HandleMsg records    *)
(* before it visits and Join registers before it takes the snapshot.       *)
NoGapOnJoin ==
    \A u \in Users : Listening(u) =>
        \A i \in handled :
            i >= since[u] => log[i] \in got[u] \/ i \in spared[u]

(* What one user says in public reaches a listening user in the order it   *)
(* was typed, because Connect handles each line itself instead of passing  *)
(* it to Room.Send (the FIXME in the read loop).  The same message may     *)
(* come twice: from the snapshot and, if it was recorded but not visited   *)
(* when the snapshot was taken, from the room.                             *)
PublicInOrder ==
    [][\A u \in Users : Listening(u) =>
           \A m \in Arrived(u), o \in got[u] :
               m.kind = "public" /\ o.kind = "public" /\ m.by = o.by
                   => o.line <= m.line]_<<vars, traceVars>>
=============================================================================
