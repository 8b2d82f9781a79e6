-------------------------------- MODULE Room --------------------------------
(***************************************************************************)
(* chat/room.go on top of set/set.go: the registry of members, the         *)
(* broadcast channel with its Serve loop, and HandleMsg, run step by step  *)
(* by the goroutines that call it: the Connect goroutine of each user, and *)
(* the goroutines spawned with "go HandleMsg".                             *)
(*                                                                         *)
(* One step is one access to shared state (a registry operation under its  *)
(* lock, a channel operation, a read or write of an identity) with the     *)
(* local work next to it.                                                  *)
(***************************************************************************)
EXTENDS Users, FiniteSets

CONSTANTS Tasks,        \* goroutines of "go HandleMsg" running at a time
          RoomBuffer,   \* roomBuffer
          HistoryLen    \* historyLen

ASSUME RoomAssumption ==
    /\ RoomBuffer \in Nat \ {0}
    /\ HistoryLen \in Nat \ {0}
    /\ Tasks \cap (Users \cup {NoUser}) = {}

VARIABLES
    members,    \* Room.Members: normalised name -> user, NoUser if absent
    muted,      \* the users whose Member.isMuted is set
    isOp,       \* the users whose Member.IsOp is set
    history,    \* Room.history, the last HistoryLen messages
    broadcast,  \* Room.broadcast, the buffered channel
    ready,      \* messages whose "go HandleMsg" has not started yet
    job         \* what each goroutine is doing inside HandleMsg

memberVars == <<members, muted, isOp>>
queueVars == <<broadcast, ready>>
roomVars == <<memberVars, history, queueVars, job>>

Threads == Users \cup Tasks

HandleSteps == {"idle", "lookup", "direct", "send", "record", "lock", "each"}
CommandSteps == {"run", "act", "rename", "setid", "commit", "replace",
                 "revert", "muteOn", "muteOff", "opkey", "out", "replyTo",
                 "close"}
Steps == HandleSteps \cup CommandSteps

NoMsg == [kind |-> "none", by |-> NoUser, to |-> NoUser,
          line |-> 0, part |-> 0]

(* msg: the message handled; from: fromID; line: the command's arguments;  *)
(* who: the user found; old: oldID of a rename; now: the id Room.Rename    *)
(* has read; rest: the keys Each has yet to visit; out: what a handler     *)
(* still sends to the room; then: the step after that.                     *)
Job == [step : Steps, msg : Msg \cup {NoMsg}, from : Names, line : Line,
        who : Users \cup {NoUser}, old : Names, now : Names,
        rest : SUBSET Names, out : Seq(Msg), then : Steps]

Idle == [step |-> "idle", msg |-> NoMsg, from |-> NoName, line |-> NoLine,
         who |-> NoUser, old |-> NoName, now |-> NoName, rest |-> {},
         out |-> <<>>, then |-> "idle"]

RoomTypeOK ==
    /\ members \in [Names -> Users \cup {NoUser}]
    /\ muted \subseteq Users
    /\ isOp \subseteq Users
    /\ history \in Seq(Msg)
    /\ Len(history) <= HistoryLen
    /\ broadcast \in Seq(Msg)
    /\ Len(broadcast) <= RoomBuffer
    /\ ready \subseteq Msg
    /\ job \in [Threads -> Job]

-----------------------------------------------------------------------------
(* set.Set: every operation is atomic under the set's RWMutex.  Each holds *)
(* the read lock while its callback runs, so writers wait for it.          *)
Get(n) == members[Key(n)]

(* A plausible bug: a writer that does not take the lock.                  *)
NoLock == TRUE
WriteFree == \A t \in Threads : job[t].step # "each"

CanAdd(n) == Get(n) = NoUser
Added(n, u) == [members EXCEPT ![Key(n)] = u]
Removed(n) == [members EXCEPT ![Key(n)] = NoUser]

(* A plausible bug: a rename to a name that is taken is let through.       *)
ReplaceTaken(old, new) == Key(new) = Key(old) \/ Get(old) # NoUser

(* Replace inserts without looking when the key stays the same.            *)
CanReplace(old, new) ==
    \/ Key(new) = Key(old)
    \/ Get(new) = NoUser /\ Get(old) # NoUser
Replaced(old, new, u) ==
    [members EXCEPT ![Key(old)] = NoUser, ![Key(new)] = u]

-----------------------------------------------------------------------------
(* Room.Send waits for a place in the channel; Serve starts a goroutine    *)
(* for each message it takes out.                                          *)
RoomSend(m) ==
    /\ Len(broadcast) < RoomBuffer
    /\ broadcast' = Append(broadcast, m)
    /\ UNCHANGED ready

Spawn(m) ==
    /\ ready' = ready \cup {m}
    /\ UNCHANGED broadcast

Serve ==
    /\ broadcast # <<>>
    /\ ready' = ready \cup {Head(broadcast)}
    /\ broadcast' = Tail(broadcast)
    /\ UNCHANGED <<userVars, memberVars, history, job>>

-----------------------------------------------------------------------------
Goto(t, s) == job' = [job EXCEPT ![t].step = s]
Found(t, s, u) == job' = [job EXCEPT ![t].step = s, ![t].who = u]
Finish(t) == job' = [job EXCEPT ![t] = Idle]
At(t, s) == job[t].step = s

(* A plausible bug: the switch knows one kind of direct message only.       *)
BranchSystem(m) ==
    IF m.kind = "command" THEN "run"
    ELSE IF m.kind = "system" THEN "direct" ELSE "record"

(* The type switch of HandleMsg.                                           *)
Branch(m) ==
    IF m.kind = "command" THEN "run"
    ELSE IF HasTo(m) THEN "direct" ELSE "record"

FromID(m) == IF HasFrom(m) THEN id[m.by] ELSE NoName

(* HandleMsg is called: it reads the sender's id.                          *)
Begin(t, m, l) ==
    /\ At(t, "idle")
    /\ job' = [job EXCEPT ![t] =
                [Idle EXCEPT !.msg = m, !.line = l, !.from = FromID(m),
                    !.step = IF FromID(m) = NoName THEN Branch(m)
                                                   ELSE "lookup"]]

StartTask(t, m) ==
    /\ m \in ready
    /\ Begin(t, m, NoLine)
    /\ ready' = ready \ {m}
    /\ UNCHANGED <<userVars, memberVars, history, broadcast>>

(* A plausible bug: of a muted member only public text is held back.       *)
LookupPublic(t) ==
    LET m == job[t].msg
        u == Get(job[t].from)
    IN  /\ At(t, "lookup")
        /\ \/ u = NoUser /\ Finish(t)
           \/ u \in muted /\ m.kind = "public" /\ Found(t, "send", u)
           \/ u # NoUser /\ ~(u \in muted /\ m.kind = "public")
              /\ Goto(t, Branch(m))
        /\ UNCHANGED <<userVars, memberVars, history, queueVars>>

(* The member found under the sender's id decides: a message of a          *)
(* non-member is dropped, a muted member's goes to that member alone and   *)
(* a muted member's command is dropped.                                    *)
Lookup(t) ==
    LET m == job[t].msg
        u == Get(job[t].from)
    IN  /\ At(t, "lookup")
        /\ \/ u = NoUser /\ Finish(t)
           \/ u \in muted /\ m.kind = "command" /\ Finish(t)
           \/ u \in muted /\ m.kind # "command" /\ Found(t, "send", u)
           \/ u # NoUser /\ u \notin muted /\ Goto(t, Branch(m))
        /\ UNCHANGED <<userVars, memberVars, history, queueVars>>

Ignores(u, n) == Key(n) \in ignored[u]

(* A MessageTo goes to its recipient, unless the sender's name is ignored. *)
Direct(t) ==
    LET u == job[t].msg.to
    IN  /\ At(t, "direct")
        /\ IF Ignores(u, job[t].from) THEN Finish(t) ELSE Found(t, "send", u)
        /\ UNCHANGED <<userVars, memberVars, history, queueVars>>

Deliver(t) ==
    /\ At(t, "send")
    /\ SendTo(job[t].who, job[t].msg)
    /\ Finish(t)
    /\ UNCHANGED <<id, settingVars, memberVars, history, queueVars>>

-----------------------------------------------------------------------------
(* A plausible bug: one entry too many is kept.                            *)
RememberOneMore(m) ==
    history' = IF Len(history) <= HistoryLen
               THEN Append(history, m)
               ELSE Append(Tail(history), m)

(* history.Add: the oldest entry makes room for the new one.               *)
Remember(m) ==
    history' = IF Len(history) < HistoryLen
               THEN Append(history, m)
               ELSE Append(Tail(history), m)

Record(t) ==
    /\ At(t, "record")
    /\ Remember(job[t].msg)
    /\ Goto(t, "lock")
    /\ UNCHANGED <<userVars, memberVars, queueVars>>

(* Members.Each takes the read lock; the registry stays as it is until the *)
(* loop ends.                                                              *)
Lock(t) ==
    /\ At(t, "lock")
    /\ job' = [job EXCEPT ![t].step = "each",
                          ![t].rest = {k \in Names : members[k] # NoUser}]
    /\ UNCHANGED <<userVars, memberVars, history, queueVars>>

(* A plausible bug: the loop over the members does not look at /ignore.    *)
SkipsQuiet(u, t) == job[t].msg.kind = "announce" /\ u \in quiet

Skips(u, t) ==
    \/ Ignores(u, job[t].from)
    \/ job[t].msg.kind = "announce" /\ u \in quiet

(* One turn of the loop, in any order: the member is skipped, gets the     *)
(* message at once, or has a full channel and makes the loop wait.         *)
Visit(t, k) ==
    LET u == members[k]
    IN  /\ At(t, "each")
        /\ job[t].who = NoUser
        /\ k \in job[t].rest
        /\ \/ /\ Skips(u, t)
              /\ job' = [job EXCEPT ![t].rest = @ \ {k}]
              /\ UNCHANGED pipeVars
           \/ /\ ~Skips(u, t)
              /\ SendNow(u, job[t].msg)
              /\ job' = [job EXCEPT ![t].rest = @ \ {k}]
           \/ /\ ~Skips(u, t)
              /\ MustWait(u)
              /\ job' = [job EXCEPT ![t].rest = @ \ {k}, ![t].who = u]
              /\ UNCHANGED pipeVars
        /\ UNCHANGED <<id, settingVars, memberVars, history, queueVars>>

(* The send the loop waits for completes or times out.                     *)
Unblock(t) ==
    /\ At(t, "each")
    /\ job[t].who # NoUser
    /\ SendTo(job[t].who, job[t].msg)
    /\ job' = [job EXCEPT ![t].who = NoUser]
    /\ UNCHANGED <<id, settingVars, memberVars, history, queueVars>>

Unlock(t) ==
    /\ At(t, "each")
    /\ job[t].who = NoUser
    /\ job[t].rest = {}
    /\ Finish(t)
    /\ UNCHANGED <<userVars, memberVars, history, queueVars>>

HandleMsg(t) ==
    \/ Lookup(t) \/ Direct(t) \/ Deliver(t) \/ Record(t) \/ Lock(t)
    \/ \E k \in job[t].rest : Visit(t, k)
    \/ Unblock(t) \/ Unlock(t)

-----------------------------------------------------------------------------
(* Room.Member and Room.IsOp: the member found under the user's own id has *)
(* to be that user.                                                        *)
IsMember(u) == Get(id[u]) = u
IsOp(u) == IsMember(u) /\ u \in isOp
=============================================================================
