-------------------------------- MODULE Host --------------------------------
(***************************************************************************)
(* host.go: Host.Connect, run by one goroutine per connection, around the  *)
(* room.  It joins, reads lines until the terminal is closed, hands each   *)
(* to Room.HandleMsg, and leaves.                                          *)
(***************************************************************************)
EXTENDS Commands

CONSTANTS
    Dial,       \* the name each connection asks for
    Guest,      \* the Guest name each connection falls back to
    Present,    \* the users already connected, in the order they joined
    Quieted,    \* those of them that have already typed /quiet
    OpKeys,     \* the users whose key is listed for operators
    EnvUsers,   \* the users whose environment sets preferences
    Motd,       \* is there a message of the day
    Lines,      \* the lines each client may type
    MaxLines,   \* bound: how many of them each client types, its
                \* environment included
    HangUps,    \* the clients that may disconnect by themselves
    Flaky       \* the clients a write to may fail

Connected == {Present[i] : i \in DOMAIN Present}

ASSUME HostAssumption ==
    /\ Dial \in [Users -> Names] /\ Guest \in [Users -> Names]
    /\ Present \in Seq(Users)
    /\ \A u, v \in Connected : Key(Dial[u]) = Key(Dial[v]) => u = v
    /\ \A u \in Connected : Dial[u] # NoName
    /\ Quieted \subseteq Connected
    /\ Keyed \subseteq Users /\ OpKeys \subseteq Keyed
    /\ Motd \in BOOLEAN
    /\ Lines \in [Users -> SUBSET Line]
    /\ MaxLines \in [Users -> Nat]

VARIABLES
    phase,  \* where Connect is
    feed,   \* the history a joining user has still to be sent
    typed,  \* how many lines each client has typed, or had in its environment
    leaving \* the id Room.Leave has read, NoName before and after

hostVars == <<phase, feed, typed, leaving>>
vars == <<userVars, roomVars, opKeys, hostVars>>

Phases == {"offline", "motd", "join", "rejoin", "history", "feed", "announce",
           "env", "checkop", "grant", "reading", "leave", "left", "bye",
           "gone"}

TypeOK ==
    /\ UsersTypeOK
    /\ RoomTypeOK
    /\ opKeys \subseteq Keyed
    /\ phase \in [Users -> Phases]
    /\ feed \in [Users -> Seq(Msg)]
    /\ typed \in [Users -> Nat]
    /\ \A u \in Users : typed[u] <= MaxLines[u]
    /\ leaving \in [Users -> Names]

(* What a goroutine has at hand in each step: a message to handle, the     *)
(* user it acts on, something to send; and as long as it is inside         *)
(* Members.Each the keys it has yet to visit stay registered.              *)
TargetSteps == {"send", "rename", "setid", "commit", "replace", "revert",
                "muteOn", "muteOff", "opkey", "replyTo", "close"}

JobOK(j) ==
    /\ j.step # "idle" => j.msg \in Msg
    /\ j.step = "direct" => HasTo(j.msg)
    /\ j.step \in TargetSteps => j.who \in Users
    /\ j.step = "out" =>
           /\ j.out # <<>>
           /\ j.then \in {"idle", "replyTo", "close", "rename"}
           /\ j.then # "idle" => j.who \in Users
    /\ j.step = "each" => \A k \in j.rest : members[k] # NoUser

JobsConsistent == \A t \in Threads : JobOK(job[t])

Joined == [i \in DOMAIN Present |-> AnnounceMsg(Present[i], 0, 0)]
LastOf(s, n) == IF Len(s) <= n THEN s ELSE SubSeq(s, Len(s) - n + 1, Len(s))

(* The users of Present are connected and the room is quiet.               *)
Init ==
    /\ UsersInit(Connected, Dial, Quieted)
    /\ members = [n \in Names |->
           IF \E u \in Connected : Key(Dial[u]) = n
           THEN CHOOSE u \in Connected : Key(Dial[u]) = n
           ELSE NoUser]
    /\ muted = {}
    /\ isOp = Connected \cap OpKeys
    /\ history = LastOf(Joined, HistoryLen)
    /\ broadcast = <<>>
    /\ ready = {}
    /\ job = [t \in Threads |-> Idle]
    /\ opKeys = OpKeys
    /\ phase = [u \in Users |-> IF u \in Connected THEN "reading"
                                                   ELSE "offline"]
    /\ feed = [u \in Users |-> <<>>]
    /\ typed = [u \in Users |-> 0]
    /\ leaving = [u \in Users |-> NoName]

-----------------------------------------------------------------------------
In(u, p) == phase[u] = p
Enter(u, p) == phase' = [phase EXCEPT ![u] = p]

(* NewIdentity, NewUserScreen, go Consume.                                 *)
Arrive(u) ==
    /\ In(u, "offline")
    /\ consuming' = consuming \cup {u}
    /\ Enter(u, IF Motd THEN "motd" ELSE "join")
    /\ UNCHANGED <<id, inbox, done, settingVars, roomVars, opKeys, feed, typed,
                   leaving>>

SendMotd(u) ==
    /\ In(u, "motd")
    /\ SendTo(u, AnnounceMsg(u, 0, 2))
    /\ Enter(u, "join")
    /\ UNCHANGED <<id, settingVars, roomVars, opKeys, feed, typed, leaving>>

(* Room.Join up to Members.Add; an empty name or a name taken makes        *)
(* Connect try again, once, under the Guest name.                          *)
JoinFails(u) == id[u] = NoName \/ ~CanAdd(id[u])

Join(u) ==
    /\ In(u, "join") \/ In(u, "rejoin")
    /\ WriteFree \/ id[u] = NoName
    /\ \/ /\ ~JoinFails(u)
          /\ members' = Added(id[u], u)
          /\ Enter(u, "history")
          /\ UNCHANGED id
       \/ /\ JoinFails(u) /\ In(u, "join")
          /\ id' = [id EXCEPT ![u] = Guest[u]]
          /\ Enter(u, "rejoin")
          /\ UNCHANGED members
       \/ /\ JoinFails(u) /\ In(u, "rejoin")
          /\ Enter(u, "bye")
          /\ UNCHANGED <<id, members>>
    /\ UNCHANGED <<pipeVars, settingVars, muted, isOp, history, queueVars, job,
                   opKeys, feed, typed, leaving>>

(* A plausible bug: the newest entry is missing from the snapshot.         *)
GetOlder(u) ==
    /\ In(u, "history")
    /\ feed' = [feed EXCEPT ![u] = SubSeq(history, 1, Len(history) - 1)]
    /\ Enter(u, "feed")
    /\ UNCHANGED <<userVars, roomVars, opKeys, typed, leaving>>

(* Room.History: a snapshot, then one Send for each of its messages.       *)
GetHistory(u) ==
    /\ In(u, "history")
    /\ feed' = [feed EXCEPT ![u] = history]
    /\ Enter(u, "feed")
    /\ UNCHANGED <<userVars, roomVars, opKeys, typed, leaving>>

Feed(u) ==
    /\ In(u, "feed")
    /\ \/ /\ feed[u] # <<>>
          /\ SendTo(u, Head(feed[u]))
          /\ feed' = [feed EXCEPT ![u] = Tail(@)]
          /\ UNCHANGED phase
       \/ /\ feed[u] = <<>>
          /\ Enter(u, "announce")
          /\ UNCHANGED <<pipeVars, feed>>
    /\ UNCHANGED <<id, settingVars, roomVars, opKeys, typed, leaving>>

AnnounceJoin(u) ==
    /\ In(u, "announce")
    /\ RoomSend(AnnounceMsg(u, 0, 0))
    /\ Enter(u, "env")
    /\ UNCHANGED <<userVars, memberVars, history, job, opKeys, feed, typed,
                   leaving>>

(* Each preference in the environment is run, one after the other, as the  *)
(* command that sets it, or that fails to.                                 *)
RunEnv(u) ==
    LET n == typed[u] + 1
    IN  /\ In(u, "env")
        /\ At(u, "idle")
        /\ \/ /\ u \in EnvUsers /\ n <= MaxLines[u]
              /\ typed' = [typed EXCEPT ![u] = n]
              /\ \E c \in {"info", "bad"} :
                     Begin(u, CommandMsg(u, n), [NoLine EXCEPT !.cmd = c])
              /\ UNCHANGED phase
           \/ /\ Enter(u, "checkop")
              /\ UNCHANGED <<job, typed>>
        /\ UNCHANGED <<userVars, memberVars, history, queueVars, opKeys, feed,
                       leaving>>

(* The key is looked up in the Auth, then the flag is set.                 *)
CheckOp(u) ==
    /\ In(u, "checkop")
    /\ Enter(u, IF u \in opKeys THEN "grant" ELSE "reading")
    /\ UNCHANGED <<userVars, roomVars, opKeys, feed, typed, leaving>>

GrantOp(u) ==
    /\ In(u, "grant")
    /\ isOp' = isOp \cup {u}
    /\ Enter(u, "reading")
    /\ UNCHANGED <<userVars, members, muted, history, queueVars, job, opKeys,
                   feed, typed, leaving>>

-----------------------------------------------------------------------------
(* The read loop.  A line that passes the limits is handled to the end     *)
(* before the next one is read; one that does not is answered directly.  A *)
(* command is echoed on the terminal first, by a write that may fail.      *)
Echo(u) == UNCHANGED pipeVars \/ (u \in Flaky /\ Close(u))

(* A plausible bug: public text is posted to the room instead of handled.  *)
PostLine(u, l) ==
    LET n == typed[u] + 1
    IN  /\ In(u, "reading")
        /\ At(u, "idle")
        /\ n <= MaxLines[u]
        /\ typed' = [typed EXCEPT ![u] = n]
        /\ \/ /\ l.cmd = "say"
              /\ RoomSend(PublicMsg(u, n))
              /\ UNCHANGED <<job, pipeVars>>
           \/ /\ l.cmd # "say"
              /\ Begin(u, CommandMsg(u, n), l)
              /\ UNCHANGED <<pipeVars, queueVars>>
        /\ UNCHANGED <<id, settingVars, memberVars, history, opKeys, phase,
                       feed, leaving>>

ReadLine(u, l) ==
    LET n == typed[u] + 1
    IN  /\ In(u, "reading")
        /\ At(u, "idle")
        /\ n <= MaxLines[u]
        /\ typed' = [typed EXCEPT ![u] = n]
        /\ \/ /\ l.cmd = "reject"
              /\ job' = [job EXCEPT ![u] = [Idle EXCEPT !.step = "send",
                             !.msg = SystemMsg(u, u, n, 0), !.who = u]]
              /\ UNCHANGED pipeVars
           \/ /\ l.cmd = "say"
              /\ Begin(u, PublicMsg(u, n), l)
              /\ UNCHANGED pipeVars
           \/ /\ l.cmd \notin {"say", "reject"}
              /\ Begin(u, CommandMsg(u, n), l)
              /\ Echo(u)
        /\ UNCHANGED <<id, settingVars, memberVars, history, queueVars, opKeys,
                       phase, feed, leaving>>

(* A plausible bug: a closed user's terminal stays open.                   *)
EndOnHangUp(u) ==
    /\ In(u, "reading")
    /\ At(u, "idle")
    /\ u \in HangUps
    /\ leaving' = [leaving EXCEPT ![u] = id[u]]
    /\ Enter(u, "leave")
    /\ UNCHANGED <<userVars, roomVars, opKeys, feed, typed>>

(* ReadLine fails, as the terminal was closed or the client disconnected,  *)
(* and Room.Leave reads the name the user has now.                         *)
EndOfInput(u) ==
    /\ In(u, "reading")
    /\ At(u, "idle")
    /\ u \in done \cup HangUps
    /\ leaving' = [leaving EXCEPT ![u] = id[u]]
    /\ Enter(u, "leave")
    /\ UNCHANGED <<userVars, roomVars, opKeys, feed, typed>>

(* Then it waits for the lock and removes whoever holds that name.         *)
Leave(u) ==
    /\ In(u, "leave")
    /\ WriteFree
    /\ members' = Removed(leaving[u])
    /\ leaving' = [leaving EXCEPT ![u] = NoName]
    /\ Enter(u, IF Get(leaving[u]) = NoUser THEN "bye" ELSE "left")
    /\ UNCHANGED <<userVars, muted, isOp, history, queueVars, job, opKeys,
                   feed, typed>>

AnnounceLeave(u) ==
    /\ In(u, "left")
    /\ RoomSend(AnnounceMsg(u, 0, 1))
    /\ Enter(u, "bye")
    /\ UNCHANGED <<userVars, memberVars, history, job, opKeys, feed, typed,
                   leaving>>

(* The deferred term.Close and user.Close.                                 *)
Disconnect(u) ==
    /\ In(u, "bye")
    /\ Close(u)
    /\ Enter(u, "gone")
    /\ UNCHANGED <<id, settingVars, roomVars, opKeys, feed, typed, leaving>>

Connect(u) ==
    \/ Arrive(u) \/ SendMotd(u) \/ Join(u) \/ GetHistory(u) \/ Feed(u)
    \/ AnnounceJoin(u) \/ RunEnv(u) \/ CheckOp(u) \/ GrantOp(u)
    \/ \E l \in Lines[u] : ReadLine(u, l)
    \/ EndOfInput(u) \/ Leave(u) \/ AnnounceLeave(u) \/ Disconnect(u)

-----------------------------------------------------------------------------
Screen(u) ==
    /\ Consume(u) \/ ConsumeStops(u) \/ (u \in Flaky /\ WriteFails(u))
    /\ UNCHANGED <<id, settingVars, roomVars, opKeys, hostVars>>

Dispatch ==
    \/ Serve
    \/ \E t \in Tasks : \E m \in ready : StartTask(t, m)

(* Every goroutine has come to rest: only new connections could follow.    *)
Quiescent ==
    /\ \A t \in Threads : At(t, "idle")
    /\ broadcast = <<>> /\ ready = {}
    /\ \A u \in Users :
           \/ In(u, "gone") /\ u \notin consuming
           \/ /\ In(u, "reading")
              /\ u \in consuming => inbox[u] = <<>>
              /\ Lines[u] = {} \/ typed[u] = MaxLines[u]

Rest == Quiescent /\ UNCHANGED vars

Next ==
    \/ Dispatch /\ UNCHANGED <<opKeys, hostVars>>
    \/ \E t \in Threads : HandleMsg(t) /\ UNCHANGED <<opKeys, hostVars>>
    \/ \E u \in Users : RunCommand(u) /\ UNCHANGED hostVars
    \/ \E u \in Users : Connect(u)
    \/ \E u \in Users : Screen(u)
    \/ Rest

Spec == Init /\ [][Next]_vars

-----------------------------------------------------------------------------
(* A user is in the room from Members.Add to Members.Remove.  Between its  *)
(* SetID and the end of a rename its own goroutine is running, the name it *)
(* is registered under is the old one.                                     *)
InRoom(u) == phase[u] \in Phases \ {"offline", "motd", "join", "rejoin",
                                    "left", "bye", "gone"}
Renaming(u) == job[u].step \in {"commit", "replace", "revert"}
RegisteredID(u) == IF Renaming(u) THEN job[u].old ELSE id[u]
Holds(u) == {n \in Names : members[n] = u}

(* Whatever joins, renames and leaves overlap, a user in the room holds    *)
(* exactly one name of the registry, the normalised form of its own, and a *)
(* user outside holds none: Room.Join, Leave and the /nick handler, which  *)
(* moves the identity and the registry in separate steps.  It needs that   *)
(* no operator uses /rename (see GoneForGood).                             *)
RegistryConsistent ==
    \A u \in Users :
        Holds(u) = IF InRoom(u) THEN {Key(RegisteredID(u))} ELSE {}

(* A private message is buffered for nobody but its sender and its         *)
(* recipient, a system message for nobody but its recipient, whatever the  *)
(* mute and ignore checks of HandleMsg do with it on the way.              *)
PrivateStaysPrivate ==
    \A u \in Users : \A i \in DOMAIN inbox[u] :
        LET m == inbox[u][i]
        IN  /\ m.kind = "system" => u = m.to
            /\ m.kind = "private" => u \in {m.by, m.to}

(* Once Connect has left the room for a user, nothing of it stays behind   *)
(* in the registry.                                                        *)
GoneForGood == \A u \in Users : In(u, "gone") => Holds(u) = {}

-----------------------------------------------------------------------------
(* Fairness.  Goroutines are scheduled, so each one takes its next step    *)
(* when it can; a writer of the registry gets the lock although readers    *)
(* keep coming, as sync.RWMutex holds new readers back while a writer      *)
(* waits.  Nothing is assumed of the clients: they need not read, type or  *)
(* hang up.                                                                *)
Proceed(u) ==
    \/ SendMotd(u) \/ Join(u) \/ GetHistory(u) \/ Feed(u)
    \/ AnnounceJoin(u) \/ RunEnv(u) \/ CheckOp(u) \/ GrantOp(u)
    \/ (u \in done /\ EndOfInput(u))
    \/ Leave(u) \/ AnnounceLeave(u) \/ Disconnect(u)

Fairness ==
    /\ WF_vars(Serve /\ UNCHANGED <<opKeys, hostVars>>)
    /\ \A t \in Tasks :
           WF_vars(/\ \E m \in ready : StartTask(t, m)
                   /\ UNCHANGED <<opKeys, hostVars>>)
    /\ \A t \in Threads :
           WF_vars(HandleMsg(t) /\ UNCHANGED <<opKeys, hostVars>>)
    /\ \A u \in Users :
           /\ SF_vars(RunCommand(u) /\ UNCHANGED hostVars)
           /\ SF_vars(Proceed(u))

FairSpec == Spec /\ Fairness

(* Even if some client never reads, every message given to a goroutine is  *)
(* handled to the end and the queues of the room run empty: the timeout of *)
(* User.Send bounds every wait inside Members.Each.                        *)
RoomDrains == <>[](/\ broadcast = <<>> /\ ready = {}
                   /\ \A t \in Threads : At(t, "idle"))

(* A user that was closed, by /exit, /kick, a failed write or the timeout, *)
(* leaves the room and its Connect ends.                                   *)
ClosedLeaves == \A u \in Users : u \in done ~> In(u, "gone")
=============================================================================
