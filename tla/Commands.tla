------------------------------ MODULE Commands ------------------------------
(***************************************************************************)
(* The command handlers of chat/command.go and host.go.  A command runs in *)
(* the Connect goroutine of the user that typed it, as part of HandleMsg;  *)
(* what it posts goes through Room.Send, an error it returns is answered   *)
(* by a HandleMsg goroutine of its own.                                    *)
(***************************************************************************)
EXTENDS Room

CONSTANT Keyed      \* the users that connected with a public key

VARIABLE opKeys     \* Auth.ops, by the user that holds the key

-----------------------------------------------------------------------------
LineNo(u) == job[u].msg.line
Arg(u) == job[u].line.arg
New(u) == job[u].line.new
Runs(u, c) == At(u, "run") /\ job[u].line.cmd = c
Acts(u, c) == At(u, "act") /\ job[u].line.cmd = c

(* The handler returns an error.                                           *)
Fail(u) ==
    /\ Spawn(SystemMsg(u, u, LineNo(u), 1))
    /\ Finish(u)

(* The handler has only these messages left to send.                       *)
Post(u, out) ==
    job' = [job EXCEPT ![u] = [@ EXCEPT !.step = "out", !.out = out,
                                        !.then = "idle"]]

(* The handler sends these messages, then goes on with a step on v.        *)
PostThen(u, out, v, s) ==
    job' = [job EXCEPT ![u] = [@ EXCEPT !.step = "out", !.out = out,
                                        !.then = s, !.who = v]]

Reply(u) == SystemMsg(u, u, LineNo(u), 0)

SendOut(u) ==
    LET out == job[u].out
    IN  /\ At(u, "out")
        /\ RoomSend(Head(out))
        /\ IF Len(out) > 1 THEN job' = [job EXCEPT ![u].out = Tail(out)]
           ELSE IF job[u].then = "idle" THEN Finish(u)
           ELSE job' = [job EXCEPT ![u] = [@ EXCEPT !.step = job[u].then,
                                           !.out = <<>>, !.then = "idle"]]
        /\ UNCHANGED <<userVars, memberVars, history, opKeys>>

-----------------------------------------------------------------------------
(* Handlers that look at nothing shared before they answer.                *)
Bad(u) ==
    /\ Runs(u, "bad")
    /\ Fail(u)
    /\ UNCHANGED <<userVars, memberVars, history, opKeys>>

Info(u) ==
    /\ Runs(u, "info")
    /\ Post(u, <<Reply(u)>>)
    /\ UNCHANGED <<userVars, memberVars, history, queueVars, opKeys>>

Emote(u) ==
    /\ Runs(u, "emote")
    /\ Post(u, <<EmoteMsg(u, LineNo(u))>>)
    /\ UNCHANGED <<userVars, memberVars, history, queueVars, opKeys>>

Exit(u) ==
    /\ Runs(u, "exit")
    /\ Close(u)
    /\ Finish(u)
    /\ UNCHANGED <<id, settingVars, memberVars, history, queueVars, opKeys>>

ToggleQuiet(u) ==
    /\ Runs(u, "quiet")
    /\ quiet' = IF u \in quiet THEN quiet \ {u} ELSE quiet \cup {u}
    /\ Post(u, <<Reply(u)>>)
    /\ UNCHANGED <<id, pipeVars, ignored, replyTo, memberVars, history,
                   queueVars, opKeys>>

(* The ignored set is keyed by the name typed, not by the user behind it.  *)
Ignore(u) ==
    LET n == Arg(u)
    IN  /\ Runs(u, "ignore")
        /\ \/ /\ n = id[u] \/ Get(n) = NoUser \/ Ignores(u, n)
              /\ Fail(u)
              /\ UNCHANGED ignored
           \/ /\ n # id[u] /\ Get(n) # NoUser /\ ~Ignores(u, n)
              /\ ignored' = [ignored EXCEPT ![u] = @ \cup {Key(n)}]
              /\ Post(u, <<Reply(u)>>)
              /\ UNCHANGED queueVars
        /\ UNCHANGED <<id, pipeVars, quiet, replyTo, memberVars, history,
                       opKeys>>

Unignore(u) ==
    /\ Runs(u, "unignore")
    /\ \/ /\ ~Ignores(u, Arg(u))
          /\ Fail(u)
          /\ UNCHANGED ignored
       \/ /\ Ignores(u, Arg(u))
          /\ ignored' = [ignored EXCEPT ![u] = @ \ {Key(Arg(u))}]
          /\ Post(u, <<Reply(u)>>)
          /\ UNCHANGED queueVars
    /\ UNCHANGED <<id, pipeVars, quiet, replyTo, memberVars, history, opKeys>>

-----------------------------------------------------------------------------
(* sendPM: the message, a confirmation, then the target may /reply.        *)
SendPM(u, v) ==
    PostThen(u, <<PrivateMsg(u, v, LineNo(u)), Reply(u)>>, v, "replyTo")

PrivateTo(u) ==
    LET v == Get(Arg(u))
    IN  /\ Runs(u, "msg")
        /\ \/ v = NoUser /\ Fail(u)
           \/ v # NoUser /\ SendPM(u, v) /\ UNCHANGED queueVars
        /\ UNCHANGED <<userVars, memberVars, history, opKeys>>

(* /reply only checks that somebody goes by the name its target has now.   *)
ReplyBack(u) ==
    LET v == replyTo[u]
        found == v # NoUser /\ Get(id[v]) # NoUser
    IN  /\ Runs(u, "reply")
        /\ \/ ~found /\ Fail(u)
           \/ found /\ SendPM(u, v) /\ UNCHANGED queueVars
        /\ UNCHANGED <<userVars, memberVars, history, opKeys>>

SetReplyTo(u) ==
    /\ At(u, "replyTo")
    /\ replyTo' = [replyTo EXCEPT ![job[u].who] = u]
    /\ Finish(u)
    /\ UNCHANGED <<id, pipeVars, quiet, ignored, memberVars, history,
                   queueVars, opKeys>>

-----------------------------------------------------------------------------
(* /nick and the second half of /rename: SetID on the user, Room.Rename    *)
(* under the name it has then, SetID back if that fails.                   *)
StartRename(u, v) ==
    job' = [job EXCEPT ![u] = [@ EXCEPT !.step = "setid", !.who = v,
                                        !.old = id[v]]]

Nick(u) ==
    LET v == Get(id[u])
        refused == v = NoUser \/ New(u) = id[v]
    IN  /\ Runs(u, "nick")
        /\ \/ refused /\ Fail(u)
           \/ ~refused /\ StartRename(u, v) /\ UNCHANGED queueVars
        /\ UNCHANGED <<userVars, memberVars, history, opKeys>>

SetID(u) ==
    /\ At(u, "setid")
    /\ id' = [id EXCEPT ![job[u].who] = New(u)]
    /\ Goto(u, "commit")
    /\ UNCHANGED <<pipeVars, settingVars, memberVars, history, queueVars,
                   opKeys>>

Renames(u) ==
    IF job[u].line.cmd = "nick" THEN <<AnnounceMsg(u, LineNo(u), 2)>>
    ELSE <<AnnounceMsg(u, LineNo(u), 2), AnnounceMsg(u, LineNo(u), 3)>>

(* Room.Rename reads the id, then waits for the lock of the members.       *)
Rename(u) ==
    LET new == id[job[u].who]
    IN  /\ At(u, "commit")
        /\ IF new = NoName THEN Goto(u, "revert")
           ELSE job' = [job EXCEPT ![u] = [@ EXCEPT !.step = "replace",
                                                    !.now = new]]
        /\ UNCHANGED <<userVars, memberVars, history, queueVars, opKeys>>

ReplaceMember(u) ==
    LET old == job[u].old
        new == job[u].now
    IN  /\ At(u, "replace")
        /\ WriteFree
        /\ \/ /\ ~CanReplace(old, new)
              /\ Goto(u, "revert")
              /\ UNCHANGED members
           \/ /\ CanReplace(old, new)
              /\ members' = Replaced(old, new, job[u].who)
              /\ Post(u, Renames(u))
        /\ UNCHANGED <<userVars, muted, isOp, history, queueVars, opKeys>>

Revert(u) ==
    /\ At(u, "revert")
    /\ id' = [id EXCEPT ![job[u].who] = job[u].old]
    /\ Fail(u)
    /\ UNCHANGED <<pipeVars, settingVars, memberVars, history, opKeys>>

-----------------------------------------------------------------------------
(* Operator commands first check that their author is an operator.         *)
Authorize(u) ==
    /\ At(u, "run")
    /\ job[u].line.cmd \in OpCmds
    /\ \/ IsOp(u) /\ Goto(u, "act") /\ UNCHANGED queueVars
       \/ ~IsOp(u) /\ Fail(u)
    /\ UNCHANGED <<userVars, memberVars, history, opKeys>>

NoTarget(u) ==
    /\ At(u, "act")
    /\ Get(Arg(u)) = NoUser
    /\ Fail(u)
    /\ UNCHANGED <<userVars, memberVars, history, opKeys>>

(* /mute toggles: it reads the flag, then writes the opposite.             *)
Mute(u) ==
    LET v == Get(Arg(u))
    IN  /\ Acts(u, "mute")
        /\ v # NoUser
        /\ Found(u, IF v \in muted THEN "muteOff" ELSE "muteOn", v)
        /\ UNCHANGED <<userVars, memberVars, history, queueVars, opKeys>>

SetMute(u) ==
    /\ \/ At(u, "muteOn") /\ muted' = muted \cup {job[u].who}
       \/ At(u, "muteOff") /\ muted' = muted \ {job[u].who}
    /\ Post(u, <<Reply(u)>>)
    /\ UNCHANGED <<userVars, members, isOp, history, queueVars, opKeys>>

Kick(u) ==
    LET v == Get(Arg(u))
    IN  /\ Acts(u, "kick")
        /\ v # NoUser
        /\ PostThen(u, <<AnnounceMsg(u, LineNo(u), 2)>>, v, "close")
        /\ UNCHANGED <<userVars, memberVars, history, queueVars, opKeys>>

CloseTarget(u) ==
    /\ At(u, "close")
    /\ Close(job[u].who)
    /\ Finish(u)
    /\ UNCHANGED <<id, settingVars, memberVars, history, queueVars, opKeys>>

(* /op and /op remove: the member's flag, then the key in the Auth.        *)
Op(u) ==
    LET v == Get(Arg(u))
    IN  /\ v # NoUser
        /\ \/ Acts(u, "op") /\ isOp' = isOp \cup {v}
           \/ Acts(u, "deop") /\ isOp' = isOp \ {v}
        /\ Found(u, "opkey", v)
        /\ UNCHANGED <<userVars, members, muted, history, queueVars, opKeys>>

OpKey(u) ==
    LET v == job[u].who
        key == {v} \cap Keyed
    IN  /\ At(u, "opkey")
        /\ opKeys' = IF job[u].line.cmd = "op" THEN opKeys \cup key
                                               ELSE opKeys \ key
        /\ Post(u, <<SystemMsg(u, v, LineNo(u), 0)>>)
        /\ UNCHANGED <<userVars, memberVars, history, queueVars>>

(* /rename by an operator: the symbol, if given, is announced first.       *)
OpRename(u) ==
    LET v == Get(Arg(u))
    IN  /\ Acts(u, "rename")
        /\ v # NoUser
        /\ IF job[u].line.sym
           THEN PostThen(u, <<SystemMsg(u, v, LineNo(u), 0)>>, v, "rename")
           ELSE Found(u, "rename", v)
        /\ UNCHANGED <<userVars, memberVars, history, queueVars, opKeys>>

OpRenameTarget(u) ==
    LET v == job[u].who
        same == New(u) = id[v]
        sym == job[u].line.sym
    IN  /\ At(u, "rename")
        /\ \/ same /\ ~sym /\ Fail(u)
           \/ /\ sym /\ (same \/ New(u) = NoName)
              /\ Finish(u)
              /\ UNCHANGED queueVars
           \/ /\ ~same /\ ~(sym /\ New(u) = NoName)
              /\ StartRename(u, v)
              /\ UNCHANGED queueVars
        /\ UNCHANGED <<userVars, memberVars, history, opKeys>>

-----------------------------------------------------------------------------
RunCommand(u) ==
    \/ Bad(u) \/ Info(u) \/ Emote(u) \/ Exit(u)
    \/ ToggleQuiet(u) \/ Ignore(u) \/ Unignore(u)
    \/ PrivateTo(u) \/ ReplyBack(u) \/ SetReplyTo(u)
    \/ Nick(u) \/ SetID(u) \/ Rename(u) \/ ReplaceMember(u) \/ Revert(u)
    \/ Authorize(u) \/ NoTarget(u)
    \/ Mute(u) \/ SetMute(u) \/ Kick(u) \/ CloseTarget(u)
    \/ Op(u) \/ OpKey(u) \/ OpRename(u) \/ OpRenameTarget(u)
    \/ SendOut(u)
=============================================================================
