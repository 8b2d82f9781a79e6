------------------------------ MODULE Messages ------------------------------
(***************************************************************************)
(* The messages of chat/message/message.go, and the input lines a client   *)
(* types.  A body is abstracted to where the message comes from: the user  *)
(* whose line caused it, the number of that line (0: the connection        *)
(* itself) and the part the message plays in the answer.                   *)
(***************************************************************************)
EXTENDS Naturals

CONSTANTS Users, NoUser,  \* the connections, and nil
          Names, NoName,  \* the names that occur, and the empty string
          Lower           \* set.normalize, the lower case of a name

(* Names are compared through an idempotent normalisation; the empty       *)
(* string is the only one that normalises to itself being empty.           *)
ASSUME NamesAssumption ==
    /\ NoUser \notin Users
    /\ NoName \in Names
    /\ Lower \in [Names -> Names]
    /\ \A n \in Names : Lower[Lower[n]] = Lower[n]
    /\ \A n \in Names : Lower[n] = NoName <=> n = NoName

Kinds == {"public", "emote", "private", "system", "announce", "command"}

(* Which of the interfaces MessageFrom and MessageTo a message implements. *)
HasFrom(m) == m.kind \in {"public", "emote", "private", "command"}
HasTo(m)   == m.kind \in {"private", "system"}

Msg == {m \in [kind : Kinds, by : Users, to : Users \cup {NoUser},
               line : Nat, part : Nat] : HasTo(m) <=> m.to # NoUser}

Make(k, u, v, n, p) ==
    [kind |-> k, by |-> u, to |-> v, line |-> n, part |-> p]

PublicMsg(u, n)      == Make("public", u, NoUser, n, 0)
EmoteMsg(u, n)       == Make("emote", u, NoUser, n, 0)
PrivateMsg(u, v, n)  == Make("private", u, v, n, 0)
SystemMsg(u, v, n, p) == Make("system", u, v, n, p)
AnnounceMsg(u, n, p) == Make("announce", u, NoUser, n, p)
CommandMsg(u, n)     == Make("command", u, NoUser, n, 0)

-----------------------------------------------------------------------------
(* What a line asks for: "say" is text, every other value a command.       *)
(* "info" stands for the commands that only answer their author (/help,    *)
(* /names, /whois, /version ...), "emote" for those that post an emote     *)
(* (/me, /slap, /shrug), "bad" for those refused without looking at the    *)
(* room, "reject" for a line stopped by the rate or the length limit.      *)
OpCmds == {"mute", "kick", "rename", "op", "deop"}
Cmds == {"say", "reject", "bad", "info", "emote", "exit", "nick", "quiet",
         "ignore", "unignore", "msg", "reply"} \cup OpCmds

(* arg: the user named; new: the sanitised new name; sym: /rename's third  *)
(* argument is given.                                                      *)
Line == [cmd : Cmds, arg : Names, new : Names, sym : BOOLEAN]

NoLine == [cmd |-> "bad", arg |-> NoName, new |-> NoName, sym |-> FALSE]

Key(n) == Lower[n]
=============================================================================
