-------------------------------- MODULE Users --------------------------------
(***************************************************************************)
(* chat/message/user.go: the server's side of one connection.  A user has  *)
(* an identity, a bounded channel of messages its Consume goroutine writes *)
(* to the terminal, a done channel closed once, and its own settings.      *)
(***************************************************************************)
EXTENDS Messages, Sequences

CONSTANT MsgBuffer      \* messageBuffer

ASSUME MsgBufferAssumption == MsgBuffer \in Nat \ {0}

VARIABLES
    id,         \* Identity.id, the current name
    inbox,      \* User.msg, the buffered channel
    consuming,  \* the users whose Consume goroutine runs
    done,       \* the users whose done channel is closed
    quiet,      \* the users with config.Quiet
    ignored,    \* User.Ignored, a set of normalised names
    replyTo     \* User.replyTo

pipeVars == <<inbox, consuming, done>>
settingVars == <<quiet, ignored, replyTo>>
userVars == <<id, pipeVars, settingVars>>

UsersTypeOK ==
    /\ id \in [Users -> Names]
    /\ inbox \in [Users -> Seq(Msg)]
    /\ \A u \in Users : Len(inbox[u]) <= MsgBuffer
    /\ consuming \subseteq Users
    /\ done \subseteq Users
    /\ quiet \subseteq Users
    /\ ignored \in [Users -> SUBSET Names]
    /\ replyTo \in [Users -> Users \cup {NoUser}]

UsersInit(connected, names, quieted) ==
    /\ id = names
    /\ inbox = [u \in Users |-> <<>>]
    /\ consuming = connected
    /\ done = {}
    /\ quiet = quieted
    /\ ignored = [u \in Users |-> {}]
    /\ replyTo = [u \in Users |-> NoUser]

-----------------------------------------------------------------------------
(* User.Send as a select.  With room in the channel or done closed one of  *)
(* the ready cases is taken, either if both are; otherwise the sender      *)
(* waits, and after messageTimeout it closes the user.                     *)
Full(u) == Len(inbox[u]) >= MsgBuffer

Enqueue(u, m) ==
    /\ ~Full(u)
    /\ inbox' = [inbox EXCEPT ![u] = Append(@, m)]
    /\ UNCHANGED <<consuming, done>>

Refuse(u) ==
    /\ u \in done
    /\ UNCHANGED pipeVars

Close(u) ==
    /\ done' = done \cup {u}
    /\ UNCHANGED <<inbox, consuming>>

TimeOut(u) ==
    /\ Full(u)
    /\ u \notin done
    /\ Close(u)

SendNow(u, m) == Enqueue(u, m) \/ Refuse(u)
(* A plausible bug: a send without the timeout.                            *)
SendPatiently(u, m) == SendNow(u, m)
SendTo(u, m) == SendNow(u, m) \/ TimeOut(u)
MustWait(u) == Full(u) /\ u \notin done

-----------------------------------------------------------------------------
(* User.Consume: one message received and written; a write to a closed     *)
(* screen fails and closes the user again, which does nothing.             *)
Receive(u) ==
    /\ u \in consuming
    /\ inbox[u] # <<>>
    /\ inbox' = [inbox EXCEPT ![u] = Tail(@)]
    /\ UNCHANGED consuming

Consume(u) == Receive(u) /\ UNCHANGED done

(* The write fails because the client is gone: writeMsg closes the user.   *)
WriteFails(u) == Receive(u) /\ done' = done \cup {u}

(* Consume returns once it sees done closed; what is buffered stays there. *)
ConsumeStops(u) ==
    /\ u \in consuming
    /\ u \in done
    /\ consuming' = consuming \ {u}
    /\ UNCHANGED <<inbox, done>>
=============================================================================
