--------------------------- MODULE TerminalSession ---------------------------
(***************************************************************************)
(* sshd/net.go and sshd/terminal.go: from an accepted connection to a      *)
(* terminal, and the end of both.  Each connection has a goroutine in      *)
(* Serve; a terminal has one that hears the requests of its channel and    *)
(* one that asks, every 30 seconds, whether the client is still there.     *)
(* Timers are late or on time: nothing here says how late, so each may go  *)
(* off at any moment after it was set.                                     *)
(***************************************************************************)
EXTENDS Integers, Sequences, Functions

CONSTANTS
    Conns,          \* the connections
    MaxChannels,    \* bound: the channels a client opens
    MaxRequests     \* bound: the requests a client sends

ASSUME SessionAssumption == MaxChannels \in Nat /\ MaxRequests \in Nat

ChannelTypes == {"session", "other"}

(* What changes the size is LineEditor's; it and requests that are not     *)
(* known change nothing here.                                              *)
Requests == {"shell", "pty-req", "env", "other"}

VARIABLES
    accepting,  \* whether Serve is in its loop
    stage,      \* where the goroutine of a connection is
    link,       \* the connection, or why nothing can be read from it
    deadline,   \* whether a read deadline is set
    opened,     \* the channels the client opened and nobody looked at
    open,       \* whether the session channel is open on both ends
    sent,       \* the requests the client sent on it
    heard,      \* how many of them listen has handled
    listening,  \* whether listen runs
    keeping,    \* where the keepalive goroutine is
    ready, done,    \* whether these channels are closed
    env, term   \* the fields, as numbers of the requests they came with

connVars == <<link, deadline>>
channelVars == <<opened, open>>
requestVars == <<sent, heard, listening, ready, env, term>>
vars == <<accepting, stage, connVars, channelVars, requestVars, keeping, done>>

Stages == {"none", "handshake", "session", "starting", "granted", "handler",
           "refused", "over"}
Links == {"none", "up", "lost", "expired", "closed"}

TypeOK ==
    /\ accepting \in BOOLEAN
    /\ stage \in [Conns -> Stages]
    /\ link \in [Conns -> Links]
    /\ deadline \in [Conns -> BOOLEAN]
    /\ opened \in [Conns -> Seq(ChannelTypes)]
    /\ open \in [Conns -> BOOLEAN]
    /\ sent \in [Conns -> Seq(Requests)]
    /\ heard \in [Conns -> Nat]
    /\ listening \in [Conns -> BOOLEAN]
    /\ keeping \in [Conns -> {"off", "idle", "asking", "ended"}]
    /\ ready \in [Conns -> BOOLEAN]
    /\ done \in [Conns -> BOOLEAN]
    /\ env \in [Conns -> Seq(Nat)]
    /\ term \in [Conns -> Nat]
    /\ \A c \in Conns :
           /\ heard[c] <= Len(sent[c])
           /\ env[c] \in Seq(1..heard[c])
           /\ term[c] \in 0..heard[c]

Init ==
    /\ accepting = TRUE
    /\ stage = [c \in Conns |-> "none"]
    /\ link = [c \in Conns |-> "none"]
    /\ deadline = [c \in Conns |-> FALSE]
    /\ opened = [c \in Conns |-> <<>>]
    /\ open = [c \in Conns |-> FALSE]
    /\ sent = [c \in Conns |-> <<>>]
    /\ heard = [c \in Conns |-> 0]
    /\ listening = [c \in Conns |-> FALSE]
    /\ keeping = [c \in Conns |-> "off"]
    /\ ready = [c \in Conns |-> FALSE]
    /\ done = [c \in Conns |-> FALSE]
    /\ env = [c \in Conns |-> <<>>]
    /\ term = [c \in Conns |-> 0]

Up(c) == link[c] = "up"
Alive(c) == Up(c) /\ open[c]
To(c, s) == stage' = [stage EXCEPT ![c] = s]

(* A link that is down already stays as it is.                             *)
Down(c, why) == link' = IF Up(c) THEN [link EXCEPT ![c] = why] ELSE link

(* Terminal.Close: the channel and the connection, once.                   *)
Close(c) ==
    /\ done' = [done EXCEPT ![c] = TRUE]
    /\ open' = [open EXCEPT ![c] = FALSE]
    /\ Down(c, "closed")

-----------------------------------------------------------------------------
(* Serve and handleConn.                                                   *)

(* A plausible bug: the deadline is left to the keepalive, which comes     *)
(* with the terminal.                                                      *)
AcceptWithoutDeadline(c) ==
    /\ accepting /\ stage[c] = "none"
    /\ To(c, "handshake")
    /\ link' = [link EXCEPT ![c] = "up"]
    /\ UNCHANGED <<accepting, deadline, channelVars, requestVars, keeping, done>>

Accept(c) ==
    /\ accepting /\ stage[c] = "none"
    /\ To(c, "handshake")
    /\ link' = [link EXCEPT ![c] = "up"]
    /\ deadline' = [deadline EXCEPT ![c] = TRUE]
    /\ UNCHANGED <<accepting, channelVars, requestVars, keeping, done>>

AcceptFails ==
    /\ accepting
    /\ accepting' = FALSE
    /\ UNCHANGED <<stage, connVars, channelVars, requestVars, keeping, done>>

(* NewServerConn: the handshake comes to its end, or fails as nothing can  *)
(* be read, or (AuthFails) as the client is turned away.                   *)
Handshake(c) ==
    /\ stage[c] = "handshake" /\ Up(c)
    /\ To(c, "session")
    /\ UNCHANGED <<accepting, connVars, channelVars, requestVars, keeping, done>>

HandshakeFails(c) ==
    /\ stage[c] = "handshake" /\ ~Up(c)
    /\ To(c, "refused")
    /\ UNCHANGED <<accepting, connVars, channelVars, requestVars, keeping, done>>

AuthFails(c) ==
    /\ stage[c] = "handshake" /\ Up(c)
    /\ To(c, "refused")
    /\ Down(c, "closed")
    /\ UNCHANGED <<accepting, deadline, channelVars, requestVars, keeping, done>>

(* NewSession: the first session is accepted, other channels are rejected. *)
NextChannel(c) ==
    /\ stage[c] = "session" /\ opened[c] # <<>>
    /\ opened' = [opened EXCEPT ![c] = Tail(@)]
    /\ IF Head(opened[c]) # "session"
       THEN UNCHANGED <<stage, open, listening, keeping>>
       ELSE IF ~Up(c)
       THEN To(c, "refused") /\ UNCHANGED <<open, listening, keeping>>
       ELSE /\ To(c, "starting")
            /\ open' = [open EXCEPT ![c] = TRUE]
            /\ listening' = [listening EXCEPT ![c] = TRUE]
            /\ keeping' = [keeping EXCEPT ![c] = "idle"]
    /\ UNCHANGED <<accepting, connVars, sent, heard, ready, env, term, done>>

(* ErrNoSessionChannel: the channels end with the connection.              *)
NoChannel(c) ==
    /\ stage[c] = "session" /\ opened[c] = <<>> /\ ~Up(c)
    /\ To(c, "refused")
    /\ UNCHANGED <<accepting, connVars, channelVars, requestVars, keeping, done>>

(* The select of NewTerminal.                                              *)
ShellAcquired(c) ==
    /\ stage[c] = "starting" /\ ready[c]
    /\ To(c, "granted")
    /\ UNCHANGED <<accepting, connVars, channelVars, requestVars, keeping, done>>

Aborted(c) ==
    /\ stage[c] = "starting" /\ done[c]
    /\ To(c, "refused")
    /\ UNCHANGED <<accepting, connVars, channelVars, requestVars, keeping, done>>

TimedOut(c) ==
    /\ stage[c] = "starting"
    /\ To(c, "refused")
    /\ UNCHANGED <<accepting, connVars, channelVars, requestVars, keeping, done>>

(* A plausible bug: the deadline is cleared only when the terminal ends.   *)
HandOverWithDeadline(c) ==
    /\ stage[c] = "granted"
    /\ To(c, "handler")
    /\ UNCHANGED <<accepting, connVars, channelVars, requestVars, keeping, done>>

(* handleConn returns: the deadline is cleared in any case, and what was   *)
(* not given a terminal is closed.                                         *)
HandOver(c) ==
    /\ stage[c] = "granted"
    /\ To(c, "handler")
    /\ deadline' = [deadline EXCEPT ![c] = FALSE]
    /\ UNCHANGED <<accepting, link, channelVars, requestVars, keeping, done>>

(* A plausible bug: the error is only logged.                              *)
DropUnclosed(c) ==
    /\ stage[c] = "refused"
    /\ To(c, "over")
    /\ deadline' = [deadline EXCEPT ![c] = FALSE]
    /\ UNCHANGED <<accepting, link, channelVars, requestVars, keeping, done>>

Drop(c) ==
    /\ stage[c] = "refused"
    /\ To(c, "over")
    /\ deadline' = [deadline EXCEPT ![c] = FALSE]
    /\ Down(c, "closed")
    /\ UNCHANGED <<accepting, channelVars, requestVars, keeping, done>>

(* Connect ends when it cannot read, or by the client's wish, and closes   *)
(* the terminal; others may close it before.                               *)
HandlerEnds(c) ==
    /\ stage[c] = "handler" /\ ~Alive(c)
    /\ To(c, "over")
    /\ Close(c)
    /\ UNCHANGED <<accepting, deadline, opened, requestVars, keeping>>

Quit(c) ==
    /\ stage[c] = "handler" /\ Alive(c)
    /\ To(c, "over")
    /\ Close(c)
    /\ UNCHANGED <<accepting, deadline, opened, requestVars, keeping>>

Kick(c) ==
    /\ stage[c] = "handler" /\ ~done[c]
    /\ Close(c)
    /\ UNCHANGED <<accepting, stage, deadline, opened, requestVars, keeping>>

-----------------------------------------------------------------------------
(* listen.                                                                 *)
(* A plausible bug: a request is handled without being taken off the queue.*)
HandleAgain(c, r, n) ==
    /\ heard' = [heard EXCEPT ![c] = n - 1]
    /\ ready' = [ready EXCEPT ![c] = @ \/ r = "shell"]
    /\ term' = [term EXCEPT ![c] = IF r = "pty-req" THEN n ELSE @]
    /\ env' = [env EXCEPT ![c] = IF r = "env" THEN Append(@, n) ELSE @]

(* A plausible bug: a terminal with a size is taken to be ready.           *)
HandleEarly(c, r, n) ==
    /\ heard' = [heard EXCEPT ![c] = n]
    /\ ready' = [ready EXCEPT ![c] = @ \/ r \in {"shell", "pty-req"}]
    /\ term' = [term EXCEPT ![c] = IF r = "pty-req" THEN n ELSE @]
    /\ env' = [env EXCEPT ![c] = IF r = "env" THEN Append(@, n) ELSE @]

Handle(c, r, n) ==
    /\ heard' = [heard EXCEPT ![c] = n]
    /\ ready' = [ready EXCEPT ![c] = @ \/ r = "shell"]
    /\ term' = [term EXCEPT ![c] = IF r = "pty-req" THEN n ELSE @]
    /\ env' = [env EXCEPT ![c] = IF r = "env" THEN Append(@, n) ELSE @]

Listen(c) ==
    /\ listening[c] /\ heard[c] < Len(sent[c])
    /\ Handle(c, sent[c][heard[c] + 1], heard[c] + 1)
    /\ UNCHANGED <<accepting, stage, connVars, channelVars, sent, listening,
                   keeping, done>>

(* The requests end with the channel, after those that came before.        *)
ListenEnds(c) ==
    /\ listening[c] /\ heard[c] = Len(sent[c]) /\ ~Alive(c)
    /\ listening' = [listening EXCEPT ![c] = FALSE]
    /\ UNCHANGED <<accepting, stage, connVars, channelVars, sent, heard, ready,
                   env, term, keeping, done>>

-----------------------------------------------------------------------------
(* The keepalive goroutine.                                                *)
Tick(c) ==
    /\ keeping[c] = "idle"
    /\ keeping' = [keeping EXCEPT ![c] = "asking"]
    /\ UNCHANGED <<accepting, stage, connVars, channelVars, requestVars, done>>

Answered(c) ==
    /\ keeping[c] = "asking" /\ Alive(c)
    /\ keeping' = [keeping EXCEPT ![c] = "idle"]
    /\ UNCHANGED <<accepting, stage, connVars, channelVars, requestVars, done>>

KeepaliveFails(c) ==
    /\ keeping[c] = "asking" /\ ~Alive(c)
    /\ keeping' = [keeping EXCEPT ![c] = "ended"]
    /\ Close(c)
    /\ UNCHANGED <<accepting, stage, deadline, opened, requestVars>>

KeepaliveDone(c) ==
    /\ keeping[c] = "idle" /\ done[c]
    /\ keeping' = [keeping EXCEPT ![c] = "ended"]
    /\ UNCHANGED <<accepting, stage, connVars, channelVars, requestVars, done>>

-----------------------------------------------------------------------------
(* The client, the network and the read deadline.                          *)
OpenChannel(c, t) ==
    /\ Up(c) /\ stage[c] \notin {"none", "handshake"}
    /\ Len(opened[c]) < MaxChannels
    /\ opened' = [opened EXCEPT ![c] = Append(@, t)]
    /\ UNCHANGED <<accepting, stage, connVars, open, requestVars, keeping, done>>

Request(c, r) ==
    /\ Alive(c) /\ Len(sent[c]) < MaxRequests
    /\ sent' = [sent EXCEPT ![c] = Append(@, r)]
    /\ UNCHANGED <<accepting, stage, connVars, channelVars, heard, listening,
                   ready, env, term, keeping, done>>

CloseChannel(c) ==
    /\ Alive(c)
    /\ open' = [open EXCEPT ![c] = FALSE]
    /\ UNCHANGED <<accepting, stage, connVars, opened, requestVars, keeping, done>>

HangUp(c) ==
    /\ Up(c)
    /\ Down(c, "lost")
    /\ UNCHANGED <<accepting, stage, deadline, channelVars, requestVars, keeping,
                   done>>

Expire(c) ==
    /\ Up(c) /\ deadline[c]
    /\ Down(c, "expired")
    /\ UNCHANGED <<accepting, stage, deadline, channelVars, requestVars, keeping,
                   done>>

Server(c) ==
    \/ HandshakeFails(c) \/ NextChannel(c) \/ NoChannel(c)
    \/ ShellAcquired(c) \/ Aborted(c) \/ TimedOut(c)
    \/ HandOver(c) \/ Drop(c) \/ HandlerEnds(c)

Client(c) ==
    \/ Accept(c) \/ Handshake(c) \/ AuthFails(c)
    \/ \E t \in ChannelTypes : OpenChannel(c, t)
    \/ \E r \in Requests : Request(c, r)
    \/ CloseChannel(c) \/ HangUp(c) \/ Quit(c) \/ Kick(c) \/ Answered(c)

Next ==
    \/ AcceptFails
    \/ \E c \in Conns :
           \/ Server(c) \/ Client(c) \/ Expire(c)
           \/ Listen(c) \/ ListenEnds(c)
           \/ Tick(c) \/ KeepaliveFails(c) \/ KeepaliveDone(c)

Spec == Init /\ [][Next]_vars

(* Goroutines are scheduled and timers go off; nothing is asked of a       *)
(* client, not even an answer.                                             *)
Fairness ==
    \A c \in Conns :
        /\ WF_vars(Server(c)) /\ WF_vars(Expire(c))
        /\ WF_vars(Listen(c)) /\ WF_vars(ListenEnds(c))
        /\ WF_vars(Tick(c)) /\ WF_vars(KeepaliveFails(c))
        /\ WF_vars(KeepaliveDone(c))

FairSpec == Spec /\ Fairness

-----------------------------------------------------------------------------
(* What the client sent before it asked for a shell has been heard when    *)
(* the terminal is handed over ("gives the SSH session a chance to         *)
(* populate the env vars and other state", terminal.go:136), in the order  *)
(* in which it came: Env().Get and Term() answer with the latest.          *)
Shells(c) == {n \in 1..heard[c] : sent[c][n] = "shell"}
Before(c, r) == {n \in 1..heard[c] : sent[c][n] = r}
HeardFirst ==
    \A c \in Conns :
        /\ stage[c] \in {"granted", "handler"} => Shells(c) # {}
        /\ Range(env[c]) = Before(c, "env")
        /\ \A i, j \in DOMAIN env[c] : i < j => env[c][i] < env[c][j]
        /\ term[c] \in Before(c, "pty-req") \cup {0}
        /\ \A n \in Before(c, "pty-req") : n <= term[c]

(* Once a terminal is handed over, the deadline of the handshake cannot    *)
(* cut it off.                                                             *)
DeadlineSpares ==
    [][\A c \in Conns :
           stage[c] = "handler" /\ Up(c) => link'[c] # "expired"]_vars

(* Whatever a client does or fails to do, the server does not wait for it  *)
(* for ever: "it should be dropped" (net.go:37).                           *)
Settled ==
    \A c \in Conns :
        stage[c] = "handshake" ~> stage[c] \in {"handler", "over"}

(* Once a connection has failed or was refused, all of it ends: "Must be   *)
(* closed to avoid a leak" (net.go:69) and the three goroutines.           *)
Finished(c) ==
    /\ stage[c] = "over" /\ ~Up(c)
    /\ ~listening[c] /\ keeping[c] \in {"off", "ended"}
Released ==
    \A c \in Conns :
        (stage[c] \in {"refused", "over"} \/ (stage[c] # "none" /\ ~Up(c)))
            ~> Finished(c)
=============================================================================
