--------------------------- MODULE DeliveryProofs ---------------------------
(***************************************************************************)
(* What every user has been sent, for every value of the constants.  The   *)
(* order of public messages needs no hypothesis: only its author's         *)
(* goroutine handles one, and types no line before it is done.  That       *)
(* nobody misses a message needs the registry to be consistent, so that    *)
(* Members.Each meets everybody who is in the room.                        *)
(***************************************************************************)
EXTENDS Delivery, HostProofs

(* What is said in public.                                                 *)
Aloud(m) == m.kind = "public"
Unvoiced(s) == \A i \in DOMAIN s : ~Aloud(s[i])
SaidBy(m, n) == Aloud(m) => m.by \in Users /\ m.line <= n[m.by]
SaidBefore(m) == SaidBy(m, typed)

(* Public text stays with the goroutine of its author, which is handling   *)
(* the line typed last; nothing posted through the channel is public.      *)
JobsSaid == \A t \in Threads :
    /\ job[t].step # "idle" /\ Aloud(job[t].msg) =>
           t = job[t].msg.by /\ job[t].msg.line = typed[t]
    /\ Unvoiced(job[t].out)
QueuesSaid == Unvoiced(broadcast) /\ \A m \in ready : ~Aloud(m)
GotSaid == \A u \in Users : \A m \in got[u] : m \in Msg /\ SaidBefore(m)
FeedsSaid == \A u \in Users : \A i \in DOMAIN feed[u] : SaidBefore(feed[u][i])
HistorySaid == \A i \in DOMAIN history : SaidBefore(history[i])

OrderInv == JobsSaid /\ QueuesSaid /\ GotSaid /\ FeedsSaid /\ HistorySaid

-----------------------------------------------------------------------------
(* What reaches a user in a step.                                          *)
LEMMA NoneArrives ==
    ASSUME UNCHANGED inbox
    PROVE  \A v \in Users : Arrived(v) = {}
  <1>. SUFFICES ASSUME NEW v \in Users, Len(inbox[v]) > Len(inbox[v])
                PROVE  FALSE
    BY DEF Arrived
  <1>. QED  OBVIOUS

LEMMA SentArrives ==
    ASSUME UsersTypeOK, NEW u \in Users, NEW m \in Msg, SendTo(u, m)
    PROVE  /\ \A v \in Users : Arrived(v) \subseteq {m}
           /\ \A v \in Users \ {u} : Arrived(v) = {}
           /\ u \in done' \/ m \in Arrived(u)
           /\ done \subseteq done'
  <1>1. inbox \in [Users -> Seq(Msg)]
    BY DEF UsersTypeOK
  <1>2. CASE Enqueue(u, m)
    <2>1. inbox' = [inbox EXCEPT ![u] = Append(inbox[u], m)] /\ done' = done
      BY <1>2 DEF Enqueue
    <2>2. inbox'[u] = Append(inbox[u], m) /\ inbox[u] \in Seq(Msg)
      BY <1>1, <2>1
    <2>3. Len(inbox'[u]) = Len(inbox[u]) + 1 /\ Len(inbox[u]) \in Nat
          /\ inbox'[u][Len(inbox[u]) + 1] = m
      BY <2>2
    <2>4. Arrived(u) = {m}
      BY <2>3 DEF Arrived
    <2>5. ASSUME NEW v \in Users \ {u}
          PROVE  Arrived(v) = {}
      <3>1. inbox'[v] = inbox[v] /\ Len(inbox[v]) \in Nat
        BY <1>1, <2>1
      <3>. QED  BY <3>1 DEF Arrived
    <2>. QED  BY <2>1, <2>4, <2>5
  <1>3. CASE UNCHANGED inbox /\ u \in done' /\ done \subseteq done'
    <2>1. \A v \in Users : Arrived(v) = {}
      <3>. TAKE v \in Users
      <3>1. inbox'[v] = inbox[v] /\ Len(inbox[v]) \in Nat
        BY <1>1, <1>3
      <3>. QED  BY <3>1 DEF Arrived
    <2>. QED  BY <1>3, <2>1
  <1>. QED
    BY <1>2, <1>3 DEF SendTo, SendNow, Refuse, TimeOut, Close, pipeVars

LEMMA ReceivedArrives ==
    ASSUME UsersTypeOK, NEW u \in Users, Receive(u)
    PROVE  \A v \in Users : Arrived(v) = {}
  <1>. TAKE v \in Users
  <1>1. inbox \in [Users -> Seq(Msg)] /\ inbox[u] # <<>>
        /\ inbox' = [inbox EXCEPT ![u] = Tail(inbox[u])]
    BY DEF UsersTypeOK, Receive
  <1>2. Len(inbox[v]) \in Nat
    BY <1>1
  <1>3. CASE v = u
    <2>1. Len(Tail(inbox[u])) = Len(inbox[u]) - 1
      BY <1>1
    <2>. QED  BY <1>1, <1>2, <1>3, <2>1 DEF Arrived
  <1>4. CASE v # u
    BY <1>1, <1>2, <1>4 DEF Arrived
  <1>. QED  BY <1>3, <1>4

LEMMA CommandBuffers ==
    ASSUME NEW u \in Users, RunCommand(u)
    PROVE  UNCHANGED <<inbox, history>> /\ done \subseteq done'
  <1>1. CASE \/ Bad(u) \/ Info(u) \/ Emote(u) \/ Exit(u)
             \/ ToggleQuiet(u) \/ Ignore(u) \/ Unignore(u)
             \/ PrivateTo(u) \/ ReplyBack(u) \/ SetReplyTo(u)
    BY <1>1 DEF Bad, Info, Emote, Exit, ToggleQuiet, Ignore, Unignore,
                PrivateTo, ReplyBack, SetReplyTo, Close, userVars, pipeVars
  <1>2. CASE \/ Nick(u) \/ SetID(u) \/ Rename(u) \/ ReplaceMember(u)
             \/ Revert(u) \/ Authorize(u) \/ NoTarget(u) \/ SendOut(u)
    BY <1>2 DEF Nick, SetID, Rename, ReplaceMember, Revert, Authorize,
                NoTarget, SendOut, userVars, pipeVars
  <1>3. CASE \/ Mute(u) \/ SetMute(u) \/ Kick(u) \/ CloseTarget(u)
             \/ Op(u) \/ OpKey(u) \/ OpRename(u) \/ OpRenameTarget(u)
    BY <1>3 DEF Mute, SetMute, Kick, CloseTarget, Op, OpKey, OpRename,
                OpRenameTarget, Close, userVars, pipeVars
  <1>. QED  BY <1>1, <1>2, <1>3 DEF RunCommand

(* Deliver, Visit and Unblock send the message the goroutine handles.      *)
LEMMA HandledArrivals ==
    ASSUME Inv, NEW t \in Threads, HandleMsg(t)
    PROVE  /\ job[t].step # "idle" /\ job[t].msg \in Msg
           /\ \A u \in Users : Arrived(u) \subseteq {job[t].msg}
           /\ done \subseteq done'
  <1>1. job[t].step # "idle"
    BY DEF HandleMsg, Lookup, Direct, Deliver, Record, Lock, Visit, Unblock,
           Unlock, At
  <1>2. UsersTypeOK /\ job[t] \in Job /\ JobOK(job[t]) /\ job[t].msg \in Msg
    BY <1>1, Parts, JobFacts
  <1>3. CASE UNCHANGED <<inbox, done>>
    BY <1>1, <1>2, <1>3, NoneArrives
  <1>4. ASSUME NEW u \in Users, SendTo(u, job[t].msg)
        PROVE  /\ \A v \in Users : Arrived(v) \subseteq {job[t].msg}
               /\ done \subseteq done'
    BY <1>2, <1>4, SentArrives
  <1>5. CASE Lookup(t) \/ Direct(t) \/ Record(t) \/ Lock(t) \/ Unlock(t)
    BY <1>3, <1>5 DEF Lookup, Direct, Record, Lock, Unlock, userVars, pipeVars
  <1>6. CASE Deliver(t) \/ Unblock(t)
    <2>1. job[t].who \in Users
      BY <1>2, <1>6 DEF Deliver, Unblock, At, JobOK, TargetSteps, Job
    <2>. QED  BY <1>1, <1>2, <1>4, <1>6, <2>1 DEF Deliver, Unblock
  <1>7. ASSUME NEW k \in job[t].rest, Visit(t, k)
        PROVE  /\ \A v \in Users : Arrived(v) \subseteq {job[t].msg}
               /\ done \subseteq done'
    <2>1. members[k] \in Users
      <3>1. k \in Names /\ members[k] # NoUser
        BY <1>2, <1>7 DEF Visit, At, JobOK, Job
      <3>. QED  BY <3>1, Parts DEF MembersOK
    <2>2. CASE SendNow(members[k], job[t].msg)
      BY <1>4, <2>1, <2>2 DEF SendTo
    <2>3. CASE UNCHANGED pipeVars
      BY <2>3, NoneArrives DEF pipeVars
    <2>. QED  BY <1>7, <2>2, <2>3 DEF Visit
  <1>. QED
    BY <1>1, <1>2, <1>5, <1>6, <1>7 DEF HandleMsg

LEMMA ConnectArrivals ==
    ASSUME Inv, NEW u \in Users, Connect(u)
    PROVE  /\ \A v \in Users \ {u} : Arrived(v) = {}
           /\ \A m \in Arrived(u) :
                  ~Aloud(m) \/ (/\ phase[u] = "feed" /\ feed[u] # <<>>
                               /\ m = Head(feed[u]))
           /\ done \subseteq done'
  <1>0. UsersTypeOK
    BY Parts
  <1>1. CASE SendMotd(u)
    <2>1. AnnounceMsg(u, 0, 2) \in Msg
      BY MessageTypes
    <2>2. ~Aloud(AnnounceMsg(u, 0, 2))
      BY DEF AnnounceMsg, Make, Aloud
    <2>3. SendTo(u, AnnounceMsg(u, 0, 2))
      BY <1>1 DEF SendMotd
    <2>. QED  BY <1>0, <2>1, <2>2, <2>3, SentArrives
  <1>2. CASE Feed(u)
    <2>1. CASE feed[u] # <<>> /\ SendTo(u, Head(feed[u]))
      <3>1. Head(feed[u]) \in Msg /\ phase[u] = "feed"
        BY <1>2, <2>1, Parts DEF Feed, In, HostOK
      <3>. QED  BY <1>0, <2>1, <3>1, SentArrives
    <2>2. CASE UNCHANGED pipeVars
      BY <2>2, NoneArrives DEF pipeVars
    <2>. QED  BY <1>2, <2>1, <2>2 DEF Feed
  <1>3. CASE UNCHANGED inbox /\ done \subseteq done'
    BY <1>3, NoneArrives
  <1>4. ASSUME NEW l \in Lines[u], ReadLine(u, l)
        PROVE  UNCHANGED inbox /\ done \subseteq done'
    BY <1>4 DEF ReadLine, Echo, Close, pipeVars
  <1>5. CASE \/ Arrive(u) \/ Join(u) \/ GetHistory(u) \/ AnnounceJoin(u)
             \/ RunEnv(u) \/ CheckOp(u) \/ GrantOp(u)
    BY <1>3, <1>5 DEF Arrive, Join, GetHistory, AnnounceJoin, RunEnv, CheckOp,
                      GrantOp, userVars, pipeVars
  <1>6. CASE \/ EndOfInput(u) \/ Leave(u) \/ AnnounceLeave(u)
             \/ Disconnect(u)
    BY <1>3, <1>6 DEF EndOfInput, Leave, AnnounceLeave, Disconnect, Close,
                      userVars, pipeVars
  <1>. QED  BY <1>1, <1>2, <1>3, <1>4, <1>5, <1>6 DEF Connect

(* Nothing reaches a user but what HandleMsg handles, what is fed to it    *)
(* from the history, and the message of the day.                           *)
LEMMA Arrivals ==
    ASSUME Inv, [Next]_vars, NEW u \in Users, NEW m \in Arrived(u)
    PROVE  \/ \E t \in Threads : job[t].step # "idle" /\ m = job[t].msg
           \/ ~Aloud(m)
           \/ phase[u] = "feed" /\ feed[u] # <<>> /\ m = Head(feed[u])
  <1>1. CASE UNCHANGED inbox
    BY <1>1, NoneArrives
  <1>2. CASE Dispatch
    BY <1>1, <1>2 DEF Dispatch, Serve, StartTask, userVars, pipeVars
  <1>3. CASE \E t \in Threads : HandleMsg(t)
    BY <1>3, HandledArrivals
  <1>4. CASE \E v \in Users : RunCommand(v)
    BY <1>1, <1>4, CommandBuffers
  <1>5. CASE \E v \in Users : Connect(v)
    <2>1. PICK v \in Users : Connect(v)
      BY <1>5
    <2>. QED  BY <2>1, ConnectArrivals
  <1>6. CASE \E v \in Users : Screen(v)
    <2>1. PICK v \in Users : Screen(v)
      BY <1>6
    <2>2. UsersTypeOK
      BY Parts
    <2>. QED  BY <1>1, <2>1, <2>2, ReceivedArrives
              DEF Screen, Consume, WriteFails, ConsumeStops
  <1>. QED
    BY <1>1, <1>2, <1>3, <1>4, <1>5, <1>6
       DEF Next, Rest, vars, userVars, pipeVars

-----------------------------------------------------------------------------
(* How a goroutine goes on: it keeps its message until it is done.         *)
Moved(t) ==
    /\ \A s \in Threads \ {t} : job'[s] = job[s]
    /\ \/ job'[t].step = "idle"
       \/ job[t].step # "idle" /\ job'[t].msg = job[t].msg

LEMMA MovedSaid ==
    ASSUME JobsSaid, NEW t \in Threads, Moved(t), Unvoiced(job'[t].out),
           UNCHANGED typed
    PROVE  JobsSaid'
  BY DEF JobsSaid, Moved, Aloud, Unvoiced

LEMMA IdleJob ==
    Idle.step = "idle" /\ Idle.out = <<>> /\ Unvoiced(<<>>)
  BY DEF Idle, Unvoiced

LEMMA WaysOn ==
    ASSUME Inv, NEW t \in Threads, job[t].step # "idle",
           NEW s, NEW v, NEW out,
           \/ Finish(t) \/ Goto(t, s) \/ Found(t, s, v) \/ Post(t, out)
           \/ PostThen(t, out, v, s)
    PROVE  /\ Moved(t)
           /\ job'[t].out \in {job[t].out, <<>>, out}
           /\ job'[t].step \in {"idle", s, "out"}
  <1>1. job \in [Threads -> Job] /\ job[t] \in Job
    BY Parts, JobFacts
  <1>2. \A x \in Threads \ {t} : job'[x] = job[x]
    BY <1>1 DEF Finish, Goto, Found, Post, PostThen
  <1>3. CASE Finish(t)
    <2>1. job'[t] = Idle
      BY <1>1, <1>3 DEF Finish
    <2>. QED  BY <1>2, <2>1, IdleJob DEF Moved
  <1>4. CASE Goto(t, s) \/ Found(t, s, v)
    <2>1. \/ job'[t] = [job[t] EXCEPT !.step = s]
          \/ job'[t] = [job[t] EXCEPT !.step = s, !.who = v]
      BY <1>1, <1>4 DEF Goto, Found
    <2>2. /\ job'[t].msg = job[t].msg /\ job'[t].out = job[t].out
          /\ job'[t].step = s
      BY <1>1, <2>1 DEF Job
    <2>. QED  BY <1>2, <2>2 DEF Moved
  <1>5. CASE Post(t, out) \/ PostThen(t, out, v, s)
    <2>1. \/ job'[t] = [job[t] EXCEPT !.step = "out", !.out = out,
                                      !.then = "idle"]
          \/ job'[t] = [job[t] EXCEPT !.step = "out", !.out = out,
                                      !.then = s, !.who = v]
      BY <1>1, <1>5 DEF Post, PostThen
    <2>2. /\ job'[t].msg = job[t].msg /\ job'[t].out = out
          /\ job'[t].step = "out"
      BY <1>1, <2>1 DEF Job
    <2>. QED  BY <1>2, <2>2 DEF Moved
  <1>. QED  BY <1>3, <1>4, <1>5

LEMMA WaysSaid ==
    ASSUME Inv, JobsSaid, NEW t \in Threads, job[t].step # "idle",
           NEW s, NEW v, NEW out, Unvoiced(out), UNCHANGED typed,
           \/ Finish(t) \/ Goto(t, s) \/ Found(t, s, v) \/ Post(t, out)
           \/ PostThen(t, out, v, s)
    PROVE  JobsSaid'
  <1>1. Moved(t) /\ job'[t].out \in {job[t].out, <<>>, out}
    BY WaysOn
  <1>2. Unvoiced(job'[t].out)
    BY <1>1, IdleJob DEF JobsSaid
  <1>. QED  BY <1>1, <1>2, MovedSaid

(* The loop of Each keeps the message and what is to be sent.              *)
LEMMA EachMoves ==
    ASSUME Inv, NEW t \in Threads,
           Lock(t) \/ Unblock(t) \/ \E k \in job[t].rest : Visit(t, k)
    PROVE  /\ Moved(t) /\ job'[t].out = job[t].out
           /\ job[t].step \in {"lock", "each"} /\ job'[t].step = "each"
           /\ job'[t].msg = job[t].msg
           /\ Lock(t) => job'[t].rest = {k \in Names : members[k] # NoUser}
           /\ Unblock(t) => job'[t].rest = job[t].rest
  <1>1. job \in [Threads -> Job] /\ job[t] \in Job
    BY Parts, JobFacts
  <1>2. CASE Lock(t)
    <2>. DEFINE rest == {k \in Names : members[k] # NoUser}
    <2>1. /\ job' = [job EXCEPT ![t] = [job[t] EXCEPT !.step = "each",
                                                      !.rest = rest]]
          /\ job[t].step = "lock"
      BY <1>1, <1>2 DEF Lock, At, Job
    <2>. HIDE DEF rest
    <2>2. /\ job'[t].step = "each" /\ job'[t].out = job[t].out
          /\ job'[t].msg = job[t].msg /\ job'[t].rest = rest
          /\ \A s \in Threads \ {t} : job'[s] = job[s]
      BY <1>1, <2>1 DEF Job
    <2>3. ~Unblock(t)
      BY <2>1 DEF Unblock, At
    <2>. QED  BY <2>1, <2>2, <2>3 DEF Moved, rest
  <1>3. CASE Unblock(t)
    <2>1. /\ job' = [job EXCEPT ![t] = [job[t] EXCEPT !.who = NoUser]]
          /\ job[t].step = "each"
      BY <1>1, <1>3 DEF Unblock, At, Job
    <2>2. /\ job'[t].step = "each" /\ job'[t].out = job[t].out
          /\ job'[t].msg = job[t].msg /\ job'[t].rest = job[t].rest
          /\ \A s \in Threads \ {t} : job'[s] = job[s]
      BY <1>1, <2>1 DEF Job
    <2>3. ~Lock(t)
      BY <2>1 DEF Lock, At
    <2>. QED  BY <2>1, <2>2, <2>3 DEF Moved
  <1>4. ASSUME NEW k \in job[t].rest, Visit(t, k)
        PROVE  /\ Moved(t) /\ job'[t].out = job[t].out
               /\ job[t].step = "each" /\ job'[t].step = "each"
               /\ job'[t].msg = job[t].msg
               /\ ~Lock(t) /\ ~Unblock(t)
    <2>1. /\ \/ job' = [job EXCEPT ![t] = [job[t] EXCEPT
                                               !.rest = job[t].rest \ {k}]]
             \/ job' = [job EXCEPT ![t] = [job[t] EXCEPT
                            !.rest = job[t].rest \ {k}, !.who = members[k]]]
          /\ job[t].step = "each" /\ job[t].who = NoUser
      BY <1>1, <1>4 DEF Visit, At, Job
    <2>2. /\ \/ job'[t] = [job[t] EXCEPT !.rest = job[t].rest \ {k}]
             \/ job'[t] = [job[t] EXCEPT !.rest = job[t].rest \ {k},
                                         !.who = members[k]]
          /\ \A s \in Threads \ {t} : job'[s] = job[s]
      BY <1>1, <2>1
    <2>3. /\ job'[t].step = "each" /\ job'[t].out = job[t].out
          /\ job'[t].msg = job[t].msg
      BY <1>1, <2>1, <2>2 DEF Job
    <2>. QED  BY <2>1, <2>2, <2>3 DEF Moved, Lock, Unblock, At
  <1>. QED  BY <1>2, <1>3, <1>4

LEMMA HandleMsgSaid ==
    ASSUME Inv, JobsSaid, NEW t \in Threads, HandleMsg(t), UNCHANGED typed
    PROVE  JobsSaid'
  <1>1. job[t].step # "idle"
    BY HandledArrivals
  <1>2. CASE Lock(t) \/ Unblock(t) \/ \E k \in job[t].rest : Visit(t, k)
    BY <1>2, EachMoves, MovedSaid DEF JobsSaid
  <1>3. CASE Lookup(t) \/ Direct(t) \/ Deliver(t) \/ Record(t) \/ Unlock(t)
    <2>1. \E s, v : Finish(t) \/ Goto(t, s) \/ Found(t, s, v)
      BY <1>3 DEF Lookup, Direct, Deliver, Record, Unlock
    <2>. QED  BY <1>1, <2>1, IdleJob, WaysSaid
  <1>. QED  BY <1>2, <1>3 DEF HandleMsg

-----------------------------------------------------------------------------
(* What commands post is never public.                                     *)
LEMMA AnswersUnvoiced ==
    ASSUME NEW u, NEW v, NEW n, NEW p
    PROVE  /\ ~Aloud(SystemMsg(u, v, n, p)) /\ ~Aloud(AnnounceMsg(u, n, p))
           /\ Unvoiced(<<SystemMsg(u, v, n, p)>>)
           /\ Unvoiced(<<AnnounceMsg(u, n, p)>>)
           /\ Unvoiced(<<AnnounceMsg(u, n, 2), AnnounceMsg(u, n, 3)>>)
           /\ Unvoiced(<<EmoteMsg(u, n)>>)
           /\ Unvoiced(<<PrivateMsg(u, v, n), SystemMsg(u, u, n, 0)>>)
           /\ ~Aloud(CommandMsg(u, n))
  <1>1. /\ ~Aloud(SystemMsg(u, v, n, p)) /\ ~Aloud(AnnounceMsg(u, n, p))
        /\ ~Aloud(EmoteMsg(u, n)) /\ ~Aloud(PrivateMsg(u, v, n))
        /\ ~Aloud(SystemMsg(u, u, n, 0)) /\ ~Aloud(CommandMsg(u, n))
        /\ ~Aloud(AnnounceMsg(u, n, 2)) /\ ~Aloud(AnnounceMsg(u, n, 3))
    BY DEF SystemMsg, AnnounceMsg, EmoteMsg, PrivateMsg, CommandMsg, Make, Aloud
  <1>2. /\ \A x : ~Aloud(x) => Unvoiced(<<x>>)
        /\ \A x, y : ~Aloud(x) /\ ~Aloud(y) => Unvoiced(<<x, y>>)
    BY DEF Unvoiced
  <1>. QED  BY <1>1, <1>2

LEMMA SendUnvoiced ==
    ASSUME Inv, QueuesSaid, NEW m \in Msg, ~Aloud(m), RoomSend(m)
    PROVE  QueuesSaid'
  <1>1. broadcast \in Seq(Msg) /\ broadcast' = Append(broadcast, m)
    BY Parts DEF QueuesOK, RoomSend
  <1>2. ASSUME NEW i \in DOMAIN broadcast'
        PROVE  ~Aloud(broadcast'[i])
    BY <1>1, <1>2, AppendHas DEF QueuesSaid, Unvoiced
  <1>. QED  BY <1>2 DEF QueuesSaid, Unvoiced, RoomSend

LEMMA FailSaid ==
    ASSUME Inv, JobsSaid, QueuesSaid, NEW u \in Users, Fail(u),
           job[u].step # "idle", UNCHANGED typed
    PROVE  JobsSaid' /\ QueuesSaid'
  <1>1. Finish(u) /\ u \in Threads
    BY UserThreads DEF Fail
  <1>2. JobsSaid'
    BY <1>1, IdleJob, WaysSaid
  <1>3. QueuesSaid'
    BY AnswersUnvoiced DEF Fail, Spawn, QueuesSaid, Unvoiced
  <1>. QED  BY <1>2, <1>3

(* The steps of Members.Each.                                              *)
Loop == {"lock", "each"}

(* A command fails, or goes on and posts answers, or starts a rename, or   *)
(* sends what it had to post.                                              *)
LEMMA CommandWays ==
    ASSUME Inv, NEW u \in Users, RunCommand(u)
    PROVE  /\ job[u].step # "idle"
           /\ \/ Fail(u)
              \/ /\ UNCHANGED queueVars
                 /\ \E s, v, out :
                        /\ Unvoiced(out) /\ s \notin Loop
                        /\ \/ Finish(u) \/ Goto(u, s) \/ Found(u, s, v)
                           \/ Post(u, out) \/ PostThen(u, out, v, s)
              \/ UNCHANGED queueVars /\ \E v \in Users : StartRename(u, v)
              \/ /\ UNCHANGED queueVars
                 /\ \E n : job' = [job EXCEPT ![u] = [job[u] EXCEPT
                                       !.step = "replace", !.now = n]]
              \/ SendOut(u)
  <1>1. job[u].step # "idle"
    BY DEF RunCommand, Bad, Info, Emote, Exit, ToggleQuiet, Ignore, Unignore,
           PrivateTo, ReplyBack, SetReplyTo, Nick, SetID, Rename,
           ReplaceMember, Revert, Authorize, NoTarget, Mute, SetMute, Kick,
           CloseTarget, Op, OpKey, OpRename, OpRenameTarget, SendOut, Runs,
           Acts, At
  <1>. DEFINE On == \E s, v, out :
                        /\ Unvoiced(out) /\ s \notin Loop
                        /\ \/ Finish(u) \/ Goto(u, s) \/ Found(u, s, v)
                           \/ Post(u, out) \/ PostThen(u, out, v, s)
  <1>0. "idle" \notin Loop /\ Unvoiced(<<>>)
    BY IdleJob DEF Loop
  <1>2. /\ Finish(u) => On
        /\ \A s : s \notin Loop /\ Goto(u, s) => On
        /\ \A s, v : s \notin Loop /\ Found(u, s, v) => On
        /\ \A out : Unvoiced(out) /\ Post(u, out) => On
        /\ \A out, v, s :
               Unvoiced(out) /\ s \notin Loop /\ PostThen(u, out, v, s) => On
    <2>1. Finish(u) => On
      BY <1>0
    <2>2. ASSUME NEW s, s \notin Loop, Goto(u, s)
          PROVE  On
      BY <1>0, <2>2
    <2>5. ASSUME NEW s, s \notin Loop, NEW v, Found(u, s, v)
          PROVE  On
      BY <1>0, <2>5
    <2>3. ASSUME NEW out, Unvoiced(out), Post(u, out)
          PROVE  On
      BY <1>0, <2>3
    <2>4. ASSUME NEW out, Unvoiced(out), NEW s, s \notin Loop, NEW v,
                 PostThen(u, out, v, s)
          PROVE  On
      BY <2>4
    <2>. HIDE DEF On
    <2>. QED  BY <2>1, <2>2, <2>3, <2>4, <2>5
  <1>. HIDE DEF On
  <1>3. CASE \/ Info(u) \/ Emote(u) \/ ToggleQuiet(u) \/ Ignore(u)
             \/ Unignore(u) \/ SetMute(u) \/ OpKey(u)
    <2>1. \/ Fail(u)
          \/ UNCHANGED queueVars /\ \E out : Unvoiced(out) /\ Post(u, out)
      BY <1>3, AnswersUnvoiced
         DEF Info, Emote, ToggleQuiet, Ignore, Unignore, SetMute, OpKey, Reply
    <2>3. Fail(u) \/ (UNCHANGED queueVars /\ On)
      BY <1>2, <2>1
    <2>. QED  BY <1>1, <2>3 DEF On
  <1>4. CASE \/ Exit(u) \/ SetReplyTo(u) \/ Authorize(u) \/ Mute(u)
             \/ CloseTarget(u) \/ Op(u) \/ Bad(u) \/ NoTarget(u) \/ SetID(u)
             \/ Revert(u)
    <2>0. {"idle", "act", "muteOn", "muteOff", "opkey", "commit"}
              \cap Loop = {}
      BY DEF Loop
    <2>1. \/ Fail(u)
          \/ /\ UNCHANGED queueVars
             /\ \/ Finish(u)
                \/ \E s \in {"idle", "act", "muteOn", "muteOff", "opkey",
                            "commit"} :
                       \E v : Goto(u, s) \/ Found(u, s, v)
      BY <1>4 DEF Exit, SetReplyTo, Authorize, Mute, CloseTarget, Op, Bad,
                  NoTarget, SetID, Revert
    <2>2. Fail(u) \/ (UNCHANGED queueVars /\ On)
      BY <1>2, <2>0, <2>1
    <2>. QED  BY <1>1, <2>2 DEF On
  <1>9. CASE Rename(u) /\ ~Goto(u, "revert")
    <2>1. job' = [job EXCEPT ![u] = [job[u] EXCEPT
                      !.step = "replace", !.now = id[job[u].who]]]
      BY <1>9, UserThreads, Parts DEF Rename
    <2>. QED  BY <1>1, <1>9, <2>1 DEF Rename
  <1>5. CASE \/ Kick(u) \/ PrivateTo(u) \/ ReplyBack(u) \/ ReplaceMember(u)
             \/ Rename(u) /\ Goto(u, "revert")
    <2>1. Unvoiced(Renames(u))
      BY AnswersUnvoiced DEF Renames
    <2>2. \/ Fail(u)
          \/ /\ UNCHANGED queueVars
             /\ \E out, v, s : /\ Unvoiced(out) /\ s \notin Loop
                               /\ \/ Goto(u, s) \/ Post(u, out)
                                  \/ PostThen(u, out, v, s)
      <3>1. CASE Kick(u)
        BY <3>1, AnswersUnvoiced DEF Kick, Loop
      <3>2. CASE PrivateTo(u) \/ ReplyBack(u)
        BY <3>2, AnswersUnvoiced DEF PrivateTo, ReplyBack, SendPM, Reply, Loop
      <3>3. CASE ReplaceMember(u) \/ (Rename(u) /\ Goto(u, "revert"))
        BY <2>1, <3>3, IdleJob DEF Rename, ReplaceMember, Loop
      <3>. QED  BY <1>5, <3>1, <3>2, <3>3
    <2>3. Fail(u) \/ (UNCHANGED queueVars /\ On)
      BY <1>2, <2>2
    <2>. QED  BY <1>1, <2>3 DEF On
  <1>6. CASE OpRename(u)
    <2>1. UNCHANGED queueVars
          /\ \E out, v, s : /\ Unvoiced(out) /\ s \notin Loop
                            /\ Found(u, s, v) \/ PostThen(u, out, v, s)
      BY <1>6, AnswersUnvoiced DEF OpRename, Loop
    <2>3. Fail(u) \/ (UNCHANGED queueVars /\ On)
      BY <1>2, <2>1
    <2>. QED  BY <1>1, <2>3 DEF On
  <1>7. CASE Nick(u)
    <2>1. id[u] \in Names
      BY Parts DEF UsersTypeOK
    <2>2. Get(id[u]) \in Users \cup {NoUser}
      BY <2>1, GetType
    <2>. QED  BY <1>1, <1>7, <2>2 DEF Nick
  <1>8. CASE OpRenameTarget(u)
    <2>1. job[u].who \in Users
      BY <1>8, JobFacts, UserThreads DEF OpRenameTarget, At, JobOK, TargetSteps
    <2>. QED  BY <1>1, <1>2, <1>8, <2>1 DEF OpRenameTarget, On
  <1>. QED
    BY <1>1, <1>3, <1>4, <1>5, <1>6, <1>7, <1>8, <1>9 DEF RunCommand

LEMMA SendOutSaid ==
    ASSUME Inv, JobsSaid, QueuesSaid, NEW u \in Users, SendOut(u),
           UNCHANGED typed
    PROVE  JobsSaid' /\ QueuesSaid'
  <1>. DEFINE out == job[u].out
  <1>1. /\ job \in [Threads -> Job] /\ job[u] \in Job /\ u \in Threads
        /\ out \in Seq(Msg) /\ out # <<>> /\ job[u].step = "out"
    BY Parts, JobFacts, UserThreads DEF SendOut, At, JobOK, Job
  <1>2. Unvoiced(out)
    BY <1>1 DEF JobsSaid
  <1>3. Head(out) \in Msg /\ ~Aloud(Head(out))
    <2>1. Head(out) = out[1] /\ 1 \in DOMAIN out /\ Head(out) \in Msg
      BY <1>1
    <2>. QED  BY <1>2, <2>1 DEF Unvoiced
  <1>4. QueuesSaid'
    BY <1>3, SendUnvoiced DEF SendOut
  <1>5. Unvoiced(Tail(out))
    <2>. SUFFICES ASSUME NEW i \in DOMAIN Tail(out)
                  PROVE  ~Aloud(Tail(out)[i])
      BY DEF Unvoiced
    <2>. QED  BY <1>1, <1>2, TailHas DEF Unvoiced
  <1>6. CASE job' = [job EXCEPT ![u] = [job[u] EXCEPT !.out = Tail(out)]]
    <2>1. job'[u] = [job[u] EXCEPT !.out = Tail(out)]
          /\ \A t \in Threads \ {u} : job'[t] = job[t]
      BY <1>1, <1>6
    <2>2. job'[u].msg = job[u].msg /\ job'[u].out = Tail(out)
      BY <1>1, <2>1 DEF Job
    <2>3. Moved(u)
      BY <1>1, <2>1, <2>2 DEF Moved
    <2>. QED  BY <1>1, <1>5, <2>2, <2>3, <1>4, MovedSaid
  <1>7. CASE Finish(u)
    BY <1>1, <1>4, <1>7, IdleJob, WaysSaid
  <1>8. CASE job' = [job EXCEPT ![u] = [job[u] EXCEPT !.step = job[u].then,
                                           !.out = <<>>, !.then = "idle"]]
    <2>1. job'[u] = [job[u] EXCEPT !.step = job[u].then, !.out = <<>>,
                                   !.then = "idle"]
          /\ \A t \in Threads \ {u} : job'[t] = job[t]
      BY <1>1, <1>8
    <2>2. job'[u].msg = job[u].msg /\ job'[u].out = <<>>
      BY <1>1, <2>1 DEF Job
    <2>3. Moved(u)
      BY <1>1, <2>1, <2>2 DEF Moved
    <2>. QED  BY <1>1, <2>2, <2>3, <1>4, IdleJob, MovedSaid
  <1>9. job' = [job EXCEPT ![u].out = Tail(out)] =>
            job' = [job EXCEPT ![u] = [job[u] EXCEPT !.out = Tail(out)]]
    BY <1>1
  <1>. QED  BY <1>6, <1>7, <1>8, <1>9 DEF SendOut

LEMMA RunCommandSaid ==
    ASSUME Inv, JobsSaid, QueuesSaid, NEW u \in Users, RunCommand(u),
           UNCHANGED typed
    PROVE  JobsSaid' /\ QueuesSaid'
  <1>1. job[u].step # "idle" /\ u \in Threads
    BY CommandWays, UserThreads
  <1>2. CASE Fail(u)
    BY <1>1, <1>2, FailSaid
  <1>3. UNCHANGED queueVars => QueuesSaid'
    BY DEF queueVars, QueuesSaid
  <1>4. ASSUME NEW s, NEW v, NEW out, Unvoiced(out),
               \/ Finish(u) \/ Goto(u, s) \/ Found(u, s, v)
               \/ Post(u, out) \/ PostThen(u, out, v, s)
        PROVE  JobsSaid'
    BY <1>1, <1>4, WaysSaid
  <1>5. ASSUME NEW v \in Users, StartRename(u, v)
        PROVE  JobsSaid'
    <2>1. job'[u] = [job[u] EXCEPT !.step = "setid", !.who = v, !.old = id[v]]
          /\ \A t \in Threads \ {u} : job'[t] = job[t]
      BY <1>1, <1>5, Parts DEF StartRename
    <2>2. job'[u].msg = job[u].msg /\ job'[u].out = job[u].out
      BY <1>1, <2>1, JobFacts DEF Job
    <2>3. Moved(u) /\ Unvoiced(job'[u].out)
      BY <1>1, <2>1, <2>2 DEF Moved, JobsSaid
    <2>. QED  BY <1>1, <2>3, MovedSaid
  <1>6. CASE SendOut(u)
    BY <1>6, SendOutSaid
  <1>7. ASSUME NEW n, job' = [job EXCEPT ![u] = [job[u] EXCEPT
                                  !.step = "replace", !.now = n]]
        PROVE  JobsSaid'
    <2>1. job'[u] = [job[u] EXCEPT !.step = "replace", !.now = n]
          /\ \A t \in Threads \ {u} : job'[t] = job[t]
      BY <1>1, <1>7, Parts
    <2>2. job'[u].msg = job[u].msg /\ job'[u].out = job[u].out
      BY <1>1, <2>1, JobFacts DEF Job
    <2>3. Moved(u) /\ Unvoiced(job'[u].out)
      BY <1>1, <2>1, <2>2 DEF Moved, JobsSaid
    <2>. QED  BY <1>1, <2>3, MovedSaid
  <1>. QED  BY <1>2, <1>3, <1>4, <1>5, <1>6, <1>7, CommandWays

(* A goroutine takes up a message: if it is public it is the line its      *)
(* author has just typed.                                                  *)
LEMMA BegunSaid ==
    ASSUME Inv, JobsSaid, NEW t \in Threads, NEW m, NEW l, Begin(t, m, l),
           Aloud(m) => t = m.by /\ m.line = typed'[t],
           \A s \in Threads \ {t} : s \in Users => typed'[s] = typed[s]
    PROVE  JobsSaid'
  <1>. DEFINE s == IF FromID(m) = NoName THEN Branch(m) ELSE "lookup"
              j == [Idle EXCEPT !.msg = m, !.line = l, !.from = FromID(m),
                                !.step = s]
  <1>1. job \in [Threads -> Job]
    BY Parts
  <1>2. job'[t] = j /\ \A x \in Threads \ {t} : job'[x] = job[x]
    BY <1>1 DEF Begin
  <1>. HIDE DEF s
  <1>3. j.msg = m /\ j.out = <<>>
    BY DEF Idle
  <1>. HIDE DEF j
  <1>. SUFFICES ASSUME NEW x \in Threads
                PROVE  /\ job'[x].step # "idle" /\ Aloud(job'[x].msg) =>
                              /\ x = job'[x].msg.by
                              /\ job'[x].msg.line = typed'[x]
                       /\ Unvoiced(job'[x].out)
    BY DEF JobsSaid, Aloud, Unvoiced
  <1>4. CASE x = t
    BY <1>2, <1>3, <1>4, IdleJob
  <1>5. CASE x # t
    <2>1. job'[x] = job[x] /\ Unvoiced(job[x].out)
      BY <1>2, <1>5 DEF JobsSaid
    <2>2. ASSUME job[x].step # "idle", Aloud(job[x].msg)
          PROVE  x \in Users /\ x = job[x].msg.by /\ job[x].msg.line = typed[x]
      BY <2>2, JobFacts, MessageFields DEF JobsSaid
    <2>. QED  BY <1>5, <2>1, <2>2
  <1>. QED  BY <1>4, <1>5

LEMMA ReadLineSaid ==
    ASSUME Inv, JobsSaid, NEW u \in Users, NEW l \in Lines[u], ReadLine(u, l)
    PROVE  JobsSaid' /\ \A v \in Users : typed[v] <= typed'[v]
  <1>. DEFINE n == typed[u] + 1
  <1>1. /\ typed \in [Users -> Nat] /\ typed' = [typed EXCEPT ![u] = n]
        /\ u \in Threads /\ job \in [Threads -> Job]
    BY Parts, UserThreads DEF HostOK, ReadLine
  <1>2. /\ typed'[u] = n /\ \A v \in Users \ {u} : typed'[v] = typed[v]
        /\ \A v \in Users : typed[v] <= typed'[v]
    BY <1>1
  <1>. HIDE DEF n
  <1>3. CASE Begin(u, PublicMsg(u, n), l)
    <2>1. PublicMsg(u, n).by = u /\ PublicMsg(u, n).line = n
      BY DEF PublicMsg, Make
    <2>. QED  BY <1>1, <1>2, <1>3, <2>1, BegunSaid
  <1>4. CASE Begin(u, CommandMsg(u, n), l)
    BY <1>1, <1>2, <1>4, AnswersUnvoiced, BegunSaid
  <1>5. CASE job' = [job EXCEPT ![u] = [Idle EXCEPT !.step = "send",
                         !.msg = SystemMsg(u, u, n, 0), !.who = u]]
    <2>. DEFINE j == [Idle EXCEPT !.step = "send",
                         !.msg = SystemMsg(u, u, n, 0), !.who = u]
    <2>1. j.msg = SystemMsg(u, u, n, 0) /\ j.out = <<>>
      BY DEF Idle
    <2>2. job'[u] = j /\ \A x \in Threads \ {u} : job'[x] = job[x]
      BY <1>1, <1>5
    <2>. HIDE DEF j
    <2>3. ~Aloud(job'[u].msg) /\ Unvoiced(job'[u].out)
      BY <2>1, <2>2, AnswersUnvoiced, IdleJob
    <2>4. ASSUME NEW x \in Threads \ {u}
          PROVE  /\ job'[x].step # "idle" /\ Aloud(job'[x].msg) =>
                        /\ x = job'[x].msg.by
                        /\ job'[x].msg.line = typed'[x]
                 /\ Unvoiced(job'[x].out)
      <3>1. job'[x] = job[x] /\ Unvoiced(job[x].out)
        BY <2>2 DEF JobsSaid
      <3>2. ASSUME job[x].step # "idle", Aloud(job[x].msg)
            PROVE  x \in Users /\ x = job[x].msg.by /\ job[x].msg.line = typed[x]
        BY <3>2, JobFacts, MessageFields DEF JobsSaid
      <3>. QED  BY <1>2, <3>1, <3>2
    <2>. QED  BY <1>2, <2>3, <2>4 DEF JobsSaid, Aloud, Unvoiced
  <1>. QED  BY <1>2, <1>3, <1>4, <1>5 DEF ReadLine, n

LEMMA ConnectSaid ==
    ASSUME Inv, JobsSaid, QueuesSaid, NEW u \in Users, Connect(u)
    PROVE  JobsSaid' /\ QueuesSaid' /\ \A v \in Users : typed[v] <= typed'[v]
  <1>1. u \in Threads /\ typed \in [Users -> Nat]
    BY UserThreads, Parts DEF HostOK
  <1>2. UNCHANGED typed => \A v \in Users : typed[v] <= typed'[v]
    BY <1>1
  <1>3. UNCHANGED <<job, typed>> => JobsSaid'
    BY DEF JobsSaid, Aloud, Unvoiced
  <1>4. UNCHANGED queueVars => QueuesSaid'
    BY DEF queueVars, QueuesSaid, Unvoiced, Aloud
  <1>5. CASE AnnounceJoin(u) \/ AnnounceLeave(u)
    <2>1. /\ UNCHANGED <<job, typed>>
          /\ RoomSend(AnnounceMsg(u, 0, 0)) \/ RoomSend(AnnounceMsg(u, 0, 1))
      BY <1>5 DEF AnnounceJoin, AnnounceLeave
    <2>2. AnnounceMsg(u, 0, 0) \in Msg /\ AnnounceMsg(u, 0, 1) \in Msg
      BY MessageTypes
    <2>3. ~Aloud(AnnounceMsg(u, 0, 0)) /\ ~Aloud(AnnounceMsg(u, 0, 1))
      BY AnswersUnvoiced
    <2>. QED  BY <1>2, <1>3, <2>1, <2>2, <2>3, SendUnvoiced
  <1>6. CASE RunEnv(u)
    <2>1. UNCHANGED queueVars
      BY <1>6 DEF RunEnv
    <2>2. CASE UNCHANGED <<job, typed>>
      BY <1>2, <1>3, <1>4, <2>1, <2>2
    <2>. DEFINE n == typed[u] + 1
    <2>3. ASSUME NEW l, Begin(u, CommandMsg(u, n), l),
                 typed' = [typed EXCEPT ![u] = n]
          PROVE  JobsSaid' /\ \A v \in Users : typed[v] <= typed'[v]
      <3>1. /\ \A v \in Users \ {u} : typed'[v] = typed[v]
            /\ \A v \in Users : typed[v] <= typed'[v]
        BY <1>1, <2>3
      <3>2. ~Aloud(CommandMsg(u, n))
        BY AnswersUnvoiced
      <3>. HIDE DEF n
      <3>. QED  BY <1>1, <2>3, <3>1, <3>2, BegunSaid
    <2>. QED  BY <1>4, <1>6, <2>1, <2>2, <2>3 DEF RunEnv
  <1>7. ASSUME NEW l \in Lines[u], ReadLine(u, l)
        PROVE  JobsSaid' /\ QueuesSaid' /\ \A v \in Users : typed[v] <= typed'[v]
    <2>1. UNCHANGED queueVars
      BY <1>7 DEF ReadLine
    <2>. QED  BY <1>4, <1>7, <2>1, ReadLineSaid
  <1>8. CASE \/ Arrive(u) \/ SendMotd(u) \/ Join(u) \/ GetHistory(u) \/ Feed(u)
             \/ CheckOp(u) \/ GrantOp(u) \/ EndOfInput(u) \/ Leave(u)
             \/ Disconnect(u)
    <2>1. UNCHANGED <<job, typed, queueVars>>
      BY <1>8 DEF Arrive, SendMotd, Join, GetHistory, Feed, CheckOp, GrantOp,
                  EndOfInput, Leave, Disconnect, roomVars
    <2>. QED  BY <1>2, <1>3, <1>4, <2>1
  <1>. QED  BY <1>5, <1>6, <1>7, <1>8 DEF Connect

LEMMA NextSaid ==
    ASSUME Inv, JobsSaid, QueuesSaid, [Next]_vars
    PROVE  JobsSaid' /\ QueuesSaid' /\ \A v \in Users : typed[v] <= typed'[v]
  <1>1. typed \in [Users -> Nat] /\ broadcast \in Seq(Msg) /\ ready \subseteq Msg
    BY Parts DEF HostOK, QueuesOK
  <1>2. UNCHANGED typed => \A v \in Users : typed[v] <= typed'[v]
    BY <1>1
  <1>3. UNCHANGED <<job, typed>> => JobsSaid'
    BY DEF JobsSaid, Aloud, Unvoiced
  <1>4. UNCHANGED queueVars => QueuesSaid'
    BY DEF queueVars, QueuesSaid, Unvoiced, Aloud
  <1>5. CASE Serve /\ UNCHANGED hostVars
    <2>1. UNCHANGED <<job, typed>>
      BY <1>5 DEF Serve, hostVars
    <2>2. /\ broadcast # <<>> /\ broadcast' = Tail(broadcast)
          /\ ready' = ready \cup {broadcast[1]} /\ 1 \in DOMAIN broadcast
      BY <1>1, <1>5 DEF Serve
    <2>3. ASSUME NEW i \in DOMAIN broadcast'
          PROVE  ~Aloud(broadcast'[i])
      BY <1>1, <2>2, <2>3, TailHas DEF QueuesSaid, Unvoiced
    <2>4. QueuesSaid'
      BY <2>2, <2>3 DEF QueuesSaid, Unvoiced
    <2>. QED  BY <1>2, <1>3, <2>1, <2>4
  <1>6. ASSUME NEW t \in Tasks, NEW m \in ready, StartTask(t, m),
               UNCHANGED hostVars
        PROVE  JobsSaid' /\ QueuesSaid' /\ \A v \in Users : typed[v] <= typed'[v]
    <2>1. UNCHANGED <<typed, broadcast>> /\ ready' \subseteq ready
          /\ Begin(t, m, NoLine) /\ t \in Threads /\ ~Aloud(m)
      BY <1>6 DEF StartTask, hostVars, Threads, QueuesSaid
    <2>2. JobsSaid'
      BY <2>1, BegunSaid
    <2>3. QueuesSaid'
      BY <2>1 DEF QueuesSaid, Unvoiced
    <2>. QED  BY <1>2, <2>1, <2>2, <2>3
  <1>7. ASSUME NEW t \in Threads, HandleMsg(t), UNCHANGED hostVars
        PROVE  JobsSaid' /\ QueuesSaid' /\ \A v \in Users : typed[v] <= typed'[v]
    <2>1. UNCHANGED <<typed, queueVars>>
      BY <1>7 DEF hostVars, HandleMsg, Lookup, Direct, Deliver, Record, Lock,
                  Visit, Unblock, Unlock
    <2>. QED  BY <1>2, <1>4, <1>7, <2>1, HandleMsgSaid
  <1>8. ASSUME NEW u \in Users, RunCommand(u), UNCHANGED hostVars
        PROVE  JobsSaid' /\ QueuesSaid' /\ \A v \in Users : typed[v] <= typed'[v]
    BY <1>2, <1>8, RunCommandSaid DEF hostVars
  <1>9. ASSUME NEW u \in Users, Screen(u)
        PROVE  JobsSaid' /\ QueuesSaid' /\ \A v \in Users : typed[v] <= typed'[v]
    BY <1>2, <1>3, <1>4, <1>9 DEF Screen, roomVars, hostVars
  <1>10. CASE UNCHANGED vars
    BY <1>2, <1>3, <1>4, <1>10 DEF vars, roomVars, hostVars
  <1>. QED
    BY <1>5, <1>6, <1>7, <1>8, <1>9, <1>10, ConnectSaid
       DEF Next, Dispatch, Rest

-----------------------------------------------------------------------------
(* The history grows by what HandleMsg records, a feed only shrinks until  *)
(* it is the history of the moment.                                        *)
LEMMA HistoryGrows ==
    ASSUME [Next]_vars
    PROVE  \/ UNCHANGED history
           \/ \E t \in Threads : Record(t) /\ UNCHANGED hostVars
  <1>1. CASE Dispatch
    BY <1>1 DEF Dispatch, Serve, StartTask
  <1>2. ASSUME NEW t \in Threads, HandleMsg(t), ~Record(t)
        PROVE  UNCHANGED history
    BY <1>2 DEF HandleMsg, Lookup, Direct, Deliver, Lock, Visit, Unblock, Unlock
  <1>3. ASSUME NEW u \in Users, Connect(u)
        PROVE  UNCHANGED history
    <2>1. CASE \/ Arrive(u) \/ SendMotd(u) \/ Join(u) \/ GetHistory(u)
               \/ Feed(u) \/ AnnounceJoin(u) \/ RunEnv(u)
      BY <2>1 DEF Arrive, SendMotd, Join, GetHistory, Feed, AnnounceJoin,
                  RunEnv, roomVars
    <2>2. CASE \/ CheckOp(u) \/ GrantOp(u) \/ EndOfInput(u) \/ Leave(u)
               \/ AnnounceLeave(u) \/ Disconnect(u)
      BY <2>2 DEF CheckOp, GrantOp, EndOfInput, Leave, AnnounceLeave,
                  Disconnect, roomVars
    <2>3. ASSUME NEW l \in Lines[u], ReadLine(u, l)
          PROVE  UNCHANGED history
      BY <2>3 DEF ReadLine
    <2>. QED  BY <1>3, <2>1, <2>2, <2>3 DEF Connect
  <1>4. CASE (\E u \in Users : Screen(u)) \/ UNCHANGED vars
    BY <1>4 DEF Screen, vars, roomVars
  <1>. QED
    BY <1>1, <1>2, <1>3, <1>4, CommandBuffers DEF Next, Rest

LEMMA FeedShrinks ==
    ASSUME Inv, [Next]_vars, NEW u \in Users
    PROVE  \/ feed'[u] = feed[u]
           \/ GetHistory(u) /\ feed'[u] = history
           \/ /\ Feed(u) /\ feed[u] # <<>> /\ feed'[u] = Tail(feed[u])
              /\ SendTo(u, Head(feed[u]))
  <1>1. feed \in [Users -> Seq(Msg)]
    BY Parts DEF HostOK
  <1>2. ASSUME NEW v \in Users, Connect(v)
        PROVE  \/ feed'[u] = feed[u]
               \/ GetHistory(u) /\ feed'[u] = history
               \/ /\ Feed(u) /\ feed[u] # <<>> /\ feed'[u] = Tail(feed[u])
                  /\ SendTo(u, Head(feed[u]))
    <2>1. CASE \/ Arrive(v) \/ SendMotd(v) \/ Join(v) \/ AnnounceJoin(v)
               \/ RunEnv(v) \/ CheckOp(v) \/ GrantOp(v)
      BY <2>1 DEF Arrive, SendMotd, Join, AnnounceJoin, RunEnv, CheckOp,
                  GrantOp
    <2>2. CASE \/ EndOfInput(v) \/ Leave(v) \/ AnnounceLeave(v)
               \/ Disconnect(v)
      BY <2>2 DEF EndOfInput, Leave, AnnounceLeave, Disconnect
    <2>3. ASSUME NEW l \in Lines[v], ReadLine(v, l)
          PROVE  UNCHANGED feed
      BY <2>3 DEF ReadLine
    <2>4. CASE GetHistory(v)
      BY <1>1, <2>4 DEF GetHistory
    <2>5. CASE Feed(v)
      BY <1>1, <2>5 DEF Feed
    <2>. QED  BY <1>2, <2>1, <2>2, <2>3, <2>4, <2>5 DEF Connect
  <1>3. CASE ~\E v \in Users : Connect(v)
    BY <1>3 DEF Next, Rest, Screen, vars, hostVars
  <1>. QED  BY <1>2, <1>3

-----------------------------------------------------------------------------
LEMMA StillSaid ==
    ASSUME \A v \in Users : typed[v] <= typed'[v], typed \in [Users -> Nat],
           typed' \in [Users -> Nat], NEW m \in Msg, SaidBefore(m)
    PROVE  SaidBy(m, typed')
  <1>1. m.line \in Nat
    BY MessageFields
  <1>2. Aloud(m) => m.by \in Users /\ typed[m.by] \in Nat
                    /\ typed'[m.by] \in Nat /\ m.line <= typed[m.by]
                    /\ typed[m.by] <= typed'[m.by]
    BY DEF SaidBefore, SaidBy
  <1>. QED  BY <1>1, <1>2 DEF SaidBy

(* What a goroutine handles has been typed.                                *)
LEMMA HandlingSaid ==
    ASSUME Inv, JobsSaid, NEW t \in Threads, job[t].step # "idle"
    PROVE  job[t].msg \in Msg /\ SaidBefore(job[t].msg)
  <1>1. job[t].msg \in Msg
    BY JobFacts
  <1>2. job[t].msg.by \in Users /\ job[t].msg.line \in Nat
    BY <1>1, MessageFields
  <1>. QED  BY <1>1, <1>2 DEF JobsSaid, SaidBefore, SaidBy

LEMMA GotGrows ==
    ASSUME [TraceNext]_<<vars, traceVars>>, NEW u \in Users
    PROVE  got'[u] = got[u] \cup Arrived(u)
  <1>1. CASE TraceNext
    BY <1>1 DEF TraceNext, Observe
  <1>2. CASE UNCHANGED <<vars, traceVars>>
    BY <1>2, NoneArrives DEF vars, roomVars, userVars, pipeVars, traceVars
  <1>. QED  BY <1>1, <1>2

LEMMA InitOrder == ASSUME TraceInit PROVE OrderInv
  <1>0. Init
    BY DEF TraceInit
  <1>1. \A i \in DOMAIN history : ~Aloud(history[i])
    BY <1>0, HistoryJoins DEF Aloud
  <1>2. history \in Seq(Msg)
    BY <1>0, InitInv, Parts DEF HistoryOK
  <1>5. HistorySaid /\ GotSaid
    BY <1>1, <1>2 DEF HistorySaid, GotSaid, SaidBefore, SaidBy, TraceInit
  <1>3. FeedsSaid /\ QueuesSaid
    BY <1>0 DEF Init, FeedsSaid, QueuesSaid, Unvoiced
  <1>4. JobsSaid
    BY <1>0, IdleJob DEF Init, JobsSaid
  <1>. QED  BY <1>3, <1>4, <1>5 DEF OrderInv

LEMMA NextOrder ==
    ASSUME Inv, OrderInv, [TraceNext]_<<vars, traceVars>>
    PROVE  OrderInv'
  <1>1. [Next]_vars /\ Inv'
    BY NextInv DEF TraceNext
  <1>2. JobsSaid' /\ QueuesSaid' /\ \A v \in Users : typed[v] <= typed'[v]
    BY <1>1, NextSaid DEF OrderInv
  <1>3. typed \in [Users -> Nat] /\ typed' \in [Users -> Nat]
    BY <1>1, Parts DEF HostOK, Inv, TypeOK
  <1>4. ASSUME NEW m \in Msg, SaidBefore(m)
        PROVE  SaidBy(m, typed')
    BY <1>2, <1>3, <1>4, StillSaid
  <1>5. /\ history \in Seq(Msg) /\ feed \in [Users -> Seq(Msg)]
        /\ \A u \in Users : feed[u] \in Seq(Msg)
    BY Parts DEF HistoryOK, HostOK
  <1>6. HistorySaid'
    <2>1. CASE UNCHANGED history
      <3>. SUFFICES ASSUME NEW i \in DOMAIN history
                    PROVE  SaidBy(history[i], typed')
        BY <2>1 DEF HistorySaid, SaidBefore
      <3>1. history[i] \in Msg /\ SaidBefore(history[i])
        BY <1>5 DEF OrderInv, HistorySaid
      <3>. QED  BY <1>4, <3>1
    <2>2. ASSUME NEW t \in Threads, Record(t)
          PROVE  HistorySaid'
      <3>. DEFINE m == job[t].msg
      <3>1. m \in Msg /\ SaidBefore(m)
        BY <2>2, HandlingSaid DEF Record, At, OrderInv
      <3>. HIDE DEF m
      <3>2. ASSUME NEW s \in Seq(Msg), history' = Append(s, m),
                   \A i \in DOMAIN s : SaidBefore(s[i])
            PROVE  HistorySaid'
        <4>1. ASSUME NEW i \in DOMAIN history'
              PROVE  SaidBy(history'[i], typed')
          <5>1. \/ i \in DOMAIN s /\ history'[i] = s[i] /\ s[i] \in Msg
                \/ history'[i] = m
            BY <3>1, <3>2, <4>1, AppendHas
          <5>. QED  BY <1>4, <3>1, <3>2, <5>1
        <4>. QED  BY <4>1 DEF HistorySaid, SaidBefore
      <3>3. CASE history' = Append(history, m)
        BY <1>5, <3>2, <3>3 DEF OrderInv, HistorySaid
      <3>4. CASE /\ history' = Append(Tail(history), m)
                 /\ ~(Len(history) < HistoryLen)
        <4>1. history # <<>> /\ Tail(history) \in Seq(Msg)
          BY <1>5, <3>4, RoomAssumption
        <4>2. \A i \in DOMAIN Tail(history) : SaidBefore(Tail(history)[i])
          BY <1>5, <4>1, TailHas DEF OrderInv, HistorySaid
        <4>. QED  BY <3>2, <3>4, <4>1, <4>2
      <3>. QED  BY <2>2, <3>3, <3>4 DEF Record, Remember, m
    <2>. QED  BY <1>1, <2>1, <2>2, HistoryGrows
  <1>7. FeedsSaid'
    <2>. SUFFICES ASSUME NEW u \in Users, NEW i \in DOMAIN feed'[u]
                  PROVE  SaidBy(feed'[u][i], typed')
      BY DEF FeedsSaid, SaidBefore
    <2>1. feed'[u][i] \in Msg /\ SaidBefore(feed'[u][i])
      <3>1. CASE feed'[u] = feed[u]
        BY <1>5, <3>1 DEF OrderInv, FeedsSaid
      <3>2. CASE feed'[u] = history
        BY <1>5, <3>2 DEF OrderInv, HistorySaid
      <3>3. CASE feed[u] # <<>> /\ feed'[u] = Tail(feed[u])
        <4>1. i + 1 \in DOMAIN feed[u] /\ feed'[u][i] = feed[u][i + 1]
          BY <1>5, <3>3, TailHas
        <4>2. feed[u][i + 1] \in Msg
          BY <1>5, <4>1
        <4>. QED  BY <4>1, <4>2 DEF OrderInv, FeedsSaid
      <3>. QED  BY <1>1, <3>1, <3>2, <3>3, FeedShrinks
    <2>. QED  BY <1>4, <2>1
  <1>8. GotSaid'
    <2>. SUFFICES ASSUME NEW u \in Users, NEW x \in got'[u]
                  PROVE  x \in Msg /\ SaidBy(x, typed')
      BY DEF GotSaid, SaidBefore
    <2>1. x \in got[u] \/ x \in Arrived(u)
      BY GotGrows
    <2>2. ASSUME x \in Arrived(u)
          PROVE  x \in Msg /\ SaidBefore(x)
      <3>1. x \in Msg
        <4>1. inbox' \in [Users -> Seq(Msg)] /\ inbox \in [Users -> Seq(Msg)]
          BY <1>1, Parts DEF UsersTypeOK, Inv, TypeOK
        <4>2. inbox'[u] \in Seq(Msg) /\ inbox[u] \in Seq(Msg)
          BY <4>1
        <4>3. Len(inbox'[u]) > Len(inbox[u]) /\ x = inbox'[u][Len(inbox'[u])]
          BY <2>2 DEF Arrived
        <4>. QED  BY <4>2, <4>3
      <3>2. CASE ~Aloud(x)
        BY <3>1, <3>2 DEF SaidBefore, SaidBy
      <3>3. CASE \E t \in Threads : job[t].step # "idle" /\ x = job[t].msg
        BY <3>3, HandlingSaid DEF OrderInv
      <3>4. CASE feed[u] # <<>> /\ x = Head(feed[u])
        <4>1. 1 \in DOMAIN feed[u] /\ x = feed[u][1]
          BY <1>5, <3>4
        <4>. QED  BY <3>1, <4>1 DEF OrderInv, FeedsSaid
      <3>. QED  BY <1>1, <2>2, <3>2, <3>3, <3>4, Arrivals
    <2>3. x \in Msg /\ SaidBefore(x)
      BY <2>1, <2>2 DEF OrderInv, GotSaid
    <2>. QED  BY <1>4, <2>3
  <1>. QED  BY <1>2, <1>6, <1>7, <1>8 DEF OrderInv

(* Public text of one author reaches every listening user in the order it  *)
(* was typed, whatever the timing of channels, full queues, joins, leaves  *)
(* and renames: Connect handles a line to the end before it reads another. *)
THEOREM PublicStaysInOrder == TraceSpec => PublicInOrder
  <1>1. TraceInit => Inv /\ OrderInv
    BY InitInv, InitOrder DEF TraceInit
  <1>2. Inv /\ OrderInv /\ [TraceNext]_<<vars, traceVars>>
            => Inv' /\ OrderInv'
    BY NextInv, NextOrder DEF TraceNext
  <1>3. ASSUME Inv, OrderInv, [TraceNext]_<<vars, traceVars>>
        PROVE  \A u \in Users : Listening(u) =>
                   \A m \in Arrived(u), o \in got[u] :
                       m.kind = "public" /\ o.kind = "public" /\ m.by = o.by
                           => o.line <= m.line
    <2>. SUFFICES ASSUME NEW u \in Users, Listening(u),
                         NEW m \in Arrived(u), NEW o \in got[u],
                         Aloud(m), Aloud(o), m.by = o.by
                  PROVE  o.line <= m.line
      BY DEF Aloud
    <2>1. [Next]_vars
      BY <1>3 DEF TraceNext
    <2>2. PICK t \in Threads : job[t].step # "idle" /\ m = job[t].msg
      BY <1>3, <2>1, Arrivals DEF Listening
    <2>3. t = m.by /\ m.line = typed[t]
      BY <1>3, <2>2 DEF OrderInv, JobsSaid
    <2>4. o.line <= typed[o.by]
      BY <1>3 DEF OrderInv, GotSaid, SaidBefore, SaidBy
    <2>. QED  BY <2>3, <2>4
  <1>. QED
    BY <1>1, <1>2, <1>3, PTL DEF TraceSpec, PublicInOrder

-----------------------------------------------------------------------------
(* Who moves: one goroutine at a time, and only HandleMsg works its way    *)
(* through Members.Each.                                                   *)
LEMMA HandleMsgWays ==
    ASSUME Inv, NEW t \in Threads, HandleMsg(t)
    PROVE  /\ Moved(t)
           /\ job[t].step = "record" => Record(t) /\ job'[t].step = "lock"
           /\ job[t].step = "lock" => Lock(t)
           /\ job[t].step = "each" =>
                  \/ Unlock(t) \/ Unblock(t)
                  \/ \E k \in job[t].rest : Visit(t, k)
           /\ job[t].step \notin {"record", "lock", "each"} =>
                  job'[t].step \notin Loop
           /\ Record(t) => At(t, "record")
  <1>1. job[t].step # "idle"
    BY HandledArrivals
  <1>2. Branch(job[t].msg) \notin Loop /\ {"idle", "send", "out"} \cap Loop = {}
    BY DEF Branch, Loop
  <1>3. CASE Lookup(t) \/ Direct(t) \/ Deliver(t)
    <2>1. /\ job[t].step \in {"lookup", "direct", "send"}
          /\ \E v : \/ Finish(t) \/ Found(t, "send", v)
                    \/ Goto(t, Branch(job[t].msg))
      BY <1>3 DEF Lookup, Direct, Deliver, At
    <2>2. Moved(t) /\ job'[t].step \in {"idle", "send", "out",
                                        Branch(job[t].msg)}
      BY <1>1, <2>1, WaysOn
    <2>. QED  BY <1>2, <2>1, <2>2 DEF Record, At
  <1>4. CASE Record(t)
    <2>1. Moved(t) /\ job[t].step = "record"
      BY <1>1, <1>4, WaysOn DEF Record, At
    <2>2. job'[t].step = "lock"
      BY <1>4, Parts DEF Record, Goto
    <2>. QED  BY <1>4, <2>1, <2>2 DEF At
  <1>5. CASE Lock(t)
    BY <1>5, EachMoves DEF Lock, At, Record
  <1>6. CASE Unblock(t) \/ \E k \in job[t].rest : Visit(t, k)
    BY <1>6, EachMoves DEF Unblock, Visit, At, Record
  <1>7. CASE Unlock(t)
    BY <1>1, <1>7, WaysOn DEF Unlock, At, Record
  <1>. QED  BY <1>3, <1>4, <1>5, <1>6, <1>7 DEF HandleMsg

(* The steps outside of HandleMsg leave those of Each alone.               *)
Aside(t) == job[t].step \notin {"record", "lock", "each"}
            /\ job'[t].step \notin Loop

LEMMA CommandAside ==
    ASSUME Inv, NEW u \in Users, RunCommand(u)
    PROVE  Aside(u) /\ \A t \in Threads \ {u} : job'[t] = job[t]
  <1>1. job[u].step # "idle" /\ u \in Threads
        /\ job \in [Threads -> Job] /\ job[u] \in Job /\ JobOK(job[u])
    BY CommandWays, UserThreads, Parts, JobFacts
  <1>2. job[u].step \notin {"record", "lock", "each"}
    BY DEF RunCommand, Bad, Info, Emote, Exit, ToggleQuiet, Ignore, Unignore,
           PrivateTo, ReplyBack, SetReplyTo, Nick, SetID, Rename,
           ReplaceMember, Revert, Authorize, NoTarget, Mute, SetMute, Kick,
           CloseTarget, Op, OpKey, OpRename, OpRenameTarget, SendOut, Runs,
           Acts, At
  <1>3. {"idle", "out", "setid", "replace", "replyTo", "close", "rename"}
            \cap Loop = {}
    BY DEF Loop
  <1>4. ASSUME NEW s, s \notin Loop, NEW v, NEW out,
               \/ Finish(u) \/ Goto(u, s) \/ Found(u, s, v)
               \/ Post(u, out) \/ PostThen(u, out, v, s)
        PROVE  Moved(u) /\ job'[u].step \notin Loop
    BY <1>1, <1>3, <1>4, WaysOn
  <1>5. CASE Fail(u)
    BY <1>1, <1>2, <1>3, <1>5, WaysOn DEF Fail, Moved, Aside
  <1>6. ASSUME NEW v \in Users, StartRename(u, v)
        PROVE  /\ \A t \in Threads \ {u} : job'[t] = job[t]
               /\ job'[u].step \notin Loop
    <2>1. job'[u] = [job[u] EXCEPT !.step = "setid", !.who = v, !.old = id[v]]
          /\ \A t \in Threads \ {u} : job'[t] = job[t]
      BY <1>1, <1>6 DEF StartRename
    <2>. QED  BY <1>1, <1>3, <2>1 DEF Job
  <1>7. CASE SendOut(u)
    <2>. DEFINE out == job[u].out
    <2>1. /\ \A t \in Threads \ {u} : job'[t] = job[t]
          /\ \/ job'[u] = [job[u] EXCEPT !.out = Tail(out)]
             \/ job'[u] = Idle
             \/ job'[u] = [job[u] EXCEPT !.step = job[u].then, !.out = <<>>,
                                         !.then = "idle"]
          /\ job[u].step = "out"
      BY <1>1, <1>7 DEF SendOut, Finish, At
    <2>2. job[u].then \in {"idle", "replyTo", "close", "rename"}
      BY <1>1, <2>1 DEF JobOK
    <2>3. job'[u].step \in {"out", "idle", job[u].then}
      BY <1>1, <2>1, IdleJob DEF Job
    <2>. QED  BY <1>2, <1>3, <2>1, <2>2, <2>3 DEF Aside
  <1>8. ASSUME NEW n, job' = [job EXCEPT ![u] = [job[u] EXCEPT
                                  !.step = "replace", !.now = n]]
        PROVE  /\ \A t \in Threads \ {u} : job'[t] = job[t]
               /\ job'[u].step \notin Loop
    <2>1. job'[u] = [job[u] EXCEPT !.step = "replace", !.now = n]
          /\ \A t \in Threads \ {u} : job'[t] = job[t]
      BY <1>1, <1>8
    <2>. QED  BY <1>1, <1>3, <2>1 DEF Job
  <1>. QED
    BY <1>2, <1>4, <1>5, <1>6, <1>7, <1>8, CommandWays DEF Moved, Aside

LEMMA BeginAside ==
    ASSUME Inv, NEW t \in Threads, NEW m, NEW l, Begin(t, m, l)
    PROVE  Aside(t) /\ \A s \in Threads \ {t} : job'[s] = job[s]
  <1>. DEFINE s == IF FromID(m) = NoName THEN Branch(m) ELSE "lookup"
              j == [Idle EXCEPT !.msg = m, !.line = l, !.from = FromID(m),
                                !.step = s]
  <1>1. s \notin Loop /\ j.step = s
    BY DEF Branch, Loop, Idle
  <1>. HIDE DEF s
  <1>2. job'[t] = j /\ \A x \in Threads \ {t} : job'[x] = job[x]
    BY Parts DEF Begin, s
  <1>3. job[t].step = "idle"
    BY DEF Begin, At
  <1>. QED  BY <1>1, <1>2, <1>3 DEF Aside

LEMMA ConnectAside ==
    ASSUME Inv, NEW u \in Users, Connect(u)
    PROVE  \A t \in Threads : job'[t] = job[t] \/ Aside(t)
  <1>1. u \in Threads /\ job \in [Threads -> Job]
    BY UserThreads, Parts
  <1>2. CASE UNCHANGED job
    BY <1>2
  <1>3. ASSUME NEW m, NEW l, Begin(u, m, l)
        PROVE  \A t \in Threads : job'[t] = job[t] \/ Aside(t)
    BY <1>1, <1>3, BeginAside
  <1>4. ASSUME NEW l \in Lines[u], ReadLine(u, l)
        PROVE  \A t \in Threads : job'[t] = job[t] \/ Aside(t)
    <2>. DEFINE m == SystemMsg(u, u, typed[u] + 1, 0)
                j == [Idle EXCEPT !.step = "send", !.msg = m, !.who = u]
    <2>1. CASE job' = [job EXCEPT ![u] = j]
      <3>1. j.step = "send"
        BY DEF Idle
      <3>2. job'[u] = j /\ \A x \in Threads \ {u} : job'[x] = job[x]
        BY <1>1, <2>1
      <3>. HIDE DEF j
      <3>3. job[u].step = "idle"
        BY <1>4 DEF ReadLine, At
      <3>. QED  BY <3>1, <3>2, <3>3 DEF Aside, Loop
    <2>2. CASE \E x, y : Begin(u, x, y)
      BY <1>3, <2>2
    <2>. QED  BY <1>4, <2>1, <2>2 DEF ReadLine
  <1>5. CASE RunEnv(u)
    BY <1>2, <1>3, <1>5 DEF RunEnv
  <1>6. CASE \/ Arrive(u) \/ SendMotd(u) \/ Join(u) \/ GetHistory(u) \/ Feed(u)
             \/ AnnounceJoin(u) \/ CheckOp(u) \/ GrantOp(u) \/ EndOfInput(u)
             \/ Leave(u) \/ AnnounceLeave(u) \/ Disconnect(u)
    <2>1. UNCHANGED job
      BY <1>6 DEF Arrive, SendMotd, Join, GetHistory, Feed, AnnounceJoin,
                  CheckOp, GrantOp, EndOfInput, Leave, AnnounceLeave,
                  Disconnect, roomVars
    <2>. QED  BY <1>2, <2>1
  <1>. QED  BY <1>4, <1>5, <1>6 DEF Connect

LEMMA Movers ==
    ASSUME Inv, [Next]_vars, NEW t \in Threads
    PROVE  \/ job'[t] = job[t]
           \/ Aside(t)
           \/ HandleMsg(t) /\ UNCHANGED hostVars
  <1>1. CASE Dispatch /\ UNCHANGED <<opKeys, hostVars>>
    <2>1. CASE Serve
      BY <2>1 DEF Serve
    <2>2. ASSUME NEW s \in Tasks, NEW m \in ready, StartTask(s, m)
          PROVE  job'[t] = job[t] \/ Aside(t)
      BY <2>2, BeginAside DEF StartTask, Threads
    <2>. QED  BY <1>1, <2>1, <2>2 DEF Dispatch
  <1>2. ASSUME NEW s \in Threads, HandleMsg(s), UNCHANGED <<opKeys, hostVars>>
        PROVE  job'[t] = job[t] \/ (HandleMsg(t) /\ UNCHANGED hostVars)
    BY <1>2, HandleMsgWays DEF Moved
  <1>3. CASE \E u \in Users : RunCommand(u)
    BY <1>3, CommandAside, UserThreads
  <1>4. CASE \E u \in Users : Connect(u)
    BY <1>4, ConnectAside
  <1>5. CASE (\E u \in Users : Screen(u)) \/ UNCHANGED vars
    BY <1>5 DEF Screen, vars, roomVars
  <1>. QED  BY <1>1, <1>2, <1>3, <1>4, <1>5 DEF Next, Rest

(* What the steps do to the registry, to done and to the phases.           *)
LEMMA MembersHold ==
    ASSUME [Next]_vars, ~WriteFree
    PROVE  members' = members
  <1>1. CASE Dispatch \/ \E t \in Threads : HandleMsg(t)
    BY <1>1 DEF Dispatch, Serve, StartTask, HandleMsg, Lookup, Direct, Deliver,
                Record, Lock, Visit, Unblock, Unlock, memberVars
  <1>2. ASSUME NEW u \in Users, RunCommand(u)
        PROVE  members' = members
    <2>1. CASE Rename(u) \/ ReplaceMember(u)
      BY <2>1 DEF Rename, ReplaceMember, memberVars
    <2>2. CASE \/ Bad(u) \/ Info(u) \/ Emote(u) \/ Exit(u)
               \/ ToggleQuiet(u) \/ Ignore(u) \/ Unignore(u)
               \/ PrivateTo(u) \/ ReplyBack(u) \/ SetReplyTo(u)
               \/ Nick(u) \/ SetID(u) \/ Revert(u)
      BY <2>2 DEF Bad, Info, Emote, Exit, ToggleQuiet, Ignore, Unignore,
                  PrivateTo, ReplyBack, SetReplyTo, Nick, SetID, Revert,
                  memberVars
    <2>3. CASE \/ Authorize(u) \/ NoTarget(u) \/ Mute(u) \/ SetMute(u)
               \/ Kick(u) \/ CloseTarget(u) \/ Op(u) \/ OpKey(u)
               \/ OpRename(u) \/ OpRenameTarget(u) \/ SendOut(u)
      BY <2>3 DEF Authorize, NoTarget, Mute, SetMute, Kick, CloseTarget, Op,
                  OpKey, OpRename, OpRenameTarget, SendOut, memberVars
    <2>. QED  BY <1>2, <2>1, <2>2, <2>3 DEF RunCommand
  <1>3. ASSUME NEW u \in Users, Connect(u)
        PROVE  members' = members
    <2>1. CASE Join(u)
      <3>1. id[u] = NoName
        BY <2>1 DEF Join
      <3>. QED  BY <2>1, <3>1 DEF Join, JoinFails
    <2>2. CASE \/ Arrive(u) \/ SendMotd(u) \/ GetHistory(u) \/ Feed(u)
               \/ AnnounceJoin(u) \/ RunEnv(u) \/ CheckOp(u) \/ GrantOp(u)
      BY <2>2 DEF Arrive, SendMotd, GetHistory, Feed, AnnounceJoin, RunEnv,
                  CheckOp, GrantOp, roomVars, memberVars
    <2>3. CASE \/ EndOfInput(u) \/ Leave(u) \/ AnnounceLeave(u)
               \/ Disconnect(u)
      BY <2>3 DEF EndOfInput, Leave, AnnounceLeave, Disconnect, roomVars,
                  memberVars
    <2>4. ASSUME NEW l \in Lines[u], ReadLine(u, l)
          PROVE  members' = members
      BY <2>4 DEF ReadLine, memberVars
    <2>. QED  BY <1>3, <2>1, <2>2, <2>3, <2>4 DEF Connect
  <1>4. CASE (\E u \in Users : Screen(u)) \/ UNCHANGED vars
    BY <1>4 DEF Screen, vars, roomVars, memberVars
  <1>. QED  BY <1>1, <1>2, <1>3, <1>4 DEF Next, Rest

LEMMA DoneGrows ==
    ASSUME Inv, [Next]_vars
    PROVE  done \subseteq done'
  <1>1. CASE Dispatch \/ UNCHANGED vars
    BY <1>1 DEF Dispatch, Serve, StartTask, userVars, pipeVars, vars
  <1>2. CASE \E u \in Users : Screen(u)
    BY <1>2 DEF Screen, Consume, WriteFails, ConsumeStops, Receive
  <1>. QED
    BY <1>1, <1>2, HandledArrivals, ConnectArrivals, CommandBuffers
       DEF Next, Rest

Before == {"offline", "motd", "join", "rejoin"}
Inside == {"announce", "env", "checkop", "grant", "reading", "leave"}
After == {"left", "bye", "gone"}

(* A connection goes through its phases in this order.                     *)
Advances(u) ==
    \/ phase'[u] = phase[u]
    \/ phase[u] \in Before /\ phase'[u] \in Before \cup {"history", "bye"}
    \/ GetHistory(u) /\ phase'[u] = "feed"
    \/ Feed(u) /\ phase[u] = "feed" /\ feed[u] = <<>> /\ feed' = feed
       /\ phase'[u] = "announce"
    \/ phase[u] \in Inside /\ phase'[u] \in Inside \cup After
    \/ phase[u] \in After /\ phase'[u] \in After

LEMMA PhasesAdvance ==
    ASSUME Inv, [Next]_vars, NEW u \in Users
    PROVE  Advances(u)
  <1>1. phase \in [Users -> Phases]
    BY Parts DEF HostOK
  <1>2. UNCHANGED phase => Advances(u)
    BY DEF Advances
  <1>3. ASSUME NEW v \in Users, Connect(v)
        PROVE  Advances(u)
    <2>1. CASE v # u
      <3>1. CASE \/ Arrive(v) \/ SendMotd(v) \/ Join(v) \/ GetHistory(v)
                 \/ Feed(v) \/ AnnounceJoin(v) \/ RunEnv(v) \/ CheckOp(v)
        BY <1>1, <2>1, <3>1
           DEF Arrive, SendMotd, Join, GetHistory, Feed, AnnounceJoin, RunEnv,
               CheckOp, Enter, Advances
      <3>2. CASE \/ GrantOp(v) \/ EndOfInput(v) \/ Leave(v) \/ AnnounceLeave(v)
                 \/ Disconnect(v) \/ \E l \in Lines[v] : ReadLine(v, l)
        BY <1>1, <2>1, <3>2
           DEF GrantOp, EndOfInput, Leave, AnnounceLeave, Disconnect, ReadLine,
               Enter, Advances
      <3>. QED  BY <1>3, <3>1, <3>2 DEF Connect
    <2>2. CASE v = u
      <3>1. CASE Arrive(u) \/ SendMotd(u) \/ Join(u)
        BY <1>1, <3>1 DEF Arrive, SendMotd, Join, Enter, In, Advances, Before
      <3>2. CASE GetHistory(u) \/ Feed(u)
        BY <1>1, <3>2 DEF GetHistory, Feed, Enter, In, Advances
      <3>3. CASE AnnounceJoin(u) \/ RunEnv(u) \/ CheckOp(u) \/ GrantOp(u)
        BY <1>1, <3>3 DEF AnnounceJoin, RunEnv, CheckOp, GrantOp, Enter, In,
                          Advances, Inside
      <3>4. CASE EndOfInput(u) \/ Leave(u) \/ AnnounceLeave(u) \/ Disconnect(u)
        BY <1>1, <3>4 DEF EndOfInput, Leave, AnnounceLeave, Disconnect, Enter,
                          In, Advances, Inside, After
      <3>5. CASE \E l \in Lines[u] : ReadLine(u, l)
        BY <1>2, <3>5 DEF ReadLine
      <3>. QED  BY <1>3, <2>2, <3>1, <3>2, <3>3, <3>4, <3>5 DEF Connect
    <2>. QED  BY <2>1, <2>2
  <1>4. CASE ~\E v \in Users : Connect(v)
    BY <1>2, <1>4 DEF Next, Rest, Screen, vars, hostVars
  <1>. QED  BY <1>3, <1>4

-----------------------------------------------------------------------------
(* What each user has coming to it.  A user in the room is owed what is    *)
(* recorded, from its snapshot on; it has reached the user if it was       *)
(* buffered, if the user was passed over, or if it still waits in the      *)
(* part of the snapshot not yet fed.                                       *)
Owed(u) == InRoom(u) /\ phase[u] # "history" /\ u \notin done
Reached(u, i) ==
    \/ log[i] \in got[u]
    \/ i \in spared[u]
    \/ \E n \in DOMAIN feed[u] : feed[u][n] = log[i]

LogOK ==
    /\ log \in Seq(Msg) /\ handled \subseteq 1..Len(log)
    /\ Len(history) <= Len(log)
    /\ \A n \in 1..Len(history) :
           history[n] = log[Len(log) - Len(history) + n]
FeedsOK == \A u \in Users : phase[u] # "feed" => feed[u] = <<>>

(* The message a goroutine takes through Each has its place in the log.    *)
Underway(t) ==
    job[t].step \in Loop =>
        place[t] \in 1..Len(log) /\ log[place[t]] = job[t].msg

(* Within the loop, everybody owed the message has it, or is the member    *)
(* the loop waits for, or is still to be visited.                          *)
Visiting(t) ==
    At(t, "each") =>
        \A u \in Users : Owed(u) /\ place[t] >= since[u] =>
            \/ Reached(u, place[t])
            \/ job[t].who = u
            \/ \E k \in job[t].rest : members[k] = u
Past ==
    \A u \in Users : Owed(u) =>
        \A i \in handled : i >= since[u] => Reached(u, i)

GapInv == /\ LogOK /\ FeedsOK
          /\ \A t \in Threads : Underway(t) /\ Visiting(t)
          /\ Past

LEMMA OwedFrom ==
    ASSUME Inv, [Next]_vars, NEW u \in Users, Owed(u)'
    PROVE  Owed(u) \/ GetHistory(u)
  <1>1. u \notin done /\ u \notin done'
    BY DoneGrows DEF Owed
  <1>. QED
    BY <1>1, PhasesAdvance
       DEF Owed, InRoom, Phases, Advances, Before, Inside, After

(* The log grows by what HandleMsg records, and keeps its places.          *)
LEMMA Recorded ==
    ASSUME Inv, TraceNext, NEW t \in Threads
    PROVE  /\ Records(t) <=> Record(t)
           /\ Records(t) => /\ log' = Append(log, job[t].msg)
                            /\ job[t].msg \in Msg
                            /\ \A s \in Threads \ {t} : job'[s] = job[s]
                            /\ job'[t].msg = job[t].msg
  <1>1. \A s \in Threads : Record(s) => Records(s) /\ Moved(s)
    <2>. SUFFICES ASSUME NEW s \in Threads, Record(s)
                  PROVE  Records(s) /\ Moved(s)
      OBVIOUS
    <2>1. HandleMsg(s) /\ At(s, "record")
      BY DEF HandleMsg, Record
    <2>. QED  BY <2>1, HandleMsgWays DEF Records, At
  <1>2. \A s \in Threads : Records(s) => Record(s)
    <2>. SUFFICES ASSUME NEW s \in Threads, Records(s)
                  PROVE  Record(s)
      OBVIOUS
    <2>1. job[s].step = "record" /\ job'[s].step = "lock"
      BY DEF Records, At
    <2>2. HandleMsg(s)
      BY <2>1, Movers DEF TraceNext, Aside
    <2>. QED  BY <2>1, <2>2, HandleMsgWays
  <1>3. ASSUME Records(t)
        PROVE  /\ log' = Append(log, job[t].msg)
               /\ job[t].msg \in Msg
               /\ \A s \in Threads \ {t} : job'[s] = job[s]
               /\ job'[t].msg = job[t].msg
    <2>1. Moved(t) /\ job[t].step = "record" /\ job'[t].step = "lock"
      BY <1>1, <1>2, <1>3 DEF Records, At
    <2>2. \A s \in Threads \ {t} : job'[s] = job[s]
      BY <2>1 DEF Moved
    <2>3. \A s \in Threads : Records(s) => s = t
      BY <2>2 DEF Records, At
    <2>4. job[t].msg \in Msg /\ job'[t].msg = job[t].msg
      BY <2>1, JobFacts DEF Moved
    <2>. QED  BY <1>3, <2>2, <2>3, <2>4 DEF TraceNext, Observe, LogRecorded
  <1>. QED  BY <1>1, <1>2, <1>3

LEMMA LogGrows ==
    ASSUME Inv, LogOK, TraceNext
    PROVE  /\ log' \in Seq(Msg) /\ Len(log) \in Nat /\ Len(log') \in Nat
           /\ Len(log) <= Len(log')
           /\ \A i \in 1..Len(log) : log'[i] = log[i]
  <1>1. log \in Seq(Msg)
    BY DEF LogOK
  <1>2. CASE UNCHANGED log
    BY <1>1, <1>2
  <1>3. ASSUME NEW m \in Msg, log' = Append(log, m)
        PROVE  /\ log' \in Seq(Msg) /\ Len(log) <= Len(log')
               /\ \A i \in 1..Len(log) : log'[i] = log[i]
    BY <1>1, <1>3
  <1>4. ASSUME NEW t \in Threads, Records(t)
        PROVE  \E m \in Msg : log' = Append(log, m)
    BY <1>4, Recorded
  <1>5. UNCHANGED log \/ \E t \in Threads : Records(t)
    BY DEF TraceNext, Observe, LogRecorded
  <1>. QED  BY <1>1, <1>2, <1>3, <1>4, <1>5

(* A goroutine that leaves Each had the message gone through.              *)
LEMMA Unlocked ==
    ASSUME Inv, TraceNext, NEW t \in Threads, Unlocks(t)
    PROVE  /\ job[t].who = NoUser /\ job[t].rest = {}
           /\ job[t].step = "each"
           /\ UNCHANGED hostVars
  <1>1. job[t].step = "each" /\ job'[t].step = "idle"
    BY DEF Unlocks, At
  <1>2. HandleMsg(t) /\ UNCHANGED hostVars
    BY <1>1, Movers DEF TraceNext, Aside
  <1>3. Unlock(t) \/ Unblock(t) \/ \E k \in job[t].rest : Visit(t, k)
    BY <1>1, <1>2, HandleMsgWays
  <1>4. Unlock(t)
    BY <1>1, <1>3, EachMoves
  <1>. QED  BY <1>1, <1>2, <1>4 DEF Unlock

LEMMA NextLogOK ==
    ASSUME Inv, GapInv, TraceNext
    PROVE  LogOK'
  <1>1. LogOK /\ [Next]_vars
    BY DEF GapInv, TraceNext
  <1>2. log' \in Seq(Msg) /\ Len(log) <= Len(log') /\ Len(log) \in Nat
        /\ Len(log') \in Nat
    BY <1>1, LogGrows
  <1>3. handled' \subseteq 1..Len(log')
    <2>. SUFFICES ASSUME NEW i \in handled'
                  PROVE  i \in 1..Len(log)
      BY <1>2
    <2>1. i \in handled \/ \E t \in Threads : Unlocks(t) /\ i = place[t]
      BY DEF TraceNext, Observe
    <2>2. ASSUME NEW t \in Threads, Unlocks(t)
          PROVE  place[t] \in 1..Len(log)
      BY <2>2, Unlocked DEF GapInv, Underway, Loop
    <2>. QED  BY <1>1, <2>1, <2>2 DEF LogOK
  <1>4. /\ history \in Seq(Msg) /\ log \in Seq(Msg)
        /\ Len(history) <= Len(log) /\ Len(history) \in Nat
        /\ \A n \in 1..Len(history) :
               history[n] = log[Len(log) - Len(history) + n]
    BY <1>1, Parts DEF LogOK, HistoryOK
  <1>5. ASSUME NEW t \in Threads, Records(t)
        PROVE  /\ Len(history') <= Len(log')
               /\ \A n \in 1..Len(history') :
                      history'[n] = log'[Len(log') - Len(history') + n]
    <2>. DEFINE m == job[t].msg
    <2>1. log' = Append(log, m) /\ m \in Msg /\ Record(t)
      BY <1>5, Recorded
    <2>. HIDE DEF m
    <2>2. /\ Len(log') = Len(log) + 1 /\ log'[Len(log) + 1] = m
          /\ \A i \in 1..Len(log) : log'[i] = log[i]
      BY <1>4, <2>1
    <2>3. CASE history' = Append(history, m)
      <3>1. /\ Len(history') = Len(history) + 1
            /\ history'[Len(history) + 1] = m
            /\ \A n \in 1..Len(history) : history'[n] = history[n]
        BY <1>4, <2>1, <2>3
      <3>2. ASSUME NEW n \in 1..Len(history')
            PROVE  history'[n] = log'[Len(log') - Len(history') + n]
        <4>1. CASE n = Len(history) + 1
          BY <1>4, <2>2, <3>1, <4>1
        <4>2. CASE n \in 1..Len(history)
          BY <1>4, <2>2, <3>1, <4>2
        <4>. QED  BY <1>4, <3>1, <4>1, <4>2
      <3>. QED  BY <1>4, <2>2, <3>1, <3>2
    <2>4. CASE history' = Append(Tail(history), m) /\ Len(history) > 0
      <3>. DEFINE r == Tail(history)
      <3>1. /\ r \in Seq(Msg) /\ Len(r) = Len(history) - 1
            /\ \A n \in 1..Len(r) : r[n] = history[n + 1]
        BY <1>4, <2>4
      <3>. HIDE DEF r
      <3>2. /\ Len(history') = Len(r) + 1 /\ history'[Len(r) + 1] = m
            /\ \A n \in 1..Len(r) : history'[n] = r[n]
        BY <2>1, <2>4, <3>1 DEF r
      <3>3. ASSUME NEW n \in 1..Len(history')
            PROVE  history'[n] = log'[Len(log') - Len(history') + n]
        <4>1. CASE n = Len(r) + 1
          BY <1>4, <2>2, <3>1, <3>2, <4>1
        <4>2. CASE n \in 1..Len(r)
          <5>1. history'[n] = log[Len(log) - Len(history) + (n + 1)]
            BY <1>4, <3>1, <3>2, <4>2
          <5>2. Len(log) - Len(history) + (n + 1) \in 1..Len(log)
            BY <1>4, <3>1, <4>2
          <5>3. Len(log') - Len(history') + n = Len(log) - Len(history) + (n + 1)
            BY <1>4, <2>2, <3>1, <3>2, <4>2
          <5>. QED  BY <2>2, <5>1, <5>2, <5>3
        <4>. QED  BY <1>4, <3>1, <3>2, <4>1, <4>2
      <3>. QED  BY <1>4, <2>2, <3>1, <3>2, <3>3
    <2>5. ~(Len(history) < HistoryLen) => Len(history) > 0
      BY <1>4, RoomAssumption
    <2>. QED  BY <2>1, <2>3, <2>4, <2>5 DEF Record, Remember, m
  <1>6. CASE \A t \in Threads : ~Records(t)
    <2>1. UNCHANGED log
      BY <1>6 DEF TraceNext, Observe, LogRecorded
    <2>2. UNCHANGED history
      BY <1>1, <1>6, HistoryGrows, Recorded
    <2>. QED  BY <1>2, <1>3, <1>4, <2>1, <2>2 DEF LogOK
  <1>. QED  BY <1>2, <1>3, <1>5, <1>6 DEF LogOK

LEMMA NextFeedsOK ==
    ASSUME Inv, GapInv, TraceNext
    PROVE  FeedsOK'
  <1>. SUFFICES ASSUME NEW u \in Users, phase'[u] # "feed"
                PROVE  feed'[u] = <<>>
    BY DEF FeedsOK
  <1>1. Advances(u)
    BY PhasesAdvance DEF TraceNext
  <1>2. ~(GetHistory(u) /\ feed'[u] = history)
    BY Parts DEF GetHistory, Enter, HostOK
  <1>3. ~(Feed(u) /\ feed[u] # <<>>)
    BY DEF Feed, In
  <1>4. feed'[u] = feed[u]
    BY <1>2, <1>3, FeedShrinks DEF TraceNext
  <1>. QED
    BY <1>1, <1>4 DEF GapInv, FeedsOK, Advances, Before, Inside, After

(* What has reached a user stays reached as long as it is owed.            *)
LEMMA ReachedStays ==
    ASSUME Inv, GapInv, TraceNext, NEW u \in Users, NEW i \in 1..Len(log),
           Reached(u, i), u \notin done'
    PROVE  Reached(u, i)'
  <1>1. /\ log'[i] = log[i]
        /\ got'[u] = got[u] \cup Arrived(u)
        /\ spared[u] \subseteq spared'[u]
    BY LogGrows, GotGrows DEF TraceNext, Observe, GapInv
  <1>2. CASE log[i] \in got[u] \/ i \in spared[u]
    BY <1>1, <1>2 DEF Reached
  <1>3. ASSUME NEW n \in DOMAIN feed[u], feed[u][n] = log[i]
        PROVE  \/ log[i] \in got'[u]
               \/ \E k \in DOMAIN feed'[u] : feed'[u][k] = log[i]
    <2>1. feed[u] \in Seq(Msg) /\ UsersTypeOK
      BY Parts DEF HostOK
    <2>2. CASE feed'[u] = feed[u]
      BY <1>3, <2>2
    <2>3. CASE GetHistory(u)
      <3>1. feed[u] = <<>>
        BY <2>3 DEF GapInv, FeedsOK, GetHistory, In
      <3>. QED  BY <1>3, <3>1
    <2>4. CASE /\ feed[u] # <<>> /\ feed'[u] = Tail(feed[u])
               /\ SendTo(u, Head(feed[u]))
      <3>1. Head(feed[u]) \in Msg /\ Head(feed[u]) = feed[u][1]
        BY <2>1, <2>4
      <3>2. CASE n = 1
        <4>1. log[i] \in Arrived(u)
          BY <1>3, <2>1, <2>4, <3>1, <3>2, SentArrives
        <4>. QED  BY <1>1, <4>1
      <3>3. CASE n # 1
        <4>1. /\ n - 1 \in DOMAIN Tail(feed[u])
              /\ Tail(feed[u])[n - 1] = feed[u][n]
          BY <2>1, <2>4, <3>3
        <4>. QED  BY <1>3, <2>4, <4>1
      <3>. QED  BY <3>2, <3>3
    <2>. QED  BY <2>2, <2>3, <2>4, FeedShrinks DEF TraceNext
  <1>. QED  BY <1>1, <1>2, <1>3 DEF Reached

(* A snapshot is all of the log from its start on.                         *)
LEMMA SnapshotReaches ==
    ASSUME Inv, GapInv, TraceNext, NEW u \in Users, GetHistory(u),
           NEW i \in 1..Len(log), i >= since'[u]
    PROVE  Reached(u, i)'
  <1>1. /\ feed' = [feed EXCEPT ![u] = history]
        /\ phase' = [phase EXCEPT ![u] = "feed"]
        /\ UNCHANGED history /\ In(u, "history")
    BY DEF GetHistory, Enter, roomVars
  <1>2. /\ feed'[u] = history /\ phase'[u] = "feed"
        /\ history \in Seq(Msg)
    BY <1>1, Parts DEF HostOK, HistoryOK
  <1>3. since'[u] = Len(log) - Len(history) + 1
    BY <1>1, <1>2 DEF TraceNext, Observe
  <1>4. LogOK /\ log \in Seq(Msg)
    BY DEF GapInv, LogOK
  <1>. DEFINE n == i - (Len(log) - Len(history))
  <1>5. n \in 1..Len(history) /\ Len(log) - Len(history) + n = i
    BY <1>2, <1>3, <1>4 DEF LogOK
  <1>6. history[n] = log[i] /\ n \in DOMAIN history
    BY <1>2, <1>4, <1>5 DEF LogOK
  <1>. HIDE DEF n
  <1>7. log'[i] = log[i]
    BY <1>4, LogGrows
  <1>. QED  BY <1>2, <1>6, <1>7 DEF Reached

LEMMA SinceStays ==
    ASSUME Inv, TraceNext, NEW u \in Users, ~GetHistory(u)
    PROVE  since'[u] = since[u]
  <1>1. ~(In(u, "history") /\ phase'[u] = "feed")
    BY PhasesAdvance
       DEF TraceNext, In, Advances, Before, Inside, After
  <1>. QED  BY <1>1 DEF TraceNext, Observe

LEMMA NextPast ==
    ASSUME Inv, GapInv, TraceNext
    PROVE  Past'
  <1>. SUFFICES ASSUME NEW u \in Users, Owed(u)', NEW i \in handled',
                       i >= since'[u]
                PROVE  Reached(u, i)'
    BY DEF Past
  <1>1. u \notin done'
    BY DEF Owed
  <1>2. ASSUME i \notin handled
        PROVE  \E t \in Threads : Unlocks(t) /\ i = place[t]
    BY <1>2 DEF TraceNext, Observe
  <1>3. ASSUME NEW t \in Threads, Unlocks(t)
        PROVE  place[t] \in 1..Len(log)
    BY <1>3, Unlocked DEF GapInv, Underway, Loop
  <1>4. i \in 1..Len(log)
    BY <1>2, <1>3 DEF GapInv, LogOK
  <1>5. CASE GetHistory(u)
    BY <1>4, <1>5, SnapshotReaches
  <1>6. CASE ~GetHistory(u)
    <2>1. Owed(u) /\ since'[u] = since[u]
      BY <1>6, OwedFrom, SinceStays DEF TraceNext
    <2>2. CASE i \in handled
      BY <1>1, <1>4, <2>1, <2>2, ReachedStays DEF GapInv, Past
    <2>3. CASE i \notin handled
      <3>1. PICK t \in Threads : Unlocks(t) /\ i = place[t]
        BY <1>2, <2>3
      <3>2. job[t].who = NoUser /\ job[t].rest = {} /\ At(t, "each")
        BY <3>1, Unlocked DEF At
      <3>3. Reached(u, i)
        BY <2>1, <3>1, <3>2, NamesAssumption DEF GapInv, Visiting
      <3>. QED  BY <1>1, <1>4, <3>3, ReachedStays
    <2>. QED  BY <2>2, <2>3
  <1>. QED  BY <1>5, <1>6

LEMMA NextUnderway ==
    ASSUME Inv, GapInv, TraceNext, NEW t \in Threads
    PROVE  Underway(t)'
  <1>. SUFFICES ASSUME job'[t].step \in Loop
                PROVE  /\ place'[t] \in 1..Len(log')
                       /\ log'[place'[t]] = job'[t].msg
    BY DEF Underway
  <1>1. /\ log' \in Seq(Msg) /\ Len(log) \in Nat /\ Len(log') \in Nat
        /\ Len(log) <= Len(log') /\ log \in Seq(Msg)
        /\ \A i \in 1..Len(log) : log'[i] = log[i]
    BY LogGrows DEF GapInv, LogOK
  <1>2. job'[t].step # "idle"
    BY DEF Loop
  <1>3. CASE Records(t)
    <2>1. place'[t] = Len(log) + 1
      BY <1>3 DEF TraceNext, Observe
    <2>2. log' = Append(log, job[t].msg) /\ job'[t].msg = job[t].msg
      BY <1>3, Recorded
    <2>. QED  BY <1>1, <2>1, <2>2
  <1>4. CASE ~Records(t)
    <2>1. place'[t] = place[t]
      BY <1>2, <1>4 DEF TraceNext, Observe
    <2>2. job[t].step \in Loop /\ job'[t].msg = job[t].msg
      <3>1. CASE job'[t] = job[t]
        BY <3>1
      <3>2. CASE HandleMsg(t)
        BY <1>2, <1>4, <3>2, HandleMsgWays, Recorded DEF Loop, Moved
      <3>. QED  BY <3>1, <3>2, Movers DEF TraceNext, Aside
    <2>. QED  BY <1>1, <2>1, <2>2 DEF GapInv, Underway
  <1>. QED  BY <1>3, <1>4

(* Everybody in the room is found in the registry.                         *)
LEMMA InRegistry ==
    ASSUME RegInv, NEW u \in Users, Owed(u)
    PROVE  \E k \in Names : members[k] = u
  <1>1. Holds(u) = {Key(RegisteredID(u))}
    BY DEF RegInv, UserOK, Owed
  <1>. QED  BY <1>1 DEF Holds

(* A turn of the loop leaves nobody behind.                                *)
LEMMA VisitKeeps ==
    ASSUME Inv, GapInv, TraceNext, NEW t \in Threads, NEW k \in job[t].rest,
           Visit(t, k), NEW u \in Users, members[k] = u, u \notin done',
           NEW i, i = place[t]
    PROVE  Reached(u, i)' \/ job'[t].who = u
  <1>1. /\ job \in [Threads -> Job] /\ job[t] \in Job /\ At(t, "each")
        /\ UsersTypeOK /\ job[t].msg \in Msg
    BY Parts, JobFacts DEF Visit, At
  <1>2. i \in 1..Len(log) /\ log[i] = job[t].msg
    BY <1>1 DEF GapInv, Underway, Loop, At
  <1>3. log'[i] = log[i]
    BY <1>2, LogGrows DEF GapInv
  <1>4. CASE /\ Skips(u, t)
             /\ job' = [job EXCEPT ![t].rest = @ \ {k}]
    <2>1. job' = [job EXCEPT ![t] = [job[t] EXCEPT !.rest = job[t].rest \ {k}]]
      BY <1>1, <1>4
    <2>2. job'[t].rest = job[t].rest \ {k}
      BY <1>1, <2>1 DEF Job
    <2>3. Spares(t, u)
      BY <1>1, <1>4, <2>2 DEF Spares
    <2>4. i \in spared'[u]
      BY <2>3 DEF TraceNext, Observe
    <2>. QED  BY <2>4 DEF Reached
  <1>5. CASE SendNow(u, job[t].msg)
    <2>1. job[t].msg \in Arrived(u)
      BY <1>1, <1>5, SentArrives DEF SendTo
    <2>2. job[t].msg \in got'[u]
      BY <2>1, GotGrows DEF TraceNext
    <2>. QED  BY <1>2, <1>3, <2>2 DEF Reached
  <1>6. CASE job' = [job EXCEPT ![t].rest = @ \ {k}, ![t].who = u]
    <2>1. job' = [job EXCEPT ![t] = [job[t] EXCEPT !.rest = job[t].rest \ {k},
                                                   !.who = u]]
      BY <1>1, <1>6
    <2>. QED  BY <1>1, <2>1 DEF Job
  <1>. QED  BY <1>4, <1>5, <1>6 DEF Visit

LEMMA VisitRest ==
    ASSUME Inv, NEW t \in Threads, NEW k \in job[t].rest, Visit(t, k)
    PROVE  /\ job'[t].rest = job[t].rest \ {k}
           /\ job[t].who = NoUser
  <1>1. job \in [Threads -> Job] /\ job[t] \in Job
    BY Parts, JobFacts
  <1>2. \/ job' = [job EXCEPT ![t] = [job[t] EXCEPT !.rest = job[t].rest \ {k}]]
        \/ job' = [job EXCEPT ![t] = [job[t] EXCEPT !.rest = job[t].rest \ {k},
                                                    !.who = members[k]]]
    BY <1>1 DEF Visit
  <1>3. job'[t].rest = job[t].rest \ {k}
    BY <1>1, <1>2 DEF Job
  <1>. QED  BY <1>3 DEF Visit

LEMMA NextVisiting ==
    ASSUME Inv, RegInv, GapInv, TraceNext, NEW t \in Threads
    PROVE  Visiting(t)'
  <1>. SUFFICES ASSUME job'[t].step = "each", NEW u \in Users, Owed(u)',
                       place'[t] >= since'[u]
                PROVE  \/ Reached(u, place[t])'
                       \/ job'[t].who = u
                       \/ \E k \in job'[t].rest : members'[k] = u
    BY DEF Visiting, At
  <1>1. u \notin done' /\ [Next]_vars /\ UsersTypeOK /\ job[t] \in Job
    BY Parts, JobFacts DEF Owed, TraceNext
  <1>2. job'[t] = job[t] \/ HandleMsg(t)
    BY <1>1, Movers DEF Aside, Loop
  <1>3. job[t].step \in Loop /\ (job[t].step = "lock" => Lock(t))
    BY <1>2, HandleMsgWays DEF Loop
  <1>4. place'[t] = place[t]
    BY <1>3 DEF TraceNext, Observe, Records, At, Loop
  <1>5. PICK i : i = place[t] /\ i = place'[t]
    BY <1>4
  <1>6. i \in 1..Len(log) /\ log[i] = job[t].msg
    BY <1>3, <1>5 DEF GapInv, Underway
  <1>7. CASE Reached(u, i)'
    BY <1>5, <1>7 DEF Reached
  <1>8. CASE GetHistory(u)
    BY <1>5, <1>6, <1>7, <1>8, SnapshotReaches
  <1>9. CASE ~GetHistory(u)
    <2>1. Owed(u) /\ i >= since[u]
      BY <1>1, <1>5, <1>9, OwedFrom, SinceStays
    <2>2. CASE Lock(t)
      <3>1. job'[t].rest = {k \in Names : members[k] # NoUser}
            /\ members' = members
        BY <2>2, EachMoves DEF Lock, memberVars
      <3>2. u # NoUser /\ \E k \in Names : members[k] = u
        BY <2>1, InRegistry, NamesAssumption
      <3>. QED  BY <3>1, <3>2
    <2>3. CASE job[t].step = "each"
      <3>1. /\ \/ Reached(u, i)
               \/ job[t].who = u
               \/ \E k \in job[t].rest : members[k] = u
            /\ members' = members
        BY <1>1, <1>5, <2>1, <2>3, MembersHold
           DEF GapInv, Visiting, At, WriteFree
      <3>2. CASE Reached(u, i)
        BY <1>1, <1>6, <1>7, <3>2, ReachedStays
      <3>3. CASE job'[t] = job[t]
        BY <1>1, <1>6, <1>7, <3>1, <3>3, ReachedStays
      <3>4. ASSUME NEW k \in job[t].rest, Visit(t, k)
            PROVE  \/ Reached(u, i)'
                   \/ job'[t].who = u
                   \/ \E n \in job'[t].rest : members'[n] = u
        <4>1. job'[t].rest = job[t].rest \ {k} /\ job[t].who # u
          BY <3>4, VisitRest, NamesAssumption
        <4>2. CASE members[k] = u
          BY <1>1, <1>5, <3>4, <4>2, VisitKeeps
        <4>3. CASE members[k] # u
          BY <1>1, <1>6, <3>1, <4>1, <4>3, ReachedStays
        <4>. QED  BY <4>2, <4>3
      <3>5. CASE Unblock(t) /\ job[t].who = u
        <4>1. log[i] \in Arrived(u)
          BY <1>1, <1>6, <3>5, JobFacts, SentArrives DEF Unblock, At
        <4>2. log'[i] = log[i] /\ got'[u] = got[u] \cup Arrived(u)
          BY <1>6, LogGrows, GotGrows DEF GapInv, TraceNext
        <4>3. Reached(u, i)'
          BY <4>1, <4>2 DEF Reached
        <4>. QED  BY <1>7, <4>3
      <3>6. CASE Unblock(t) /\ job[t].who # u
        <4>1. job'[t].rest = job[t].rest
          BY <3>6, EachMoves
        <4>. QED  BY <1>1, <1>6, <1>7, <3>1, <3>6, <4>1, ReachedStays
      <3>7. ~Unlock(t)
        BY EachMoves, HandleMsgWays, IdleJob, Parts DEF Unlock, Finish
      <3>. QED
        BY <1>2, <1>7, <2>3, <3>3, <3>4, <3>5, <3>6, <3>7, HandleMsgWays
    <2>. QED  BY <1>3, <2>2, <2>3 DEF Loop
  <1>. QED  BY <1>8, <1>9

LEMMA InitGap == ASSUME TraceInit PROVE GapInv
  <1>1. Init /\ log = history /\ handled = DOMAIN history
    BY DEF TraceInit
  <1>2. history \in Seq(Msg)
    BY <1>1, InitInv, Parts DEF HistoryOK
  <1>3. LogOK
    BY <1>1, <1>2 DEF LogOK
  <1>4. FeedsOK
    BY <1>1 DEF Init, FeedsOK
  <1>5. \A t \in Threads : job[t].step = "idle"
    BY <1>1, IdleJob DEF Init
  <1>6. \A t \in Threads : Underway(t) /\ Visiting(t)
    BY <1>5 DEF Underway, Visiting, Loop, At
  <1>7. Past
    <2>. SUFFICES ASSUME NEW u \in Users, Owed(u), NEW i \in handled
                  PROVE  Reached(u, i)
      BY DEF Past
    <2>1. u \in Connected
      BY <1>1 DEF Init, Owed, InRoom
    <2>2. got[u] = {history[n] : n \in handled}
      BY <2>1 DEF TraceInit
    <2>. QED  BY <1>1, <2>2 DEF Reached
  <1>. QED  BY <1>3, <1>4, <1>6, <1>7 DEF GapInv

LEMMA NextGap ==
    ASSUME Inv, RegInv, GapInv, [TraceNext]_<<vars, traceVars>>
    PROVE  GapInv'
  <1>1. CASE TraceNext
    BY <1>1, NextLogOK, NextFeedsOK, NextUnderway, NextVisiting, NextPast
       DEF GapInv
  <1>2. CASE UNCHANGED <<vars, traceVars>>
    <2>1. UNCHANGED <<log, place, handled, got, spared, since, history, phase,
                      feed, job, members, done>>
      BY <1>2 DEF vars, userVars, pipeVars, roomVars, memberVars, hostVars,
                  traceVars
    <2>2. LogOK' /\ FeedsOK' /\ Past'
      BY <2>1 DEF GapInv, LogOK, FeedsOK, Past, Owed, Reached, InRoom
    <2>3. \A t \in Threads : Underway(t)' /\ Visiting(t)'
      BY <2>1 DEF GapInv, Underway, Visiting, At, Owed, Reached, InRoom
    <2>. QED  BY <2>2, <2>3 DEF GapInv
  <1>. QED  BY <1>1, <1>2

(* A user that joins while messages are in flight misses none of them, in  *)
(* whatever order Record, Members.Each, Members.Add and the snapshot of    *)
(* the history come: what was handled since its snapshot it has got,       *)
(* unless its own settings held it back.  It takes that no client types    *)
(* /rename as an operator, which may take a member out of the registry.    *)
THEOREM NobodyMissesAMessage ==
    ASSUME NobodyRenamed
    PROVE  TraceSpec => []NoGapOnJoin
  <1>1. TraceInit => Inv /\ RegInv /\ GapInv
    BY InitInv, InitReg, InitGap DEF TraceInit
  <1>2. Inv /\ RegInv /\ GapInv /\ [TraceNext]_<<vars, traceVars>>
            => Inv' /\ RegInv' /\ GapInv'
    <2>. SUFFICES ASSUME Inv, RegInv, GapInv, [TraceNext]_<<vars, traceVars>>
                  PROVE  Inv' /\ RegInv' /\ GapInv'
      OBVIOUS
    <2>1. [Next]_vars
      BY DEF TraceNext
    <2>. QED  BY <2>1, NextInv, NextReg, NextGap
  <1>3. GapInv => NoGapOnJoin
    <2>. SUFFICES ASSUME GapInv, NEW u \in Users, Listening(u),
                         NEW i \in handled, i >= since[u]
                  PROVE  log[i] \in got[u] \/ i \in spared[u]
      BY DEF NoGapOnJoin
    <2>1. Owed(u) /\ feed[u] = <<>>
      BY DEF Listening, Owed, GapInv, FeedsOK
    <2>2. Reached(u, i)
      BY <2>1 DEF GapInv, Past
    <2>. QED  BY <2>1, <2>2 DEF Reached
  <1>. QED  BY <1>1, <1>2, <1>3, PTL DEF TraceSpec

-----------------------------------------------------------------------------
=============================================================================
