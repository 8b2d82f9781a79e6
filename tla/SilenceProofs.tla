---------------------------- MODULE SilenceProofs ----------------------------
(***************************************************************************)
(* What is not to be heard is not heard, for every value of the constants, *)
(* as long as users keep to names of their own.  It rests on that no       *)
(* message is handled twice: what has been held back once would otherwise  *)
(* get through another time.                                               *)
(***************************************************************************)
EXTENDS Silence, HostProofs

(* A /nick to the empty name makes HandleMsg skip its lookup.              *)
NobodyUnnamed ==
    \A u \in Users : \A l \in Lines[u] : l.cmd = "nick" => l.new # NoName

Spoken(m) == m.kind \in {"public", "emote", "private"}
Has(s, m) == \E i \in DOMAIN s : s[i] = m

(* Where a message may be before HandleMsg begins on it, and afterwards.   *)
Handling(t, m) == job[t].step # "idle" /\ job[t].msg = m
Pending(m) == \/ m \in ready
              \/ Has(broadcast, m)
              \/ \E t \in Threads : Has(job[t].out, m)
Kept(m) == \/ Has(history, m)
           \/ \E u \in Users : Has(feed[u], m) \/ Has(inbox[u], m)
Taken(m) == \/ Kept(m)
            \/ \E t \in Threads : Handling(t, m)
            \/ m \in hushed
            \/ \E s \in shunned : s[1] = m
Known(m) == Pending(m) \/ Taken(m)

(* A line that may still post something, and has not done so.              *)
Unsaid(u) == /\ job[u].step \in {"lookup", "run"}
             /\ job[u].msg.kind = "command"

(* What is said is posted once, and handled once.                          *)
PostedOnce(m) ==
    /\ Pending(m) => ~Taken(m)
    /\ \A i, j \in DOMAIN broadcast :
           broadcast[i] = m /\ broadcast[j] = m => i = j
    /\ m \in ready => ~Has(broadcast, m)
    /\ \A t \in Threads : \A i \in DOMAIN job[t].out :
           job[t].out[i] = m =>
               t = m.by /\ i = 1 /\ m \notin ready /\ ~Has(broadcast, m)
    /\ \A s, t \in Threads : Handling(s, m) /\ Handling(t, m) => s = t
    /\ Known(m) => /\ 1 <= m.line /\ m.line <= typed[m.by]
                   /\ Unsaid(m.by) => m.line # job[m.by].msg.line

Once == \A m \in Msg : Spoken(m) => PostedOnce(m)

Early == {"offline", "motd", "join", "rejoin"}

LineOK(u) ==
    /\ job[u].step \in CommandSteps => job[u].msg.kind = "command"
    /\ typed[u] # 0 => phase[u] \notin Early
    /\ Unsaid(u) => 1 <= job[u].msg.line /\ job[u].msg.line <= typed[u]
    /\ (InRoom(u) \/ typed[u] # 0) => id[u] # NoName
    /\ job[u].line.cmd = "nick" => job[u].line.new # NoName
    /\ job[u].step \in RenameSteps =>
           job[u].old # NoName /\ job[u].line.new # NoName
    /\ ignored[u] # {} =>
           phase[u] \notin Early \cup {"history", "feed"}

LinesOK == \A u \in Users : LineOK(u)

(* A command goes no way but its author's goroutine.                       *)
CommandsStay ==
    /\ \A m \in Msg : m.kind = "command" => ~Pending(m) /\ ~Kept(m)
    /\ \A t \in Threads : job[t].msg.kind = "command" =>
           job[t].step \notin {"direct", "send", "record", "lock", "each"}

(* Nobody is at hand before the message is sent.                           *)
Unaddressed ==
    \A t \in Threads :
        job[t].step \in {"lookup", "direct", "record", "lock"} =>
            job[t].who = NoUser

HushedOK(m) ==
    /\ m \in Msg /\ HasFrom(m) /\ m.by \in muted
    /\ ~Has(history, m)
    /\ \A u \in Users : /\ ~Has(feed[u], m)
                        /\ u # m.by => ~Has(inbox[u], m)
    /\ Spoken(m) => \A t \in Threads : Handling(t, m) =>
           \/ job[t].step = "lookup"
           \/ job[t].step = "send" /\ job[t].who = m.by

ShunnedOK(m, n, u) ==
    /\ m \in Msg /\ HasFrom(m) /\ u \in Users /\ Key(n) \in ignored[u]
    /\ u # m.by =>
           /\ ~Has(inbox[u], m)
           /\ Spoken(m) => \A t \in Threads : Handling(t, m) =>
                  /\ job[t].from = n
                  /\ job[t].step \in {"send", "each"} => job[t].who # u

Silent == /\ \A m \in hushed : HushedOK(m)
          /\ \A s \in shunned : /\ s = <<s[1], s[2], s[3]>>
                                /\ ShunnedOK(s[1], s[2], s[3])

SilInv == Once /\ LinesOK /\ CommandsStay /\ Unaddressed /\ Silent

Sound == Inv /\ RegInv /\ PrivInv /\ SilInv

-----------------------------------------------------------------------------
(* A step that brings nothing new: what is where it is was there, or has   *)
(* been handled.                                                           *)
NoNews(m) ==
    /\ m \in ready' => m \in ready
    /\ Has(broadcast', m) => Has(broadcast, m)
    /\ \A i, j \in DOMAIN broadcast' :
           broadcast'[i] = m /\ broadcast'[j] = m => i = j
    /\ \A t \in Threads : \A i \in DOMAIN job'[t].out :
           job'[t].out[i] = m =>
               i \in DOMAIN job[t].out /\ job[t].out[i] = m
    /\ \A t \in Threads : Handling(t, m)' => Handling(t, m)
    /\ Taken(m)' => Taken(m)

LEMMA NoNewsPending ==
    ASSUME NEW m, NoNews(m), Pending(m)'
    PROVE  Pending(m)
  BY DEF NoNews, Pending, Has

LEMMA NoNewsOnce ==
    ASSUME NEW m, PostedOnce(m), NoNews(m),
           m.line <= typed[m.by] => m.line <= typed'[m.by],
           Known(m) /\ Unsaid(m.by)' => m.line # job'[m.by].msg.line
    PROVE  PostedOnce(m)'
  <1>1. Known(m)' => Known(m)
    BY NoNewsPending DEF NoNews, Known
  <1>2. Known(m)' => /\ 1 <= m.line /\ m.line <= typed'[m.by]
                     /\ Unsaid(m.by)' => m.line # job'[m.by].msg.line
    BY <1>1 DEF PostedOnce
  <1>3. Pending(m)' => ~Taken(m)'
    BY NoNewsPending DEF NoNews, PostedOnce
  <1>4. /\ \A i, j \in DOMAIN broadcast' :
               broadcast'[i] = m /\ broadcast'[j] = m => i = j
        /\ m \in ready' => ~Has(broadcast', m)
    BY DEF NoNews, PostedOnce
  <1>5. \A t \in Threads : \A i \in DOMAIN job'[t].out :
            job'[t].out[i] = m =>
                t = m.by /\ i = 1 /\ m \notin ready' /\ ~Has(broadcast', m)
    BY DEF NoNews, PostedOnce
  <1>6. \A s, t \in Threads : Handling(s, m)' /\ Handling(t, m)' => s = t
    BY DEF NoNews, PostedOnce
  <1>. QED
    BY <1>2, <1>3, <1>4, <1>5, <1>6 DEF PostedOnce, Has

(* What the observers add.                                                 *)
Observed ==
    /\ \A m \in hushed' : /\ m.by \in muted'
                          /\ m \in hushed \/ \E t \in Begun : m = job'[t].msg
    /\ \A s \in shunned' :
           /\ Key(s[2]) \in ignored'[s[3]]
           /\ \/ s \in shunned
              \/ \E t \in Begun, u \in Users :
                     s = <<job'[t].msg, job'[t].from, u>>

LEMMA ObserversStep == ASSUME SilenceNext PROVE Observed
  BY DEF SilenceNext, Observed

LEMMA NothingBegun ==
    ASSUME Observed, Begun = {}
    PROVE  hushed' \subseteq hushed /\ shunned' \subseteq shunned
  BY DEF Observed

-----------------------------------------------------------------------------
(* HandleMsg, summed up: one goroutine moves, it keeps the message it has, *)
(* records it or sends it on.                                              *)
SentTo(t, u) == \/ job[t].step \in {"send", "each"} /\ u = job[t].who
                \/ job[t].step = "each" /\ ~Skips(u, t)

Advances(t, s, v) ==
    LET w == Get(job[t].from)
    IN  \/ /\ job[t].step = "lookup" /\ w \in muted
           /\ s = "send" /\ v = w /\ job[t].msg.kind # "command"
        \/ /\ job[t].step = "lookup" /\ w \in Users \ muted
           /\ s = Branch(job[t].msg) /\ v = job[t].who
        \/ /\ job[t].step = "direct" /\ s = "send" /\ v = job[t].msg.to
           /\ ~Ignores(v, job[t].from)
        \/ job[t].step = "record" /\ s = "lock" /\ v = job[t].who
        \/ job[t].step = "lock" /\ s = "each" /\ v = job[t].who
        \/ /\ job[t].step = "each" /\ s = "each"
           /\ v \in {job[t].who, NoUser} \/ (v \in Users /\ ~Skips(v, t))

SameTask(t) ==
    /\ job'[t].msg = job[t].msg /\ job'[t].from = job[t].from
    /\ job'[t].line = job[t].line /\ job'[t].out = job[t].out
    /\ job'[t].old = job[t].old

Handled(t) ==
    /\ job[t].step \in HandleSteps \ {"idle"}
    /\ \A s \in Threads \ {t} : job'[s] = job[s]
    /\ \/ job'[t] = Idle
       \/ SameTask(t) /\ Advances(t, job'[t].step, job'[t].who)
    /\ \A m : Has(history', m) =>
           Has(history, m) \/ (job[t].step = "record" /\ m = job[t].msg)
    /\ \A u \in Users : \A m : Has(inbox'[u], m) =>
           Has(inbox[u], m) \/ (m = job[t].msg /\ SentTo(t, u))

LEMMA SendHas ==
    ASSUME Inv, NEW u \in Users, NEW m \in Msg, SendTo(u, m)
    PROVE  \A v \in Users : \A x : Has(inbox'[v], x) =>
               Has(inbox[v], x) \/ (v = u /\ x = m)
  <1>1. CASE UNCHANGED inbox
    BY <1>1
  <1>2. CASE inbox' = [inbox EXCEPT ![u] = Append(@, m)]
    <2>. SUFFICES ASSUME NEW v \in Users, NEW x, Has(inbox'[v], x)
                  PROVE  Has(inbox[v], x) \/ (v = u /\ x = m)
      OBVIOUS
    <2>1. inbox \in [Users -> Seq(Msg)]
      BY Parts DEF UsersTypeOK
    <2>2. CASE v # u
      BY <1>2, <2>1, <2>2
    <2>3. CASE v = u
      <3>1. inbox'[u] = Append(inbox[u], m) /\ inbox[u] \in Seq(Msg)
        BY <1>2, <2>1
      <3>. QED  BY <2>3, <3>1, AppendHas DEF Has
    <2>. QED  BY <2>2, <2>3
  <1>. QED
    BY <1>1, <1>2 DEF SendTo, SendNow, Enqueue, Refuse, TimeOut, Close, pipeVars

LEMMA HandledStill ==
    ASSUME UNCHANGED <<history, inbox>>
    PROVE  /\ \A m : Has(history', m) => Has(history, m)
           /\ \A u \in Users : \A m : Has(inbox'[u], m) => Has(inbox[u], m)
  OBVIOUS

LEMMA LookupHandled ==
    ASSUME Inv, NEW t \in Threads, Lookup(t) \/ Direct(t)
    PROVE  Handled(t)
  <1>. DEFINE w == Get(job[t].from)
  <1>1. /\ job \in [Threads -> Job] /\ job[t] \in Job
        /\ w \in Users \cup {NoUser}
        /\ UNCHANGED <<history, inbox>>
        /\ job[t].step \in HandleSteps \ {"idle"}
    BY Parts, JobFacts, GetType
       DEF Job, Lookup, Direct, At, userVars, pipeVars, HandleSteps
  <1>2. ASSUME NEW s, NEW v, Advances(t, s, v),
               job' = [job EXCEPT ![t] = [job[t] EXCEPT !.step = s, !.who = v]]
        PROVE  Handled(t)
    <2>1. job'[t] = [job[t] EXCEPT !.step = s, !.who = v]
      BY <1>1, <1>2
    <2>2. SameTask(t) /\ job'[t].step = s /\ job'[t].who = v
      BY <1>1, <2>1 DEF SameTask, Job
    <2>. QED  BY <1>1, <1>2, <2>2, HandledStill DEF Handled
  <1>3. CASE Finish(t)
    BY <1>1, <1>3, HandledStill DEF Finish, Handled
  <1>4. CASE /\ job[t].step = "lookup" /\ w \in muted
             /\ job[t].msg.kind # "command" /\ Found(t, "send", w)
    <2>1. Advances(t, "send", w)
      BY <1>4 DEF Advances
    <2>2. job' = [job EXCEPT ![t] = [job[t] EXCEPT !.step = "send", !.who = w]]
      BY <1>1, <1>4 DEF Found, Job
    <2>. QED  BY <1>2, <2>1, <2>2
  <1>5. CASE /\ job[t].step = "lookup" /\ w # NoUser /\ w \notin muted
             /\ Goto(t, Branch(job[t].msg))
    <2>. DEFINE s == Branch(job[t].msg)
    <2>1. Advances(t, s, job[t].who)
      BY <1>1, <1>5 DEF Advances
    <2>2. job' = [job EXCEPT ![t] = [job[t] EXCEPT !.step = s,
                                                   !.who = job[t].who]]
      <3>. HIDE DEF s
      <3>1. job' = [job EXCEPT ![t] = [job[t] EXCEPT !.step = s]]
        BY <1>5 DEF Goto, s
      <3>. QED  BY <1>1, <3>1 DEF Job
    <2>. QED  BY <1>2, <2>1, <2>2
  <1>6. CASE /\ job[t].step = "direct" /\ Found(t, "send", job[t].msg.to)
             /\ ~Ignores(job[t].msg.to, job[t].from)
    <2>1. Advances(t, "send", job[t].msg.to)
      BY <1>6 DEF Advances
    <2>2. job' = [job EXCEPT ![t] = [job[t] EXCEPT !.step = "send",
                                                   !.who = job[t].msg.to]]
      BY <1>1, <1>6 DEF Found, Job
    <2>. QED  BY <1>2, <2>1, <2>2
  <1>. QED  BY <1>3, <1>4, <1>5, <1>6 DEF Lookup, Direct, At

LEMMA RecordHandled ==
    ASSUME Inv, NEW t \in Threads, Record(t) \/ Lock(t)
    PROVE  Handled(t)
  <1>. DEFINE m == job[t].msg
  <1>1. /\ job \in [Threads -> Job] /\ job[t] \in Job /\ m \in Msg
        /\ UNCHANGED inbox /\ job[t].step \in HandleSteps \ {"idle"}
        /\ history \in Seq(Msg)
    BY Parts, JobFacts
       DEF Record, Lock, At, userVars, pipeVars, HandleSteps, HistoryOK
  <1>2. CASE Record(t)
    <2>1. \A x : Has(history', x) => Has(history, x) \/ x = m
      <3>. SUFFICES ASSUME NEW x, Has(history', x)
                    PROVE  Has(history, x) \/ x = m
        OBVIOUS
      <3>1. CASE history' = Append(history, m)
        BY <1>1, <3>1, AppendHas DEF Has
      <3>2. CASE /\ history' = Append(Tail(history), m)
                 /\ ~(Len(history) < HistoryLen)
        <4>1. history # <<>>
          BY <1>1, <3>2, RoomAssumption
        <4>2. Tail(history) \in Seq(Msg)
          BY <1>1, <4>1
        <4>. QED  BY <1>1, <3>2, <4>1, <4>2, AppendHas, TailHas DEF Has
      <3>. QED  BY <1>2, <3>1, <3>2 DEF Record, Remember
    <2>2. job'[t] = [job[t] EXCEPT !.step = "lock"] /\ job[t].step = "record"
          /\ \A s \in Threads \ {t} : job'[s] = job[s]
      BY <1>1, <1>2 DEF Record, Goto, At
    <2>3. SameTask(t) /\ Advances(t, job'[t].step, job'[t].who)
      BY <1>1, <2>2 DEF SameTask, Advances, Job
    <2>. QED  BY <1>1, <2>1, <2>2, <2>3 DEF Handled
  <1>3. CASE Lock(t)
    <2>1. job'[t] = [job[t] EXCEPT !.step = "each",
                         !.rest = {k \in Names : members[k] # NoUser}]
          /\ job[t].step = "lock" /\ UNCHANGED history
          /\ \A s \in Threads \ {t} : job'[s] = job[s]
      BY <1>1, <1>3 DEF Lock, At, Job
    <2>2. SameTask(t) /\ Advances(t, job'[t].step, job'[t].who)
      BY <1>1, <2>1 DEF SameTask, Advances, Job
    <2>. QED  BY <1>1, <2>1, <2>2, HandledStill DEF Handled
  <1>. QED  BY <1>2, <1>3

LEMMA EachHandled ==
    ASSUME Inv, NEW t \in Threads,
           \/ Deliver(t) \/ Unblock(t) \/ Unlock(t)
           \/ \E k \in job[t].rest : Visit(t, k)
    PROVE  Handled(t)
  <1>. DEFINE m == job[t].msg
  <1>1. /\ job \in [Threads -> Job] /\ job[t] \in Job /\ m \in Msg
        /\ UNCHANGED history /\ job[t].step \in {"send", "each"}
        /\ job[t].step \in HandleSteps \ {"idle"} /\ JobOK(job[t])
        /\ \A x : Has(history', x) => Has(history, x)
    BY Parts, JobFacts
       DEF Deliver, Unblock, Unlock, Visit, At, HandleSteps
  <1>2. CASE Deliver(t)
    <2>1. job[t].who \in Users /\ job[t].step = "send"
      BY <1>1, <1>2 DEF Deliver, At, JobOK, TargetSteps
    <2>2. \A u \in Users : \A x : Has(inbox'[u], x) =>
              Has(inbox[u], x) \/ (x = m /\ SentTo(t, u))
      BY <1>1, <1>2, <2>1, SendHas DEF Deliver, SentTo
    <2>3. job'[t] = Idle /\ \A s \in Threads \ {t} : job'[s] = job[s]
      BY <1>1, <1>2 DEF Deliver, Finish
    <2>. QED  BY <1>1, <2>2, <2>3 DEF Handled
  <1>3. CASE Unlock(t)
    <2>1. UNCHANGED inbox
      BY <1>3 DEF Unlock, userVars, pipeVars
    <2>2. job'[t] = Idle /\ \A s \in Threads \ {t} : job'[s] = job[s]
      BY <1>1, <1>3 DEF Unlock, Finish
    <2>. QED  BY <1>1, <2>1, <2>2, HandledStill DEF Handled
  <1>4. CASE Unblock(t)
    <2>1. job[t].who \in Users /\ job[t].step = "each"
      BY <1>1, <1>4 DEF Unblock, At, Job
    <2>2. \A u \in Users : \A x : Has(inbox'[u], x) =>
              Has(inbox[u], x) \/ (x = m /\ SentTo(t, u))
      BY <1>1, <1>4, <2>1, SendHas DEF Unblock, SentTo
    <2>3. job'[t] = [job[t] EXCEPT !.who = NoUser]
          /\ \A s \in Threads \ {t} : job'[s] = job[s]
      BY <1>1, <1>4 DEF Unblock
    <2>4. SameTask(t) /\ job'[t].step = "each" /\ job'[t].who = NoUser
      BY <1>1, <2>1, <2>3 DEF SameTask, Job
    <2>. QED  BY <1>1, <2>1, <2>2, <2>3, <2>4 DEF Handled, Advances
  <1>5. ASSUME NEW k \in job[t].rest, Visit(t, k)
        PROVE  Handled(t)
    <2>. DEFINE w == members[k]
    <2>1. w \in Users /\ job[t].step = "each" /\ job[t].who = NoUser
      BY <1>1, <1>5, Parts DEF Visit, At, JobOK, MembersOK, Job
    <2>2. \A u \in Users : \A x : Has(inbox'[u], x) =>
              Has(inbox[u], x) \/ (x = m /\ SentTo(t, u))
      <3>1. CASE UNCHANGED inbox
        BY <3>1
      <3>2. CASE ~Skips(w, t) /\ SendTo(w, m)
        BY <1>1, <2>1, <3>2, SendHas DEF SentTo
      <3>. QED  BY <1>5, <3>1, <3>2 DEF Visit, SendTo, pipeVars
    <2>3. /\ \A s \in Threads \ {t} : job'[s] = job[s]
          /\ \/ job'[t] = [job[t] EXCEPT !.rest = @ \ {k}]
             \/ /\ job'[t] = [job[t] EXCEPT !.rest = @ \ {k}, !.who = w]
                /\ ~Skips(w, t)
      BY <1>1, <1>5 DEF Visit, Job
    <2>4. SameTask(t) /\ job'[t].step = "each"
          /\ (job'[t].who = job[t].who \/ (job'[t].who = w /\ ~Skips(w, t)))
      BY <1>1, <2>1, <2>3 DEF SameTask, Job
    <2>. QED  BY <1>1, <2>1, <2>2, <2>3, <2>4 DEF Handled, Advances
  <1>. QED  BY <1>2, <1>3, <1>4, <1>5

LEMMA HandleMsgHandled ==
    ASSUME Inv, NEW t \in Threads, HandleMsg(t)
    PROVE  Handled(t)
  BY LookupHandled, RecordHandled, EachHandled DEF HandleMsg

LEMMA HandledBegun ==
    ASSUME NEW t \in Threads, Handled(t)
    PROVE  Begun = {}
  BY DEF Handled, Begun, At

LEMMA IdleFields ==
    /\ Idle.step = "idle" /\ Idle.msg = NoMsg /\ Idle.out = <<>>
    /\ Idle.who = NoUser /\ Idle.line = NoLine /\ Idle.old = NoName
    /\ NoMsg.kind = "none" /\ NoLine.cmd = "bad"
    /\ DOMAIN Idle.out = {}
  BY DEF Idle, NoMsg, NoLine

LEMMA HandledNews ==
    ASSUME Inv, SilInv, Observed, NEW t \in Threads, Handled(t),
           UNCHANGED <<ready, broadcast, feed>>, NEW m \in Msg, Spoken(m)
    PROVE  NoNews(m)
  <1>1. PostedOnce(m) /\ hushed' \subseteq hushed /\ shunned' \subseteq shunned
    BY HandledBegun, NothingBegun DEF SilInv, Once
  <1>2. \A s \in Threads : \A i \in DOMAIN job'[s].out :
            job'[s].out[i] = m =>
                i \in DOMAIN job[s].out /\ job[s].out[i] = m
    BY IdleFields DEF Handled, SameTask
  <1>3. \A s \in Threads : Handling(s, m)' => Handling(s, m)
    BY IdleFields DEF Handled, SameTask, Handling
  <1>4. Kept(m)' => Kept(m) \/ Handling(t, m)
    <2>1. Has(history', m) => Kept(m) \/ Handling(t, m)
      BY DEF Handled, Kept, Handling
    <2>2. \A u \in Users : Has(inbox'[u], m) => Kept(m) \/ Handling(t, m)
      BY DEF Handled, Kept, Handling
    <2>. QED  BY <2>1, <2>2 DEF Kept, Has
  <1>5. Taken(m)' => Taken(m)
    BY <1>1, <1>3, <1>4 DEF Taken
  <1>. QED  BY <1>1, <1>2, <1>3, <1>5 DEF NoNews, PostedOnce, Has

(* Where a goroutine of HandleMsg goes.                                    *)
LEMMA Ways ==
    ASSUME NEW m
    PROVE  Branch(m) = IF m.kind = "command" THEN "run"
                       ELSE IF HasTo(m) THEN "direct" ELSE "record"
  BY DEF Branch

LEMMA HandledOnce ==
    ASSUME Inv, SilInv, Observed, NEW t \in Threads, Handled(t),
           UNCHANGED <<ready, broadcast, feed, typed>>
    PROVE  Once'
  <1>. SUFFICES ASSUME NEW m \in Msg, Spoken(m) PROVE PostedOnce(m)'
    BY DEF Once, Spoken
  <1>1. PostedOnce(m)
    BY DEF SilInv, Once
  <1>2. NoNews(m)
    BY HandledNews
  <1>3. ASSUME Unsaid(m.by)'
        PROVE  Unsaid(m.by) /\ job'[m.by].msg = job[m.by].msg
    <2>1. m.by \in Threads
      BY MessageFields, UserThreads
    <2>2. CASE m.by # t
      BY <1>3, <2>1, <2>2 DEF Handled, Unsaid
    <2>3. CASE m.by = t
      BY <1>3, <2>3, IdleFields, Ways
         DEF Handled, SameTask, Advances, Unsaid
    <2>. QED  BY <2>2, <2>3
  <1>. QED
    BY <1>1, <1>2, <1>3, NoNewsOnce DEF PostedOnce

LEMMA HandledLines ==
    ASSUME Inv, RegInv, SilInv, NEW t \in Threads, Handled(t),
           UNCHANGED <<id, phase, typed, ignored>>
    PROVE  LinesOK'
  <1>. SUFFICES ASSUME NEW u \in Users PROVE LineOK(u)'
    BY DEF LinesOK
  <1>1. LineOK(u) /\ u \in Threads
    BY UserThreads DEF SilInv, LinesOK
  <1>2. CASE u # t
    BY <1>1, <1>2 DEF Handled, LineOK, Unsaid, InRoom
  <1>3. CASE u = t /\ job'[t] = Idle
    BY <1>1, <1>3, IdleFields
       DEF LineOK, Unsaid, InRoom, CommandSteps, RenameSteps
  <1>4. CASE u = t /\ SameTask(t) /\ Advances(t, job'[t].step, job'[t].who)
    <2>1. \/ /\ job[t].step = "lookup" /\ job'[t].step = "run"
             /\ job[t].msg.kind = "command"
          \/ job'[t].step \in HandleSteps \ {"lookup"}
      BY <1>4, Ways DEF Advances, HandleSteps
    <2>2. /\ job'[t].step \in CommandSteps => job'[t].msg.kind = "command"
          /\ Unsaid(u)' => Unsaid(u)
          /\ job'[t].step \notin RenameSteps
      BY <1>4, <2>1
         DEF SameTask, Unsaid, CommandSteps, HandleSteps, RenameSteps
    <2>. QED  BY <1>1, <1>4, <2>2 DEF SameTask, LineOK, InRoom
  <1>. QED  BY <1>2, <1>3, <1>4 DEF Handled

LEMMA HandledCommands ==
    ASSUME Inv, SilInv, NEW t \in Threads, Handled(t),
           UNCHANGED <<ready, broadcast, feed>>
    PROVE  CommandsStay' /\ Unaddressed'
  <1>1. CommandsStay /\ Unaddressed
    BY DEF SilInv
  <1>2. ASSUME NEW s \in Threads
        PROVE  /\ job'[s].msg.kind = "command" =>
                      job'[s].step \notin {"direct", "send", "record", "lock",
                                          "each"}
               /\ job'[s].step \in {"lookup", "direct", "record", "lock"} =>
                      job'[s].who = NoUser
    <2>1. CASE s # t
      BY <1>1, <2>1 DEF Handled, CommandsStay, Unaddressed
    <2>2. CASE s = t /\ job'[t] = Idle
      BY <2>2, IdleFields
    <2>3. CASE s = t /\ SameTask(t) /\ Advances(t, job'[t].step, job'[t].who)
      BY <1>1, <2>3, Ways DEF SameTask, Advances, CommandsStay, Unaddressed
    <2>. QED  BY <2>1, <2>2, <2>3 DEF Handled
  <1>3. ASSUME NEW m \in Msg, m.kind = "command"
        PROVE  ~Pending(m)' /\ ~Kept(m)'
    <2>1. ~Pending(m) /\ ~Kept(m)
      BY <1>1, <1>3 DEF CommandsStay
    <2>2. \A s \in Threads : ~Has(job'[s].out, m)
      BY <2>1, IdleFields DEF Handled, SameTask, Pending, Has
    <2>3. job[t].msg = m => job[t].step \notin {"record", "send", "each"}
      BY <1>1, <1>3 DEF CommandsStay
    <2>4. ~Has(history', m) /\ \A u \in Users : ~Has(inbox'[u], m)
      BY <2>1, <2>3 DEF Handled, SentTo, Kept
    <2>. QED  BY <2>1, <2>2, <2>4 DEF Pending, Kept, Has
  <1>. QED  BY <1>2, <1>3 DEF CommandsStay, Unaddressed

LEMMA HushedHandled ==
    ASSUME Inv, RegInv, PrivInv, SilInv, NobodyTakesNames, Observed,
           NEW t \in Threads, Handled(t), UNCHANGED feed,
           NEW m \in hushed'
    PROVE  HushedOK(m)'
  <1>1. m \in hushed /\ m.by \in muted'
    BY HandledBegun, NothingBegun DEF Observed
  <1>2. HushedOK(m)
    BY <1>1 DEF SilInv, Silent
  <1>3. /\ ~Spoken(m) => m.kind = "command"
        /\ m \in Msg /\ m.by \in muted
        /\ \A u \in Users : u # m.by => ~Has(inbox[u], m)
    BY <1>2 DEF HushedOK, HasFrom, Spoken
  <1>4. job[t].msg = m =>
            /\ job[t].step # "record"
            /\ \A u \in Users : SentTo(t, u) => u = m.by
    <2>1. CASE Spoken(m)
      BY <1>2, <2>1 DEF HushedOK, Handling, SentTo, Handled
    <2>2. CASE m.kind = "command"
      BY <2>2 DEF SilInv, CommandsStay, SentTo
    <2>. QED  BY <1>3, <2>1, <2>2
  <1>5. ~Has(history', m) /\ \A u \in Users : u # m.by => ~Has(inbox'[u], m)
    BY <1>2, <1>3, <1>4 DEF Handled, HushedOK
  <1>6. ASSUME Spoken(m), NEW s \in Threads, Handling(s, m)'
        PROVE  \/ job'[s].step = "lookup"
               \/ job'[s].step = "send" /\ job'[s].who = m.by
    <2>1. CASE s # t
      BY <1>2, <1>6, <2>1 DEF HushedOK, Handled, Handling
    <2>2. CASE s = t
      <3>. DEFINE w == Get(job[t].from)
      <3>1. /\ SameTask(t) /\ Advances(t, job'[t].step, job'[t].who)
            /\ job[t].msg = m
        BY <1>6, <2>2, IdleFields DEF Handled, Handling, SameTask
      <3>2. Handling(t, m)
        BY <3>1 DEF Handled, Handling
      <3>3. job[t].step \in {"lookup", "send"}
        BY <1>2, <1>6, <3>2 DEF HushedOK
      <3>4. job[t].step = "lookup" /\ w \in Users => w = m.by
        BY <3>1, LookupFinds
      <3>5. w \in muted => w \in Users
        BY Parts DEF MembersOK
      <3>. QED  BY <1>3, <2>2, <3>1, <3>3, <3>4, <3>5 DEF Advances
    <2>. QED  BY <2>1, <2>2
  <1>. QED
    BY <1>1, <1>2, <1>5, <1>6 DEF HushedOK, HasFrom, Has, Spoken

LEMMA ShunnedHandled ==
    ASSUME Inv, RegInv, PrivInv, SilInv, NobodyTakesNames, Observed,
           NEW t \in Threads, Handled(t),
           NEW m, NEW n, NEW u, <<m, n, u>> \in shunned'
    PROVE  ShunnedOK(m, n, u)'
  <1>. DEFINE a == <<m, n, u>>
  <1>1. a \in shunned /\ Key(n) \in ignored'[u]
    BY HandledBegun, NothingBegun DEF Observed
  <1>2. ShunnedOK(m, n, u)
    <2>1. a[1] = m /\ a[2] = n /\ a[3] = u
      OBVIOUS
    <2>. HIDE DEF a
    <2>. QED  BY <1>1, <2>1 DEF SilInv, Silent
  <1>3. /\ m \in Msg /\ HasFrom(m) /\ u \in Users /\ Key(n) \in ignored[u]
        /\ ~Spoken(m) => m.kind = "command"
    BY <1>2 DEF ShunnedOK, HasFrom, Spoken
  <1>. SUFFICES ASSUME u # m.by
                PROVE  /\ ~Has(inbox'[u], m)
                       /\ Spoken(m) => \A s \in Threads : Handling(s, m)' =>
                              /\ job'[s].from = n
                              /\ job'[s].step \in {"send", "each"} =>
                                     job'[s].who # u
    BY <1>1, <1>3 DEF ShunnedOK, HasFrom, Has, Spoken, Key
  <1>4. job[t].msg = m => ~SentTo(t, u)
    <2>1. CASE Spoken(m)
      BY <1>2, <1>3, <2>1
         DEF ShunnedOK, Handling, SentTo, Handled, Skips, Ignores
    <2>2. CASE m.kind = "command"
      BY <2>2 DEF SilInv, CommandsStay, SentTo
    <2>. QED  BY <1>3, <2>1, <2>2
  <1>5. ~Has(inbox'[u], m)
    BY <1>2, <1>3, <1>4 DEF Handled, ShunnedOK
  <1>6. ASSUME Spoken(m), NEW s \in Threads, Handling(s, m)'
        PROVE  /\ job'[s].from = n
               /\ job'[s].step \in {"send", "each"} => job'[s].who # u
    <2>1. CASE s # t
      BY <1>2, <1>6, <2>1 DEF ShunnedOK, Handled, Handling
    <2>2. CASE s = t
      <3>. DEFINE w == Get(job[t].from)
      <3>1. /\ SameTask(t) /\ Advances(t, job'[t].step, job'[t].who)
            /\ job[t].msg = m
        BY <1>6, <2>2, IdleFields DEF Handled, Handling, SameTask
      <3>2. Handling(t, m)
        BY <3>1 DEF Handled, Handling
      <3>3. /\ job[t].from = n
            /\ job[t].step \in {"send", "each"} => job[t].who # u
        BY <1>2, <1>6, <3>2 DEF ShunnedOK
      <3>4. job[t].step = "lookup" /\ w \in Users => w # u
        BY <3>1, LookupFinds
      <3>5. /\ w \in muted => w \in Users
            /\ u # NoUser
        BY <1>3, Parts, NamesAssumption DEF MembersOK
      <3>6. Ignores(u, job[t].from) /\ Skips(u, t)
        BY <1>3, <3>3 DEF Ignores, Skips
      <3>7. job[t].step \in {"lookup", "direct", "record", "lock"} =>
                job[t].who = NoUser
        BY DEF SilInv, Unaddressed
      <3>8. job'[t].step \in {"send", "each"} => job'[t].who # u
        BY <3>1, <3>3, <3>4, <3>5, <3>6, <3>7, Ways DEF Advances
      <3>. QED  BY <2>2, <3>1, <3>3, <3>8 DEF SameTask
    <2>. QED  BY <2>1, <2>2
  <1>. QED  BY <1>5, <1>6

(* Silence, said of the triples of shunned.                                *)
LEMMA SilentNext ==
    ASSUME Observed, Silent,
           \A m \in hushed' : HushedOK(m)',
           \A m, n, u : <<m, n, u>> \in shunned' => ShunnedOK(m, n, u)'
    PROVE  Silent'
  <1>1. \A s \in shunned' : s = <<s[1], s[2], s[3]>>
    <2>. SUFFICES ASSUME NEW s \in shunned', s \notin shunned
                  PROVE  s = <<s[1], s[2], s[3]>>
      BY DEF Silent
    <2>1. PICK t \in Begun, u \in Users :
              s = <<job'[t].msg, job'[t].from, u>>
      BY DEF Observed
    <2>. QED  BY <2>1
  <1>2. ASSUME NEW s \in shunned' PROVE ShunnedOK(s[1], s[2], s[3])'
    <2>1. <<s[1], s[2], s[3]>> \in shunned'
      BY <1>1
    <2>. QED  BY <2>1
  <1>. QED  BY <1>1, <1>2 DEF Silent

LEMMA HandleMsgSilent ==
    ASSUME Inv, RegInv, PrivInv, SilInv, NobodyTakesNames, Observed,
           NEW t \in Threads, HandleMsg(t), UNCHANGED <<opKeys, hostVars>>
    PROVE  SilInv'
  <1>1. /\ Handled(t)
        /\ UNCHANGED <<id, ignored, ready, broadcast, phase, typed, feed>>
    BY HandleMsgHandled
       DEF HandleMsg, Lookup, Direct, Deliver, Record, Lock, Visit, Unblock,
           Unlock, hostVars, userVars, settingVars, queueVars
  <1>2. Once' /\ LinesOK' /\ CommandsStay' /\ Unaddressed'
    BY <1>1, HandledOnce, HandledLines, HandledCommands
  <1>3. Silent'
    BY <1>1, HushedHandled, ShunnedHandled, SilentNext DEF SilInv
  <1>. QED  BY <1>2, <1>3 DEF SilInv

-----------------------------------------------------------------------------
(* HandleMsg begins on a message.                                          *)
Starts(t, m) ==
    /\ job[t].step = "idle"
    /\ \A s \in Threads \ {t} : job'[s] = job[s]
    /\ job'[t].msg = m /\ job'[t].out = <<>> /\ job'[t].who = NoUser
    /\ job'[t].old = NoName
    /\ job'[t].step = IF HasFrom(m) THEN "lookup" ELSE Branch(m)

LEMMA BeginStarts ==
    ASSUME Inv, NEW t \in Threads, NEW m \in Msg, NEW l,
           Begin(t, m, l), HasFrom(m) => id[m.by] # NoName
    PROVE  Starts(t, m) /\ job'[t].line = l
  <1>. DEFINE s == IF FromID(m) = NoName THEN Branch(m) ELSE "lookup"
              j == [Idle EXCEPT !.msg = m, !.line = l, !.from = FromID(m),
                                !.step = s]
  <1>1. s = IF HasFrom(m) THEN "lookup" ELSE Branch(m)
    BY DEF FromID
  <1>. HIDE DEF s
  <1>2. /\ j.line = l /\ j.msg = m /\ j.step = s
        /\ j.out = <<>> /\ j.who = NoUser /\ j.old = NoName
    BY DEF Idle
  <1>. HIDE DEF j
  <1>3. job' = [job EXCEPT ![t] = j] /\ job[t].step = "idle"
    BY DEF Begin, At, j, s
  <1>4. job'[t] = j /\ \A x \in Threads \ {t} : job'[x] = job[x]
    BY <1>3, Parts
  <1>. QED  BY <1>1, <1>2, <1>3, <1>4 DEF Starts

LEMMA StartsSilent ==
    ASSUME SilInv, Observed, NEW t \in Threads, NEW m \in Msg, Starts(t, m),
           UNCHANGED <<history, feed, inbox>>,
           HasFrom(m) => ~Kept(m), Spoken(m) => ~Taken(m)
    PROVE  Silent'
  <1>1. \A s \in Begun : s = t /\ HasFrom(m)
    BY DEF Begun, Starts, At
  <1>2. ASSUME NEW s \in Threads, NEW x, Handling(s, x)'
        PROVE  \/ s = t /\ x = m
               \/ Handling(s, x) /\ job'[s] = job[s]
    BY <1>2 DEF Handling, Starts
  <1>3. ASSUME NEW x \in hushed' PROVE HushedOK(x)'
    <2>1. x.by \in muted' /\ (x \in hushed \/ (x = m /\ HasFrom(m)))
      BY <1>1 DEF Observed, Starts
    <2>2. CASE x \in hushed
      <3>1. HushedOK(x) /\ (Spoken(m) => x # m)
        BY <2>2 DEF SilInv, Silent, Taken
      <3>. QED
        BY <1>2, <2>1, <3>1 DEF HushedOK, HasFrom, Has, Spoken
    <2>3. CASE x = m /\ HasFrom(m)
      <3>1. ~Kept(m) /\ (Spoken(m) => \A s \in Threads : ~Handling(s, m))
        BY <2>3 DEF Taken
      <3>. QED
        BY <1>2, <2>1, <2>3, <3>1
           DEF HushedOK, HasFrom, Has, Spoken, Kept, Starts
    <2>. QED  BY <2>1, <2>2, <2>3
  <1>4. ASSUME NEW x, NEW n, NEW u, <<x, n, u>> \in shunned'
        PROVE  ShunnedOK(x, n, u)'
    <2>. DEFINE a == <<x, n, u>>
    <2>1. /\ Key(n) \in ignored'[u]
          /\ \/ a \in shunned
             \/ x = m /\ n = job'[t].from /\ u \in Users /\ HasFrom(m)
      BY <1>1, <1>4 DEF Observed, Starts
    <2>2. CASE a \in shunned
      <3>0. a[1] = x /\ a[2] = n /\ a[3] = u
        OBVIOUS
      <3>. HIDE DEF a
      <3>1. ShunnedOK(x, n, u) /\ (Spoken(m) => x # m)
        BY <2>2, <3>0 DEF SilInv, Silent, Taken
      <3>. QED
        BY <1>2, <2>1, <3>1 DEF ShunnedOK, HasFrom, Has, Spoken, Key
    <2>3. CASE x = m /\ n = job'[t].from /\ u \in Users /\ HasFrom(m)
      <3>1. ~Kept(m) /\ (Spoken(m) => \A s \in Threads : ~Handling(s, m))
        BY <2>3 DEF Taken
      <3>2. ~Has(inbox'[u], m)
        BY <2>3, <3>1 DEF Kept
      <3>3. ASSUME Spoken(m), NEW s \in Threads, Handling(s, m)'
            PROVE  job'[s].from = n /\ job'[s].step = "lookup"
        BY <1>2, <2>3, <3>1, <3>3 DEF Starts
      <3>. QED
        BY <2>1, <2>3, <3>2, <3>3
           DEF ShunnedOK, HasFrom, Has, Spoken, Key
    <2>. QED  BY <2>1, <2>2, <2>3
  <1>. QED  BY <1>3, <1>4, SilentNext DEF SilInv

LEMMA StartsCommands ==
    ASSUME SilInv, NEW t \in Threads, NEW m \in Msg, Starts(t, m),
           UNCHANGED <<history, feed, inbox, broadcast>>, ready' \subseteq ready
    PROVE  CommandsStay' /\ Unaddressed'
  <1>1. CommandsStay /\ Unaddressed
    BY DEF SilInv
  <1>2. ASSUME NEW s \in Threads
        PROVE  /\ job'[s].msg.kind = "command" =>
                      job'[s].step \notin {"direct", "send", "record", "lock",
                                          "each"}
               /\ job'[s].step \in {"lookup", "direct", "record", "lock"} =>
                      job'[s].who = NoUser
    BY <1>1 DEF Starts, CommandsStay, Unaddressed, HasFrom
  <1>3. ASSUME NEW x \in Msg, x.kind = "command"
        PROVE  ~Pending(x)' /\ ~Kept(x)'
    <2>1. ~Pending(x) /\ ~Kept(x)
      BY <1>1, <1>3 DEF CommandsStay
    <2>2. \A s \in Threads : ~Has(job'[s].out, x)
      BY <2>1 DEF Starts, Pending, Has
    <2>. QED  BY <2>1, <2>2 DEF Pending, Kept, Has
  <1>. QED  BY <1>2, <1>3 DEF CommandsStay, Unaddressed

LEMMA StartsNews ==
    ASSUME SilInv, Observed, NEW t \in Threads, NEW m \in Msg, Starts(t, m),
           UNCHANGED <<history, feed, inbox, broadcast>>, ready' \subseteq ready,
           NEW x \in Msg, Spoken(x)
    PROVE  /\ \A s \in Threads : ~Has(job'[s].out, x) \/ job'[s] = job[s]
           /\ x # m => NoNews(x)
  <1>1. PostedOnce(x)
    BY DEF SilInv, Once
  <1>2. \A s \in Threads : ~Has(job'[s].out, x) \/ job'[s] = job[s]
    BY DEF Starts, Has
  <1>3. ASSUME x # m PROVE NoNews(x)
    <2>1. \A s \in Threads : \A i \in DOMAIN job'[s].out :
              job'[s].out[i] = x =>
                  i \in DOMAIN job[s].out /\ job[s].out[i] = x
      BY <1>2 DEF Has
    <2>2. \A s \in Threads : Handling(s, x)' => Handling(s, x)
      BY <1>3 DEF Starts, Handling
    <2>3. \A s \in Begun : job'[s].msg = m
      BY DEF Begun, Starts, At
    <2>4. x \in hushed' => x \in hushed
      BY <1>3, <2>3 DEF Observed
    <2>5. \A s \in shunned' : s[1] = x => s \in shunned
      <3>. SUFFICES ASSUME NEW s \in shunned', s[1] = x, s \notin shunned
                    PROVE  FALSE
        OBVIOUS
      <3>1. PICK b \in Begun, u \in Users :
                s = <<job'[b].msg, job'[b].from, u>>
        BY DEF Observed
      <3>. QED  BY <1>3, <2>3, <3>1
    <2>6. Taken(x)' => Taken(x)
      BY <2>2, <2>4, <2>5 DEF Taken, Kept, Has
    <2>. QED  BY <1>1, <2>1, <2>2, <2>6 DEF NoNews, PostedOnce, Has
  <1>. QED  BY <1>2, <1>3

LEMMA StartsOnce ==
    ASSUME Inv, SilInv, Observed, NEW t \in Threads, NEW m \in Msg,
           Starts(t, m),
           UNCHANGED <<history, feed, inbox, broadcast>>, ready' \subseteq ready,
           \A x \in Msg : x.line <= typed[x.by] => x.line <= typed'[x.by],
           m.kind = "command" => \A x \in Msg :
               Spoken(x) /\ Known(x) /\ x.by = t => x.line # m.line,
           Spoken(m) => /\ ~Pending(m)' /\ ~Taken(m)
                        /\ 1 <= m.line /\ m.line <= typed'[m.by]
                        /\ t = m.by \/ Known(m)
    PROVE  Once'
  <1>. SUFFICES ASSUME NEW x \in Msg, Spoken(x) PROVE PostedOnce(x)'
    BY DEF Once, Spoken
  <1>1. PostedOnce(x) /\ x.by \in Threads
    BY MessageFields, UserThreads DEF SilInv, Once
  <1>2. Known(x) /\ Unsaid(x.by)' => x.line # job'[x.by].msg.line
    <2>1. CASE x.by # t
      <3>1. job'[x.by] = job[x.by]
        BY <1>1, <2>1 DEF Starts
      <3>. QED  BY <1>1, <3>1 DEF PostedOnce, Unsaid
    <2>2. CASE x.by = t
      <3>1. job'[x.by].msg = m
        BY <2>2 DEF Starts
      <3>. QED  BY <2>2, <3>1 DEF Unsaid
    <2>. QED  BY <2>1, <2>2
  <1>3. CASE x # m
    <2>1. NoNews(x)
      BY <1>3, StartsNews
    <2>. QED  BY <1>1, <1>2, <2>1, NoNewsOnce
  <1>4. CASE x = m
    <2>1. /\ ~Pending(x)' /\ ~Taken(x) /\ 1 <= x.line
          /\ x.line <= typed'[x.by] /\ (t = x.by \/ Known(x))
      BY <1>4
    <2>2. \A s \in Threads : Handling(s, x)' => s = t
      BY <2>1 DEF Starts, Handling, Taken
    <2>3. Unsaid(x.by)' => x.line # job'[x.by].msg.line
      <3>1. t = x.by => ~Unsaid(x.by)'
        BY <1>4 DEF Starts, Unsaid, Spoken
      <3>. QED  BY <1>2, <2>1, <3>1
    <2>4. /\ \A i, j \in DOMAIN broadcast' :
                 broadcast'[i] = x /\ broadcast'[j] = x => i = j
          /\ x \notin ready' /\ \A s \in Threads : ~Has(job'[s].out, x)
      BY <1>1, <2>1 DEF PostedOnce, Pending, Has
    <2>. QED
      BY <2>1, <2>2, <2>3, <2>4 DEF PostedOnce, Has
  <1>. QED  BY <1>3, <1>4

LEMMA StartsLines ==
    ASSUME Inv, SilInv, NEW t \in Threads, NEW m \in Msg, Starts(t, m),
           UNCHANGED <<id, ignored>>,
           \A u \in Users \ {t} : phase'[u] = phase[u] /\ typed'[u] = typed[u],
           t \in Users =>
               /\ phase[t] \in {"env", "reading"}
               /\ phase'[t] \in {"env", "reading"}
               /\ job'[t].line.cmd = "nick" => job'[t].line.new # NoName
               /\ m.kind = "command" => 1 <= m.line /\ m.line <= typed'[t]
    PROVE  LinesOK'
  <1>. SUFFICES ASSUME NEW u \in Users PROVE LineOK(u)'
    BY DEF LinesOK
  <1>1. LineOK(u) /\ u \in Threads
    BY UserThreads DEF SilInv, LinesOK
  <1>2. CASE u # t
    BY <1>1, <1>2 DEF Starts, LineOK, Unsaid, InRoom
  <1>3. CASE u = t
    <2>1. /\ job'[t].step \notin CommandSteps \cup RenameSteps
          /\ job'[t].msg = m
      <3>1. ~HasFrom(m) => Branch(m) \in {"direct", "record"}
        BY Ways DEF HasFrom
      <3>. QED  BY <3>1 DEF Starts, CommandSteps, RenameSteps
    <2>2. InRoom(u) /\ phase'[u] \notin Early \cup {"history", "feed"}
      BY <1>3 DEF InRoom, Phases, Early
    <2>. QED
      BY <1>1, <1>3, <2>1, <2>2 DEF LineOK, Unsaid
  <1>. QED  BY <1>2, <1>3

LEMMA StartTaskSilent ==
    ASSUME Inv, SilInv, Observed, NEW t \in Tasks, NEW m \in ready,
           StartTask(t, m), UNCHANGED hostVars
    PROVE  SilInv'
  <1>1. /\ m \in Msg /\ t \in Threads /\ t \notin Users
        /\ UNCHANGED <<id, ignored, inbox, history, feed, broadcast, typed,
                      phase>>
        /\ ready' \subseteq ready /\ m \notin ready'
    BY Parts, RoomAssumption
       DEF StartTask, QueuesOK, Threads, userVars, pipeVars, settingVars,
           hostVars
  <1>2. Pending(m)
    BY DEF Pending
  <1>3. HasFrom(m) => Spoken(m) /\ ~Taken(m) /\ ~Kept(m) /\ id[m.by] # NoName
    <2>1. HasFrom(m) => Spoken(m)
      BY <1>1, <1>2 DEF SilInv, CommandsStay, HasFrom, Spoken
    <2>2. ASSUME Spoken(m) PROVE ~Taken(m) /\ ~Kept(m) /\ id[m.by] # NoName
      <3>1. ~Taken(m) /\ 1 <= m.line /\ m.line <= typed[m.by]
        BY <1>1, <1>2, <2>2 DEF SilInv, Once, PostedOnce, Known
      <3>2. m.by \in Users /\ typed[m.by] # 0
        BY <1>1, <3>1, MessageFields, Parts DEF HostOK
      <3>. QED
        BY <3>1, <3>2 DEF SilInv, LinesOK, LineOK, Taken
    <2>. QED  BY <2>1, <2>2
  <1>4. Starts(t, m)
    BY <1>1, <1>3, BeginStarts DEF StartTask
  <1>5. Silent'
    BY <1>1, <1>3, <1>4, StartsSilent DEF HasFrom, Spoken
  <1>6. CommandsStay' /\ Unaddressed'
    BY <1>1, <1>4, StartsCommands
  <1>7. LinesOK'
    BY <1>1, <1>4, StartsLines
  <1>8. Once'
    <2>1. m.kind # "command"
      BY <1>3 DEF HasFrom, Spoken
    <2>2. ASSUME Spoken(m)
          PROVE  ~Pending(m)' /\ 1 <= m.line /\ m.line <= typed'[m.by]
      <3>1. PostedOnce(m)
        BY <1>1, <2>2 DEF SilInv, Once
      <3>2. \A s \in Threads : ~Has(job'[s].out, m)
        BY <3>1, <1>4 DEF PostedOnce, Starts, Has
      <3>3. ~Has(broadcast', m)
        BY <1>1, <3>1 DEF PostedOnce, Has
      <3>. QED  BY <1>1, <1>2, <3>1, <3>2, <3>3 DEF Pending, PostedOnce, Known
    <2>3. Spoken(m) => ~Taken(m) /\ Known(m)
      BY <1>2, <1>3 DEF HasFrom, Spoken, Known
    <2>4. \A x \in Msg : x.line <= typed[x.by] => x.line <= typed'[x.by]
      BY <1>1
    <2>. QED  BY <1>1, <1>4, <2>1, <2>2, <2>3, <2>4, StartsOnce
  <1>. QED  BY <1>5, <1>6, <1>7, <1>8 DEF SilInv

(* What was typed just now is not anywhere yet.                            *)
LEMMA FreshLine ==
    ASSUME Inv, SilInv, NEW m \in Msg, Spoken(m), m.line = typed[m.by] + 1
    PROVE  ~Known(m)
  <1>1. m.by \in Users /\ typed[m.by] \in Nat
    BY MessageFields, Parts DEF HostOK
  <1>. QED  BY <1>1 DEF SilInv, Once, PostedOnce

LEMMA TypedSilent ==
    ASSUME Inv, SilInv, Observed, NobodyUnnamed,
           NEW u \in Users, NEW l \in Lines[u],
           ReadLine(u, l), l.cmd # "reject"
    PROVE  SilInv'
  <1>. DEFINE n == typed[u] + 1
  <1>1. /\ typed \in [Users -> Nat] /\ n \in Nat /\ 1 <= n
        /\ typed' = [typed EXCEPT ![u] = n]
        /\ phase[u] = "reading" /\ u \in Threads
        /\ UNCHANGED <<id, ignored, inbox, history, feed, broadcast, ready,
                      phase>>
        /\ l.cmd = "nick" => l.new # NoName
    BY Parts, UserThreads
       DEF ReadLine, In, Echo, Close, pipeVars, queueVars, settingVars,
           NobodyUnnamed, HostOK
  <1>0. PICK m : m = IF l.cmd = "say" THEN PublicMsg(u, n) ELSE CommandMsg(u, n)
    OBVIOUS
  <1>2. /\ m \in Msg /\ m.by = u /\ m.line = n /\ HasFrom(m)
        /\ m.kind = IF l.cmd = "say" THEN "public" ELSE "command"
    BY <1>0, <1>1, MessageTypes
       DEF PublicMsg, CommandMsg, Make, HasFrom
  <1>3. Begin(u, m, l)
    BY <1>0 DEF ReadLine
  <1>4. id[u] # NoName
    <2>1. InRoom(u)
      BY <1>1 DEF InRoom, Phases
    <2>. QED  BY <2>1 DEF SilInv, LinesOK, LineOK
  <1>5. Starts(u, m) /\ job'[u].line = l
    BY <1>1, <1>2, <1>3, <1>4, BeginStarts
  <1>6. ~Kept(m) /\ (Spoken(m) => ~Known(m) /\ ~Taken(m))
    <2>1. CASE Spoken(m)
      BY <1>2, <2>1, FreshLine DEF Known, Taken
    <2>2. CASE m.kind = "command"
      BY <1>2, <2>2 DEF SilInv, CommandsStay, Spoken
    <2>. QED  BY <1>2, <2>1, <2>2 DEF Spoken
  <1>7. Silent'
    BY <1>1, <1>2, <1>5, <1>6, StartsSilent
  <1>8. CommandsStay' /\ Unaddressed'
    BY <1>1, <1>2, <1>5, StartsCommands
  <1>9. LinesOK'
    <2>1. typed'[u] = n /\ \A v \in Users \ {u} : typed'[v] = typed[v]
      BY <1>1
    <2>. QED  BY <1>1, <1>2, <1>5, <2>1, StartsLines
  <1>10. Once'
    <2>1. typed'[u] = n /\ \A v \in Users \ {u} : typed'[v] = typed[v]
      BY <1>1
    <2>2. \A x \in Msg : x.line <= typed[x.by] => x.line <= typed'[x.by]
      BY <1>1, <2>1, MessageFields
    <2>3. \A x \in Msg : Spoken(x) /\ Known(x) /\ x.by = u => x.line # m.line
      BY <1>1, <1>2 DEF SilInv, Once, PostedOnce
    <2>4. ASSUME Spoken(m) PROVE ~Pending(m)'
      <3>1. ~Pending(m)
        BY <1>6, <2>4 DEF Known
      <3>2. \A s \in Threads : ~Has(job'[s].out, m)
        BY <3>1, <1>5 DEF Starts, Pending, Has
      <3>. QED  BY <1>1, <3>1, <3>2 DEF Pending, Has
    <2>. QED
      BY <1>1, <1>2, <1>5, <1>6, <2>1, <2>2, <2>3, <2>4, StartsOnce
  <1>. QED  BY <1>7, <1>8, <1>9, <1>10 DEF SilInv

LEMMA EnvSilent ==
    ASSUME Inv, RegInv, SilInv, Observed, NEW u \in Users, RunEnv(u),
           ~UNCHANGED <<job, typed>>
    PROVE  SilInv'
  <1>. DEFINE n == typed[u] + 1
              m == CommandMsg(u, n)
  <1>0. PICK c \in {"info", "bad"} :
            Begin(u, m, [NoLine EXCEPT !.cmd = c])
    BY DEF RunEnv
  <1>. DEFINE l == [NoLine EXCEPT !.cmd = c]
  <1>1. /\ typed \in [Users -> Nat] /\ n \in Nat /\ 1 <= n
        /\ typed' = [typed EXCEPT ![u] = n]
        /\ phase[u] = "env" /\ u \in Threads
        /\ UNCHANGED <<id, ignored, inbox, history, feed, broadcast, ready,
                      phase>>
    BY Parts, UserThreads
       DEF RunEnv, In, pipeVars, queueVars, settingVars, userVars, HostOK
  <1>2. /\ m \in Msg /\ m.by = u /\ m.line = n /\ HasFrom(m)
        /\ m.kind = "command" /\ l.cmd # "nick"
    BY <1>1, MessageTypes DEF CommandMsg, Make, HasFrom, NoLine
  <1>3. Begin(u, m, l)
    BY <1>0
  <1>. HIDE DEF m, l
  <1>4. id[u] # NoName
    <2>1. InRoom(u)
      BY <1>1 DEF InRoom, Phases
    <2>. QED  BY <2>1 DEF SilInv, LinesOK, LineOK
  <1>5. Starts(u, m) /\ job'[u].line = l
    BY <1>1, <1>2, <1>3, <1>4, BeginStarts
  <1>6. ~Kept(m) /\ ~Spoken(m)
    BY <1>2 DEF SilInv, CommandsStay, Spoken
  <1>7. Silent'
    BY <1>1, <1>2, <1>5, <1>6, StartsSilent
  <1>8. CommandsStay' /\ Unaddressed'
    BY <1>1, <1>2, <1>5, StartsCommands
  <1>. HIDE DEF n
  <1>9. typed'[u] = n /\ \A v \in Users \ {u} : typed'[v] = typed[v]
    BY <1>1
  <1>10. LinesOK'
    BY <1>1, <1>2, <1>5, <1>9, StartsLines
  <1>11. Once'
    <2>1. \A x \in Msg : x.line <= typed[x.by] => x.line <= typed'[x.by]
      BY <1>1, <1>9, MessageFields DEF n
    <2>2. \A x \in Msg : Spoken(x) /\ Known(x) /\ x.by = u => x.line # m.line
      BY <1>1, <1>2 DEF SilInv, Once, PostedOnce, n
    <2>. QED  BY <1>1, <1>2, <1>5, <1>6, <2>1, <2>2, StartsOnce
  <1>. QED  BY <1>7, <1>8, <1>10, <1>11 DEF SilInv

-----------------------------------------------------------------------------
(* Steps outside of HandleMsg: goroutines go their own ways, the history   *)
(* stays, and a user gets of it what it has been given as a feed.          *)
Off(j) == \/ j.step = "idle"
          \/ j.step \in CommandSteps \ {"run"} /\ j.msg.kind = "command"
          \/ j.step = "send" /\ ~HasFrom(j.msg)

Aside ==
    /\ history' = history
    /\ \A t \in Threads :
           job'[t] = job[t] \/ (Off(job'[t]) /\ t \notin Begun)
    /\ \A u \in Users : \A m :
           Has(feed'[u], m) => Has(feed[u], m) \/ Has(history, m)
    /\ \A u \in Users : \A m : HasFrom(m) /\ Has(inbox'[u], m) =>
           Has(inbox[u], m) \/ (Has(feed[u], m) /\ ignored[u] = {})

LEMMA AsideBegun == ASSUME Aside PROVE Begun = {}
  BY DEF Aside, Begun, At

LEMMA AsideHandling ==
    ASSUME Aside, NEW m, Spoken(m), NEW t \in Threads, Handling(t, m)'
    PROVE  job'[t] = job[t] /\ Handling(t, m)
  BY DEF Aside, Off, Handling, Spoken, HasFrom

LEMMA AsideSilent ==
    ASSUME SilInv, Observed, Aside
    PROVE  Silent'
  <1>1. hushed' \subseteq hushed /\ shunned' \subseteq shunned
    BY AsideBegun, NothingBegun
  <1>2. ASSUME NEW m \in hushed' PROVE HushedOK(m)'
    <2>1. HushedOK(m) /\ m.by \in muted'
      BY <1>1, <1>2 DEF SilInv, Silent, Observed
    <2>2. /\ ~Has(history', m)
          /\ \A u \in Users : /\ ~Has(feed'[u], m)
                              /\ u # m.by => ~Has(inbox'[u], m)
      BY <2>1 DEF Aside, HushedOK
    <2>3. ASSUME Spoken(m), NEW t \in Threads, Handling(t, m)'
          PROVE  \/ job'[t].step = "lookup"
                 \/ job'[t].step = "send" /\ job'[t].who = m.by
      BY <2>1, <2>3, AsideHandling DEF HushedOK
    <2>. QED  BY <2>1, <2>2, <2>3 DEF HushedOK, HasFrom, Has, Spoken
  <1>3. ASSUME NEW m, NEW n, NEW u, <<m, n, u>> \in shunned'
        PROVE  ShunnedOK(m, n, u)'
    <2>. DEFINE a == <<m, n, u>>
    <2>1. a \in shunned /\ Key(n) \in ignored'[u]
      BY <1>1, <1>3 DEF Observed
    <2>2. a[1] = m /\ a[2] = n /\ a[3] = u
      OBVIOUS
    <2>. HIDE DEF a
    <2>3. ShunnedOK(m, n, u)
      BY <2>1, <2>2 DEF SilInv, Silent
    <2>4. u # m.by => ~Has(inbox'[u], m)
      BY <2>3 DEF Aside, ShunnedOK
    <2>5. ASSUME u # m.by, Spoken(m), NEW t \in Threads, Handling(t, m)'
          PROVE  /\ job'[t].from = n
                 /\ job'[t].step \in {"send", "each"} => job'[t].who # u
      BY <2>3, <2>5, AsideHandling DEF ShunnedOK
    <2>. QED
      BY <2>1, <2>3, <2>4, <2>5 DEF ShunnedOK, HasFrom, Has, Spoken, Key
  <1>. QED  BY <1>2, <1>3, SilentNext DEF SilInv

LEMMA AsideKept ==
    ASSUME Aside, NEW m, HasFrom(m), Kept(m)'
    PROVE  Kept(m)
  <1>1. Has(history', m) => Kept(m)
    BY DEF Aside, Kept, Has
  <1>2. \A u \in Users : Has(feed'[u], m) => Kept(m)
    BY DEF Aside, Kept
  <1>3. \A u \in Users : Has(inbox'[u], m) => Kept(m)
    BY DEF Aside, Kept
  <1>. QED  BY <1>1, <1>2, <1>3 DEF Kept, Has

LEMMA AsideTaken ==
    ASSUME Aside, Observed, NEW m, Spoken(m), Taken(m)'
    PROVE  Taken(m)
  <1>1. HasFrom(m)
    BY DEF Spoken, HasFrom
  <1>2. Kept(m)' => Kept(m)
    BY <1>1, AsideKept
  <1>3. m \in hushed' => m \in hushed
    BY AsideBegun, NothingBegun
  <1>4. (\E s \in shunned' : s[1] = m) => \E s \in shunned : s[1] = m
    BY AsideBegun, NothingBegun
  <1>5. \A t \in Threads : Handling(t, m)' => Handling(t, m)
    BY AsideHandling
  <1>. QED  BY <1>2, <1>3, <1>4, <1>5 DEF Taken

LEMMA AsideCommands ==
    ASSUME SilInv, Aside,
           \A m \in Msg : m.kind = "command" /\ Pending(m)' => Pending(m)
    PROVE  CommandsStay' /\ Unaddressed'
  <1>1. CommandsStay /\ Unaddressed
    BY DEF SilInv
  <1>2. ASSUME NEW s \in Threads
        PROVE  /\ job'[s].msg.kind = "command" =>
                      job'[s].step \notin {"direct", "send", "record", "lock",
                                          "each"}
               /\ job'[s].step \in {"lookup", "direct", "record", "lock"} =>
                      job'[s].who = NoUser
    BY <1>1 DEF Aside, Off, CommandSteps, HasFrom, CommandsStay, Unaddressed
  <1>3. ASSUME NEW m \in Msg, m.kind = "command"
        PROVE  ~Pending(m)' /\ ~Kept(m)'
    <2>1. ~Kept(m)'
      BY <1>1, <1>3, AsideKept DEF CommandsStay, HasFrom
    <2>. QED  BY <1>1, <1>3, <2>1 DEF CommandsStay
  <1>. QED  BY <1>2, <1>3 DEF CommandsStay, Unaddressed

(* A line is no longer unsaid once its goroutine has gone on.              *)
LEMMA AsideUnsaid ==
    ASSUME Aside, NEW u \in Users, Unsaid(u)'
    PROVE  Unsaid(u) /\ job'[u].msg = job[u].msg
  BY UserThreads DEF Aside, Off, Unsaid, CommandSteps, HasFrom

(* Nothing is posted but answers and announcements.                        *)
NothingPosted ==
    /\ \A m \in ready' : HasFrom(m) => m \in ready
    /\ \A i \in DOMAIN broadcast' : HasFrom(broadcast'[i]) =>
           i \in DOMAIN broadcast /\ broadcast'[i] = broadcast[i]
    /\ \A t \in Threads : \A i \in DOMAIN job'[t].out :
           HasFrom(job'[t].out[i]) =>
               /\ i \in DOMAIN job[t].out
               /\ job'[t].out[i] = job[t].out[i]

LEMMA AsideOnce ==
    ASSUME SilInv, Observed, Aside, NothingPosted,
           \A m \in Msg : m.line <= typed[m.by] => m.line <= typed'[m.by]
    PROVE  Once' /\ CommandsStay' /\ Unaddressed'
  <1>1. ASSUME NEW m, HasFrom(m), Pending(m)' PROVE Pending(m)
    BY <1>1 DEF NothingPosted, Pending, Has
  <1>2. CommandsStay' /\ Unaddressed'
    BY <1>1, AsideCommands DEF HasFrom
  <1>3. ASSUME NEW m \in Msg, Spoken(m) PROVE PostedOnce(m)'
    <2>1. PostedOnce(m) /\ HasFrom(m) /\ m.by \in Users
      BY <1>3, MessageFields DEF SilInv, Once, HasFrom, Spoken
    <2>2. /\ m \in ready' => m \in ready
          /\ Has(broadcast', m) => Has(broadcast, m)
          /\ \A i, j \in DOMAIN broadcast' :
                 broadcast'[i] = m /\ broadcast'[j] = m => i = j
          /\ \A t \in Threads : \A i \in DOMAIN job'[t].out :
                 job'[t].out[i] = m =>
                     i \in DOMAIN job[t].out /\ job[t].out[i] = m
      BY <2>1 DEF NothingPosted, PostedOnce, Has
    <2>3. NoNews(m)
      BY <1>3, <2>2, AsideHandling, AsideTaken DEF NoNews
    <2>4. Known(m) /\ Unsaid(m.by)' => m.line # job'[m.by].msg.line
      BY <2>1, AsideUnsaid DEF PostedOnce
    <2>. QED  BY <1>3, <2>1, <2>3, <2>4, NoNewsOnce
  <1>. QED  BY <1>2, <1>3 DEF Once, Spoken

(* Messages move on; m is the one that does.                               *)
LEMMA AsideOthers ==
    ASSUME SilInv, Observed, Aside, UNCHANGED typed, NEW m \in Msg,
           \A x \in Msg : HasFrom(x) /\ x # m =>
               /\ x \in ready' => x \in ready
               /\ Has(broadcast', x) => Has(broadcast, x)
               /\ \A i, j \in DOMAIN broadcast' :
                      broadcast'[i] = x /\ broadcast'[j] = x => i = j
               /\ \A t \in Threads : \A i \in DOMAIN job'[t].out :
                      job'[t].out[i] = x =>
                          i \in DOMAIN job[t].out /\ job[t].out[i] = x,
           m.kind # "command" \/ (Pending(m)' => Pending(m)),
           Spoken(m) => PostedOnce(m)'
    PROVE  Once' /\ CommandsStay' /\ Unaddressed'
  <1>1. ASSUME NEW x \in Msg, x.kind = "command", Pending(x)'
        PROVE  Pending(x)
    BY <1>1 DEF HasFrom, Pending, Has
  <1>2. CommandsStay' /\ Unaddressed'
    BY <1>1, AsideCommands
  <1>3. ASSUME NEW x \in Msg, Spoken(x), x # m PROVE PostedOnce(x)'
    <2>1. PostedOnce(x) /\ HasFrom(x) /\ x.by \in Users
      BY <1>3, MessageFields DEF SilInv, Once, HasFrom, Spoken
    <2>2. NoNews(x)
      BY <1>3, <2>1, AsideHandling, AsideTaken DEF NoNews
    <2>3. Known(x) /\ Unsaid(x.by)' => x.line # job'[x.by].msg.line
      BY <2>1, AsideUnsaid DEF PostedOnce
    <2>. QED  BY <1>3, <2>1, <2>2, <2>3, NoNewsOnce
  <1>. QED  BY <1>2, <1>3 DEF Once, Spoken

(* What a message that is not handled yet keeps, wherever it waits.        *)
LEMMA AsideWaits ==
    ASSUME SilInv, Observed, Aside, UNCHANGED typed,
           NEW m \in Msg, Spoken(m), Pending(m)
    PROVE  /\ ~Taken(m)' /\ \A t \in Threads : ~Handling(t, m)'
           /\ 1 <= m.line /\ m.line <= typed'[m.by]
           /\ Unsaid(m.by)' => m.line # job'[m.by].msg.line
  <1>1. PostedOnce(m) /\ m.by \in Users
    BY MessageFields DEF SilInv, Once
  <1>2. ~Taken(m)'
    BY <1>1, AsideTaken DEF PostedOnce
  <1>3. \A t \in Threads : ~Handling(t, m)'
    BY <1>2 DEF Taken, Handling
  <1>. QED  BY <1>1, <1>2, <1>3, AsideUnsaid DEF PostedOnce, Known

LEMMA ServeSilent ==
    ASSUME Inv, SilInv, Observed, Serve, UNCHANGED hostVars
    PROVE  SilInv'
  <1>1. /\ UNCHANGED <<id, ignored, inbox, history, job, feed, typed, phase>>
        /\ broadcast \in Seq(Msg) /\ broadcast # <<>>
        /\ broadcast' = Tail(broadcast)
        /\ ready' = ready \cup {Head(broadcast)}
    BY Parts
       DEF Serve, QueuesOK, userVars, pipeVars, settingVars, hostVars
  <1>2. /\ 1 \in DOMAIN broadcast /\ Head(broadcast) = broadcast[1]
        /\ Head(broadcast) \in Msg
        /\ \A i \in DOMAIN broadcast' :
               i \in Nat \ {0} /\ i + 1 \in DOMAIN broadcast
               /\ broadcast'[i] = broadcast[i + 1]
    BY <1>1, TailHas
  <1>3. PICK m \in Msg : m = Head(broadcast)
    BY <1>2
  <1>4. Aside
    BY <1>1 DEF Aside
  <1>5. Pending(m) /\ Has(broadcast, m)
    BY <1>2, <1>3 DEF Pending, Has
  <1>6. ASSUME Spoken(m) PROVE PostedOnce(m)'
    <2>1. PostedOnce(m)
      BY <1>6 DEF SilInv, Once
    <2>2. ~Has(broadcast', m)
      <3>. SUFFICES ASSUME NEW i \in DOMAIN broadcast', broadcast'[i] = m
                    PROVE  FALSE
        BY DEF Has
      <3>1. i + 1 = 1
        BY <1>2, <1>3, <2>1 DEF PostedOnce
      <3>. QED  BY <1>2, <3>1
    <2>3. \A t \in Threads : \A i \in DOMAIN job'[t].out :
              job'[t].out[i] # m
      BY <1>1, <1>5, <2>1 DEF PostedOnce
    <2>. QED
      BY <1>1, <1>4, <1>5, <1>6, <2>2, <2>3, AsideWaits
         DEF PostedOnce, Has
  <1>7. ASSUME NEW x \in Msg, HasFrom(x), x # m
        PROVE  /\ x \in ready' => x \in ready
               /\ Has(broadcast', x) => Has(broadcast, x)
               /\ \A i, j \in DOMAIN broadcast' :
                      broadcast'[i] = x /\ broadcast'[j] = x => i = j
               /\ \A t \in Threads : \A i \in DOMAIN job'[t].out :
                      job'[t].out[i] = x =>
                          i \in DOMAIN job[t].out /\ job[t].out[i] = x
    <2>1. Has(broadcast', x) => Has(broadcast, x)
      BY <1>2 DEF Has
    <2>2. ASSUME NEW i \in DOMAIN broadcast', NEW j \in DOMAIN broadcast',
                 broadcast'[i] = x, broadcast'[j] = x
          PROVE  i = j
      <3>1. CASE x.kind = "command"
        BY <1>2, <2>2, <3>1 DEF SilInv, CommandsStay, Pending, Has
      <3>2. CASE Spoken(x)
        <4>1. i + 1 = j + 1
          BY <1>2, <2>2, <3>2 DEF SilInv, Once, PostedOnce
        <4>. QED  BY <1>2, <4>1
      <3>. QED  BY <1>7, <3>1, <3>2 DEF HasFrom, Spoken
    <2>. QED  BY <1>1, <1>3, <1>7, <2>1, <2>2
  <1>8. Once' /\ CommandsStay' /\ Unaddressed'
    BY <1>1, <1>4, <1>5, <1>6, <1>7, AsideOthers
  <1>9. LinesOK'
    BY <1>1 DEF SilInv, LinesOK, LineOK, Unsaid, InRoom
  <1>. QED
    BY <1>4, <1>8, <1>9, AsideSilent DEF SilInv

(* A command posts what its author says; nobody has said it before.        *)
LEMMA Says ==
    ASSUME Inv, SilInv, Observed, Aside, NEW u \in Users, Unsaid(u),
           job'[u].step = "out", UNCHANGED <<ready, broadcast, typed>>,
           \A t \in Threads \ {u} : job'[t] = job[t],
           NEW m \in Msg, Spoken(m), m.by = u, m.line = job[u].msg.line,
           1 <= m.line,
           \A i \in DOMAIN job'[u].out :
               HasFrom(job'[u].out[i]) => i = 1 /\ job'[u].out[i] = m
    PROVE  Once' /\ CommandsStay' /\ Unaddressed'
  <1>1. /\ PostedOnce(m) /\ ~Known(m) /\ ~Unsaid(u)'
        /\ m.line <= typed'[u] /\ HasFrom(m)
    BY DEF SilInv, Once, LinesOK, LineOK, PostedOnce, Unsaid, HasFrom, Spoken
  <1>2. ~Taken(m)' /\ \A t \in Threads : ~Handling(t, m)'
    <2>1. ~Taken(m)'
      BY <1>1, AsideTaken DEF Known
    <2>. QED  BY <2>1 DEF Taken, Handling
  <1>3. /\ m \notin ready' /\ ~Has(broadcast', m)
        /\ \A t \in Threads : \A i \in DOMAIN job'[t].out :
               job'[t].out[i] = m => t = u /\ i = 1
    BY <1>1 DEF Known, Pending, Has
  <1>4. PostedOnce(m)'
    BY <1>1, <1>2, <1>3 DEF PostedOnce, Has
  <1>5. ASSUME NEW x \in Msg, HasFrom(x), x # m
        PROVE  /\ x \in ready' => x \in ready
               /\ Has(broadcast', x) => Has(broadcast, x)
               /\ \A i, j \in DOMAIN broadcast' :
                      broadcast'[i] = x /\ broadcast'[j] = x => i = j
               /\ \A t \in Threads : \A i \in DOMAIN job'[t].out :
                      job'[t].out[i] = x =>
                          i \in DOMAIN job[t].out /\ job[t].out[i] = x
    <2>1. ASSUME NEW i \in DOMAIN broadcast', NEW j \in DOMAIN broadcast',
                 broadcast'[i] = x, broadcast'[j] = x
          PROVE  i = j
      <3>1. CASE x.kind = "command"
        BY <2>1, <3>1 DEF SilInv, CommandsStay, Pending, Has
      <3>2. CASE Spoken(x)
        BY <2>1, <3>2 DEF SilInv, Once, PostedOnce
      <3>. QED  BY <1>5, <3>1, <3>2 DEF HasFrom, Spoken
    <2>. QED  BY <1>5, <2>1 DEF Has
  <1>. QED
    BY <1>4, <1>5, AsideOthers DEF Spoken

-----------------------------------------------------------------------------
(* Commands.                                                               *)
Acted(u) ==
    /\ job[u].step \in CommandSteps
    /\ \A t \in Threads \ {u} : job'[t] = job[t]
    /\ job'[u].step = "idle" \/ (/\ job'[u].step \in CommandSteps \ {"run"}
                                /\ job'[u].msg = job[u].msg)
    /\ job'[u].line \in {job[u].line, NoLine}
    /\ job'[u].step \in RenameSteps =>
           job'[u].old # NoName /\ job'[u].line.new # NoName

Silences(o) == \A i \in DOMAIN o : ~HasFrom(o[i])

Answers(u) == job'[u].out = job[u].out \/ Silences(job'[u].out)

LEMMA ActedAside ==
    ASSUME SilInv, NEW u \in Users, Acted(u),
           UNCHANGED <<history, inbox, feed>>
    PROVE  Aside
  <1>1. u \in Threads /\ job[u].step # "idle" /\ job[u].msg.kind = "command"
    BY UserThreads DEF SilInv, LinesOK, LineOK, Acted, CommandSteps
  <1>2. Off(job'[u]) /\ u \notin Begun
    BY <1>1 DEF Acted, Off, Begun, At
  <1>. QED  BY <1>2 DEF Aside, Acted

LEMMA ActedLines ==
    ASSUME Inv, RegInv, SilInv, NEW u \in Users, Acted(u),
           UNCHANGED <<phase, typed>>,
           \A v \in Users : id'[v] = id[v] \/ id'[v] # NoName,
           \A v \in Users \ {u} : ignored'[v] = ignored[v]
    PROVE  LinesOK'
  <1>. SUFFICES ASSUME NEW v \in Users PROVE LineOK(v)'
    BY DEF LinesOK
  <1>1. LineOK(v) /\ v \in Threads /\ UserOK(v)
    BY UserThreads DEF SilInv, LinesOK, RegInv
  <1>2. CASE v # u
    BY <1>1, <1>2 DEF Acted, LineOK, Unsaid, InRoom
  <1>3. CASE v = u
    <2>1. /\ phase[u] \in {"env", "reading"}
          /\ job[u].msg.kind = "command"
      BY <1>1, <1>3 DEF Acted, UserOK, CommandSteps, LineOK
    <2>2. phase'[u] \notin Early \cup {"history", "feed"}
      BY <2>1 DEF Early
    <2>3. /\ job'[u].step \in CommandSteps => job'[u].msg.kind = "command"
          /\ ~Unsaid(u)'
          /\ job'[u].line.cmd = "nick" => job'[u].line.new # NoName
      BY <1>1, <1>3, <2>1, IdleFields
         DEF Acted, Unsaid, CommandSteps, LineOK
    <2>. QED
      BY <1>1, <1>3, <2>2, <2>3 DEF Acted, LineOK, InRoom
  <1>. QED  BY <1>2, <1>3

LEMMA ActedSilent ==
    ASSUME Inv, RegInv, SilInv, Observed, NEW u \in Users, Acted(u), Answers(u),
           UNCHANGED <<history, inbox, feed, phase, typed, broadcast>>,
           \A m \in ready' : HasFrom(m) => m \in ready,
           \A v \in Users : id'[v] = id[v] \/ id'[v] # NoName,
           \A v \in Users \ {u} : ignored'[v] = ignored[v]
    PROVE  SilInv'
  <1>1. Aside /\ LinesOK'
    BY ActedAside, ActedLines
  <1>2. NothingPosted
    BY DEF NothingPosted, Acted, Answers, Silences
  <1>3. Once' /\ CommandsStay' /\ Unaddressed'
    BY <1>1, <1>2, AsideOnce
  <1>. QED  BY <1>1, <1>3, AsideSilent DEF SilInv

(* The ways a handler moves on.                                            *)
LEMMA Moves ==
    ASSUME Inv, NEW u \in Users, job[u].step \in CommandSteps,
           NEW s \in CommandSteps \ ({"run"} \cup RenameSteps), NEW v, NEW out,
           \/ Finish(u) \/ Goto(u, s) \/ Found(u, s, v) \/ Post(u, out)
           \/ PostThen(u, out, v, s)
    PROVE  /\ Acted(u)
           /\ \/ job'[u].out \in {job[u].out, <<>>}
              \/ job'[u].out = out /\ job'[u].step = "out"
           /\ Post(u, out) \/ PostThen(u, out, v, s) =>
                  job'[u].out = out /\ job'[u].step = "out"
  <1>0. job \in [Threads -> Job] /\ job[u] \in Job /\ u \in Threads
    BY Parts, JobFacts, UserThreads
  <1>1. \A t \in Threads \ {u} : job'[t] = job[t]
    BY <1>0 DEF Finish, Goto, Found, Post, PostThen
  <1>2. ASSUME Post(u, out) \/ PostThen(u, out, v, s)
        PROVE  job'[u].out = out /\ job'[u].step = "out"
    <2>1. \/ job'[u] = [job[u] EXCEPT !.step = "out", !.out = out,
                                     !.then = "idle"]
          \/ job'[u] = [job[u] EXCEPT !.step = "out", !.out = out,
                                     !.then = s, !.who = v]
      BY <1>0, <1>2 DEF Post, PostThen
    <2>. QED  BY <1>0, <2>1 DEF Job
  <1>3. CASE Finish(u)
    <2>1. job'[u] = Idle
      BY <1>0, <1>3 DEF Finish
    <2>. QED
      BY <1>1, <1>2, <2>1, IdleFields DEF Acted, RenameSteps
  <1>4. CASE Goto(u, s)
    <2>1. job'[u] = [job[u] EXCEPT !.step = s]
      BY <1>0, <1>4 DEF Goto
    <2>2. /\ job'[u].step = s /\ job'[u].msg = job[u].msg
          /\ job'[u].line = job[u].line /\ job'[u].out = job[u].out
      BY <1>0, <2>1 DEF Job
    <2>. QED  BY <1>1, <1>2, <2>2 DEF Acted
  <1>5. CASE Found(u, s, v)
    <2>1. job'[u] = [job[u] EXCEPT !.step = s, !.who = v]
      BY <1>0, <1>5 DEF Found, Job
    <2>2. /\ job'[u].step = s /\ job'[u].msg = job[u].msg
          /\ job'[u].line = job[u].line /\ job'[u].out = job[u].out
      BY <1>0, <2>1 DEF Job
    <2>. QED  BY <1>1, <1>2, <2>2 DEF Acted
  <1>6. CASE Post(u, out) \/ PostThen(u, out, v, s)
    <2>1. \/ job'[u] = [job[u] EXCEPT !.step = "out", !.out = out,
                                     !.then = "idle"]
          \/ job'[u] = [job[u] EXCEPT !.step = "out", !.out = out,
                                     !.then = s, !.who = v]
      BY <1>0, <1>6 DEF Post, PostThen
    <2>2. /\ job'[u].step = "out" /\ job'[u].msg = job[u].msg
          /\ job'[u].line = job[u].line /\ job'[u].out = out
      BY <1>0, <2>1 DEF Job
    <2>. QED  BY <1>1, <1>2, <2>2 DEF Acted, CommandSteps, RenameSteps
  <1>. QED  BY <1>2, <1>3, <1>4, <1>5, <1>6

LEMMA AnswerKinds ==
    ASSUME NEW u, NEW v, NEW n, NEW p
    PROVE  /\ ~HasFrom(SystemMsg(u, v, n, p)) /\ ~HasFrom(AnnounceMsg(u, n, p))
           /\ Silences(<<SystemMsg(u, v, n, p)>>)
           /\ Silences(<<AnnounceMsg(u, n, p)>>)
           /\ Silences(<<AnnounceMsg(u, n, 2), AnnounceMsg(u, n, 3)>>)
           /\ Silences(<<>>)
  BY DEF SystemMsg, AnnounceMsg, Make, HasFrom, Silences

LEMMA FailPosts ==
    ASSUME NEW u, Fail(u)
    PROVE  /\ Finish(u) /\ UNCHANGED broadcast
           /\ \A m \in ready' : HasFrom(m) => m \in ready
  BY AnswerKinds DEF Fail, Spawn

LEMMA OtherCommandSilent ==
    ASSUME Inv, RegInv, SilInv, Observed, NEW u \in Users, UNCHANGED hostVars,
           \/ Bad(u) \/ Info(u) \/ Exit(u)
           \/ ToggleQuiet(u) \/ Ignore(u) \/ Unignore(u)
           \/ (PrivateTo(u) \/ ReplyBack(u)) /\ Fail(u)
           \/ SetReplyTo(u) \/ Authorize(u) \/ NoTarget(u) \/ Mute(u)
           \/ SetMute(u) \/ Kick(u) \/ CloseTarget(u) \/ Op(u) \/ OpKey(u)
    PROVE  SilInv'
  <1>. DEFINE S == {"act", "muteOn", "muteOff", "replyTo", "close", "opkey"}
  <1>1. /\ UNCHANGED <<id, history, feed, inbox, phase, typed>>
        /\ job[u].step \in CommandSteps
        /\ \A v \in Users \ {u} : ignored'[v] = ignored[v]
    <2>1. UNCHANGED <<id, history, feed, inbox, phase, typed>>
      BY DEF Bad, Info, Exit, ToggleQuiet, Ignore, Unignore, PrivateTo,
             ReplyBack, SetReplyTo, Authorize, NoTarget, Mute, SetMute, Kick,
             CloseTarget, Op, OpKey, hostVars, userVars, pipeVars, Close
    <2>2. job[u].step \in CommandSteps
      BY DEF Bad, Info, Exit, ToggleQuiet, Ignore, Unignore, PrivateTo,
             ReplyBack, SetReplyTo, Authorize, NoTarget, Mute, SetMute, Kick,
             CloseTarget, Op, OpKey, Runs, Acts, At, CommandSteps
    <2>3. CASE Ignore(u) \/ Unignore(u)
      BY <2>1, <2>2, <2>3, Parts DEF Ignore, Unignore, UsersTypeOK
    <2>4. CASE ~(Ignore(u) \/ Unignore(u))
      BY <2>1, <2>2, <2>4
         DEF Bad, Info, Exit, ToggleQuiet, PrivateTo,
             ReplyBack, SetReplyTo, Authorize, NoTarget, Mute, SetMute, Kick,
             CloseTarget, Op, OpKey, userVars, settingVars
    <2>. QED  BY <2>1, <2>2, <2>3, <2>4
  <1>2. \/ Fail(u)
        \/ /\ UNCHANGED <<broadcast, ready>>
           /\ \E s \in S : \E v, out :
                  /\ Silences(out)
                  /\ \/ Finish(u) \/ Goto(u, s) \/ Found(u, s, v)
                     \/ Post(u, out) \/ PostThen(u, out, v, s)
    <2>1. CASE \/ Info(u) \/ ToggleQuiet(u) \/ Ignore(u) \/ Unignore(u)
               \/ SetMute(u) \/ OpKey(u)
      <3>1. \/ Fail(u)
            \/ /\ UNCHANGED <<broadcast, ready>>
               /\ \E out : Silences(out) /\ Post(u, out)
        BY <2>1, AnswerKinds
           DEF Info, ToggleQuiet, Ignore, Unignore, SetMute, OpKey, Reply,
               queueVars
      <3>. QED  BY <3>1
    <2>2. CASE \/ Exit(u) \/ SetReplyTo(u) \/ Authorize(u) \/ Mute(u)
               \/ CloseTarget(u) \/ Op(u)
      <3>1. \/ Fail(u)
            \/ /\ UNCHANGED <<broadcast, ready>>
               /\ \E s \in S : \E v : Finish(u) \/ Goto(u, s) \/ Found(u, s, v)
        BY <2>2
           DEF Exit, SetReplyTo, Authorize, Mute, CloseTarget, Op, queueVars
      <3>2. Silences(<<>>)
        BY AnswerKinds
      <3>. QED  BY <3>1, <3>2
    <2>3. CASE Kick(u)
      <3>1. /\ UNCHANGED <<broadcast, ready>>
            /\ \E out, v : Silences(out) /\ PostThen(u, out, v, "close")
        BY <2>3, AnswerKinds DEF Kick, queueVars
      <3>. QED  BY <3>1
    <2>. QED  BY <2>1, <2>2, <2>3 DEF Bad, NoTarget
  <1>3. S \subseteq CommandSteps \ ({"run"} \cup RenameSteps)
    BY DEF CommandSteps, RenameSteps
  <1>4. CASE Fail(u)
    <2>1. Finish(u) /\ "act" \in CommandSteps \ ({"run"} \cup RenameSteps)
      BY <1>3, <1>4, FailPosts
    <2>2. Acted(u) /\ job'[u].out \in {job[u].out, <<>>, <<>>}
      BY <1>1, <2>1, Moves
    <2>. QED
      BY <1>1, <1>4, <2>2, FailPosts, AnswerKinds, ActedSilent DEF Answers
  <1>5. ASSUME UNCHANGED <<broadcast, ready>>, NEW s \in S, NEW v, NEW out,
               Silences(out),
               \/ Finish(u) \/ Goto(u, s) \/ Found(u, s, v)
               \/ Post(u, out) \/ PostThen(u, out, v, s)
        PROVE  SilInv'
    <2>0. s \in CommandSteps \ ({"run"} \cup RenameSteps)
      BY <1>3
    <2>. HIDE DEF S
    <2>1. /\ Acted(u)
          /\ \/ job'[u].out \in {job[u].out, <<>>}
             \/ job'[u].out = out /\ job'[u].step = "out"
      <3>1. job[u].step \in CommandSteps
        BY <1>1
      <3>. QED  BY <1>5, <2>0, <3>1, Moves
    <2>. QED
      BY <1>1, <1>5, <2>1, AnswerKinds, ActedSilent DEF Answers
  <1>. QED  BY <1>2, <1>4, <1>5

LEMMA SaysSilent ==
    ASSUME Inv, RegInv, SilInv, Observed, NEW u \in Users, UNCHANGED hostVars,
           Emote(u) \/ ((PrivateTo(u) \/ ReplyBack(u)) /\ ~Fail(u))
    PROVE  SilInv'
  <1>1. /\ UNCHANGED <<id, history, feed, inbox, phase, typed, ignored, ready,
                      broadcast>>
        /\ job[u].step = "run" /\ job[u].line.cmd \in {"emote", "msg", "reply"}
        /\ u \in Threads
    BY UserThreads
       DEF Emote, PrivateTo, ReplyBack, Runs, At, hostVars, userVars,
           pipeVars, settingVars, queueVars
  <1>2. Unsaid(u) /\ 1 <= job[u].msg.line /\ LineNo(u) \in Nat
    <2>1. LineOK(u) /\ job[u].msg.kind = "command"
      BY <1>1 DEF SilInv, LinesOK, LineOK, CommandSteps
    <2>2. Unsaid(u)
      BY <1>1, <2>1 DEF Unsaid
    <2>. QED  BY <1>1, <2>1, <2>2, JobFacts DEF LineOK
  <1>3. PICK n \in Nat : n = LineNo(u)
    BY <1>2
  <1>4. \E m \in Msg : \E out, v :
            /\ Spoken(m) /\ m.by = u /\ m.line = n
            /\ Post(u, out) \/ PostThen(u, out, v, "replyTo")
            /\ \A i \in DOMAIN out : HasFrom(out[i]) => i = 1 /\ out[i] = m
    <2>1. CASE Emote(u)
      <3>. DEFINE m == EmoteMsg(u, n)
      <3>1. m \in Msg /\ Spoken(m) /\ m.by = u /\ m.line = n
        BY MessageTypes DEF EmoteMsg, Make, Spoken
      <3>2. Post(u, <<m>>)
        BY <1>3, <2>1 DEF Emote
      <3>. HIDE DEF m
      <3>3. \A i \in DOMAIN <<m>> : i = 1 /\ <<m>>[i] = m
        OBVIOUS
      <3>. QED  BY <3>1, <3>2, <3>3
    <2>2. ASSUME NEW v \in Users, SendPM(u, v)
          PROVE  \E m \in Msg : \E out :
                     /\ Spoken(m) /\ m.by = u /\ m.line = n
                     /\ PostThen(u, out, v, "replyTo")
                     /\ \A i \in DOMAIN out :
                            HasFrom(out[i]) => i = 1 /\ out[i] = m
      <3>. DEFINE m == PrivateMsg(u, v, n)
                  r == SystemMsg(u, u, n, 0)
      <3>1. m \in Msg /\ Spoken(m) /\ m.by = u /\ m.line = n /\ ~HasFrom(r)
        BY MessageTypes, AnswerKinds DEF PrivateMsg, Make, Spoken
      <3>2. PostThen(u, <<m, r>>, v, "replyTo")
        BY <1>3, <2>2 DEF SendPM, Reply
      <3>. HIDE DEF m, r
      <3>3. \A i \in DOMAIN <<m, r>> :
                HasFrom(<<m, r>>[i]) => i = 1 /\ <<m, r>>[i] = m
        BY <3>1
      <3>. QED  BY <3>1, <3>2, <3>3
    <2>3. CASE PrivateTo(u) /\ ~Fail(u)
      <3>1. Get(Arg(u)) \in Users /\ SendPM(u, Get(Arg(u)))
        BY <1>1, <2>3, GetType, JobFacts DEF PrivateTo
      <3>. QED  BY <2>2, <3>1
    <2>4. CASE ReplyBack(u) /\ ~Fail(u)
      <3>1. replyTo[u] \in Users /\ SendPM(u, replyTo[u])
        BY <2>4, Parts DEF ReplyBack, UsersTypeOK
      <3>. QED  BY <2>2, <3>1
    <2>. QED  BY <2>1, <2>3, <2>4
  <1>5a. PICK m \in Msg : \E out, v :
            /\ Spoken(m) /\ m.by = u /\ m.line = n
            /\ Post(u, out) \/ PostThen(u, out, v, "replyTo")
            /\ \A i \in DOMAIN out : HasFrom(out[i]) => i = 1 /\ out[i] = m
    BY <1>4
  <1>5. PICK out, v :
            /\ Spoken(m) /\ m.by = u /\ m.line = n
            /\ Post(u, out) \/ PostThen(u, out, v, "replyTo")
            /\ \A i \in DOMAIN out : HasFrom(out[i]) => i = 1 /\ out[i] = m
    BY <1>5a
  <1>6. Acted(u) /\ job'[u].out = out /\ job'[u].step = "out"
    <2>1. job[u].step \in CommandSteps
      BY <1>1 DEF CommandSteps
    <2>2. PICK s \in CommandSteps \ ({"run"} \cup RenameSteps) : s = "replyTo"
      BY DEF CommandSteps, RenameSteps
    <2>3. Post(u, out) \/ PostThen(u, out, v, s)
      BY <1>5, <2>2
    <2>4. \/ Finish(u) \/ Goto(u, s) \/ Found(u, s, v)
          \/ Post(u, out) \/ PostThen(u, out, v, s)
      BY <2>3
    <2>5. /\ Acted(u)
          /\ Post(u, out) \/ PostThen(u, out, v, s) =>
                 job'[u].out = out /\ job'[u].step = "out"
      BY <2>1, <2>4, Moves
    <2>. QED  BY <2>3, <2>5
  <1>7. Aside /\ LinesOK'
    BY <1>1, <1>6, ActedAside, ActedLines
  <1>8. Once' /\ CommandsStay' /\ Unaddressed'
    BY <1>1, <1>2, <1>3, <1>5, <1>6, <1>7, Says DEF Acted, LineNo
  <1>. QED  BY <1>7, <1>8, AsideSilent DEF SilInv

LEMMA NickSilent ==
    ASSUME Inv, RegInv, SilInv, Observed, NEW u \in Users, UNCHANGED hostVars,
           Nick(u)
    PROVE  SilInv'
  <1>1. /\ UNCHANGED <<id, history, feed, inbox, phase, typed, ignored,
                      broadcast>>
        /\ job[u].step = "run" /\ job[u].line.cmd = "nick"
        /\ u \in Threads /\ UserOK(u) /\ LineOK(u)
        /\ job \in [Threads -> Job] /\ job[u] \in Job
    BY Parts, JobFacts, UserThreads
       DEF Nick, Runs, At, hostVars, userVars, pipeVars, settingVars,
           queueVars, Fail, Spawn, RegInv, SilInv, LinesOK
  <1>2. CASE Fail(u)
    <2>1. Finish(u) /\ job[u].step \in CommandSteps
          /\ "act" \in CommandSteps \ ({"run"} \cup RenameSteps)
      BY <1>1, <1>2, FailPosts DEF CommandSteps, RenameSteps
    <2>2. Acted(u) /\ job'[u].out = <<>>
      <3>1. Acted(u)
        BY <2>1, Moves
      <3>. QED  BY <1>1, <2>1, <3>1, IdleFields DEF Finish
    <2>. QED
      BY <1>1, <1>2, <2>2, FailPosts, AnswerKinds, ActedSilent DEF Answers
  <1>3. CASE StartRename(u, Get(id[u])) /\ UNCHANGED queueVars
    <2>1. InRoom(u) /\ ~Renaming(u)
      BY <1>1 DEF UserOK, InRoom, Renaming, Phases
    <2>2. Get(id[u]) = u /\ id[u] # NoName
      BY <1>1, <2>1, OwnEntry DEF LineOK
    <2>3. /\ job'[u] = [job[u] EXCEPT !.step = "setid", !.who = u,
                                      !.old = id[u]]
          /\ \A x \in Threads \ {u} : job'[x] = job[x]
      BY <1>1, <1>3, <2>2 DEF StartRename
    <2>4. /\ job'[u].line = job[u].line /\ job'[u].msg = job[u].msg
          /\ job'[u].out = job[u].out /\ job'[u].step = "setid"
          /\ job'[u].old = id[u]
      BY <1>1, <2>3 DEF Job
    <2>5. Acted(u) /\ Answers(u)
      BY <1>1, <2>2, <2>3, <2>4
         DEF Acted, Answers, CommandSteps, LineOK
    <2>. QED  BY <1>1, <1>3, <2>5, ActedSilent DEF queueVars
  <1>. QED  BY <1>2, <1>3 DEF Nick

LEMMA RenameSilent ==
    ASSUME Inv, RegInv, SilInv, Observed, NEW u \in Users, UNCHANGED hostVars,
           SetID(u) \/ Rename(u) \/ ReplaceMember(u) \/ Revert(u)
    PROVE  SilInv'
  <1>1. /\ UNCHANGED <<history, feed, inbox, phase, typed, ignored, broadcast>>
        /\ job[u].step \in {"setid", "commit", "replace", "revert"}
        /\ u \in Threads /\ UserOK(u) /\ LineOK(u)
        /\ job \in [Threads -> Job] /\ job[u] \in Job
        /\ id \in [Users -> Names]
    BY Parts, JobFacts, UserThreads
       DEF SetID, Rename, ReplaceMember, Revert, At, hostVars, userVars,
           pipeVars, settingVars, queueVars, Fail, Spawn, RegInv, SilInv,
           LinesOK, UsersTypeOK
  <1>2. job[u].who = u /\ job[u].old # NoName /\ job[u].line.new # NoName
    BY <1>1 DEF UserOK, LineOK, RenameSteps
  <1>3. \A v \in Users : id'[v] = id[v] \/ id'[v] # NoName
    BY <1>1, <1>2 DEF SetID, Rename, ReplaceMember, Revert, New, userVars
  <1>4. \A m \in ready' : HasFrom(m) => m \in ready
    BY FailPosts DEF SetID, Rename, ReplaceMember, Revert, queueVars
  <1>5. Acted(u) /\ Answers(u)
    <2>1. CASE \E s \in {"commit", "revert"} : Goto(u, s)
      <3>1. PICK s \in {"commit", "revert"} : Goto(u, s)
        BY <2>1
      <3>2. job'[u] = [job[u] EXCEPT !.step = s]
            /\ \A x \in Threads \ {u} : job'[x] = job[x]
        BY <1>1, <3>1 DEF Goto
      <3>3. /\ job'[u].step = s /\ job'[u].msg = job[u].msg
            /\ job'[u].line = job[u].line /\ job'[u].out = job[u].out
            /\ job'[u].old = job[u].old
        BY <1>1, <3>2 DEF Job
      <3>. QED
        BY <1>1, <1>2, <3>2, <3>3 DEF Acted, Answers, CommandSteps
    <2>2. CASE Finish(u) \/ Post(u, Renames(u))
      <3>1. job[u].step \in CommandSteps
            /\ "act" \in CommandSteps \ ({"run"} \cup RenameSteps)
        BY <1>1 DEF CommandSteps, RenameSteps
      <3>2. PICK out : out = Renames(u)
        OBVIOUS
      <3>3. Silences(out) /\ Silences(<<>>)
        BY <3>2, AnswerKinds DEF Renames
      <3>4. Finish(u) \/ Post(u, out)
        BY <2>2, <3>2
      <3>5. /\ Acted(u)
            /\ \/ job'[u].out \in {job[u].out, <<>>}
               \/ job'[u].out = out /\ job'[u].step = "out"
        BY <3>1, <3>4, Moves
      <3>. QED  BY <3>3, <3>5 DEF Answers
    <2>3. CASE Rename(u) /\ ~Goto(u, "revert")
      <3>1. job'[u] = [job[u] EXCEPT !.step = "replace", !.now = id[u]]
            /\ \A x \in Threads \ {u} : job'[x] = job[x]
        BY <1>1, <1>2, <2>3 DEF Rename
      <3>2. /\ job'[u].step = "replace" /\ job'[u].msg = job[u].msg
            /\ job'[u].line = job[u].line /\ job'[u].out = job[u].out
            /\ job'[u].old = job[u].old
        BY <1>1, <3>1 DEF Job
      <3>. QED
        BY <1>1, <1>2, <3>1, <3>2 DEF Acted, Answers, CommandSteps
    <2>. QED  BY <2>1, <2>2, <2>3 DEF SetID, ReplaceMember, Revert, Fail
  <1>. QED  BY <1>1, <1>3, <1>4, <1>5, ActedSilent

LEMMA SendOutSilent ==
    ASSUME Inv, RegInv, SilInv, Observed, NEW u \in Users, UNCHANGED hostVars,
           SendOut(u)
    PROVE  SilInv'
  <1>. DEFINE o == job[u].out
  <1>1. /\ UNCHANGED <<id, history, feed, inbox, phase, typed, ignored, ready>>
        /\ job[u].step = "out" /\ u \in Threads /\ UserOK(u) /\ LineOK(u)
        /\ job \in [Threads -> Job] /\ job[u] \in Job /\ JobOK(job[u])
        /\ broadcast \in Seq(Msg) /\ broadcast' = Append(broadcast, Head(o))
    BY Parts, JobFacts, UserThreads
       DEF SendOut, RoomSend, At, userVars, pipeVars, settingVars, hostVars,
           RegInv, SilInv, LinesOK, QueuesOK
  <1>2. /\ o \in Seq(Msg) /\ o # <<>> /\ 1 \in DOMAIN o
        /\ Head(o) = o[1] /\ Head(o) \in Msg
    <2>1. o \in Seq(Msg) /\ o # <<>>
      BY <1>1 DEF Job, JobOK
    <2>. QED  BY <2>1
  <1>3. \A i \in DOMAIN o : HasFrom(o[i]) => i = 1 /\ Spoken(o[i])
    <2>. SUFFICES ASSUME NEW i \in DOMAIN o, HasFrom(o[i])
                  PROVE  i = 1 /\ Spoken(o[i])
      OBVIOUS
    <2>1. o[i] \in Msg
      BY <1>2
    <2>2. PICK m \in Msg : m = o[i]
      BY <2>1
    <2>3. Pending(m)
      BY <1>1, <2>2 DEF Pending, Has
    <2>4. Spoken(m)
      BY <2>2, <2>3 DEF SilInv, CommandsStay, HasFrom, Spoken
    <2>. QED  BY <1>1, <2>2, <2>4 DEF SilInv, Once, PostedOnce
  <1>4. Acted(u) /\ Silences(job'[u].out)
    <2>1. CASE Len(o) > 1 /\ job' = [job EXCEPT ![u].out = Tail(o)]
      <3>1. /\ job'[u] = [job[u] EXCEPT !.out = Tail(o)]
            /\ \A x \in Threads \ {u} : job'[x] = job[x]
        BY <1>1, <2>1
      <3>2. /\ job'[u].step = "out" /\ job'[u].msg = job[u].msg
            /\ job'[u].line = job[u].line /\ job'[u].out = Tail(o)
        BY <1>1, <3>1 DEF Job
      <3>3. Silences(Tail(o))
        <4>. SUFFICES ASSUME NEW i \in DOMAIN Tail(o)
                      PROVE  ~HasFrom(Tail(o)[i])
          BY DEF Silences
        <4>1. i + 1 \in DOMAIN o /\ Tail(o)[i] = o[i + 1] /\ i + 1 # 1
          BY <1>2, TailHas
        <4>. QED  BY <1>3, <4>1
      <3>. QED
        BY <1>1, <3>1, <3>2, <3>3 DEF Acted, CommandSteps, RenameSteps
    <2>2. CASE Finish(u)
      <3>1. job'[u] = Idle /\ \A x \in Threads \ {u} : job'[x] = job[x]
        BY <1>1, <2>2 DEF Finish
      <3>. QED
        BY <1>1, <3>1, AnswerKinds, IdleFields
           DEF Acted, CommandSteps, RenameSteps
    <2>3. CASE /\ job[u].then # "idle"
               /\ job' = [job EXCEPT ![u] = [@ EXCEPT !.step = job[u].then,
                                             !.out = <<>>, !.then = "idle"]]
      <3>1. job[u].then \in {"replyTo", "close"}
        BY <1>1, <2>3 DEF JobOK, UserOK
      <3>2. /\ job'[u] = [job[u] EXCEPT !.step = job[u].then,
                                        !.out = <<>>, !.then = "idle"]
            /\ \A x \in Threads \ {u} : job'[x] = job[x]
        BY <1>1, <2>3
      <3>3. /\ job'[u].step = job[u].then /\ job'[u].msg = job[u].msg
            /\ job'[u].line = job[u].line /\ job'[u].out = <<>>
        BY <1>1, <3>2 DEF Job
      <3>. QED
        BY <1>1, <3>1, <3>2, <3>3, AnswerKinds
           DEF Acted, CommandSteps, RenameSteps
    <2>. QED  BY <1>1, <2>1, <2>2, <2>3 DEF SendOut
  <1>5. Aside /\ LinesOK'
    BY <1>1, <1>4, ActedAside, ActedLines
  <1>6. PICK m \in Msg : m = Head(o)
    BY <1>2
  <1>. HIDE DEF o
  <1>7. \A i \in DOMAIN broadcast' :
            \/ i \in DOMAIN broadcast /\ broadcast'[i] = broadcast[i]
            \/ i = Len(broadcast) + 1 /\ broadcast'[i] = m
    BY <1>1, <1>6
  <1>8. CASE ~HasFrom(m)
    <2>1. NothingPosted
      BY <1>1, <1>4, <1>7, <1>8 DEF NothingPosted, Acted, Silences
    <2>. QED  BY <1>1, <1>5, <2>1, AsideOnce, AsideSilent DEF SilInv
  <1>9. CASE HasFrom(m)
    <2>1. /\ Spoken(m) /\ Pending(m) /\ job[u].out[1] = m
          /\ 1 \in DOMAIN job[u].out
      BY <1>1, <1>2, <1>3, <1>6, <1>9 DEF Pending, Has, o
    <2>2. /\ PostedOnce(m) /\ m.by = u /\ m \notin ready
          /\ ~Has(broadcast, m)
      BY <1>1, <2>1 DEF SilInv, Once, PostedOnce
    <2>3. \A t \in Threads : \A i \in DOMAIN job'[t].out :
              job'[t].out[i] # m
      BY <1>4, <1>9, <2>2 DEF Acted, Silences, PostedOnce
    <2>4. \A i, j \in DOMAIN broadcast' :
              broadcast'[i] = m /\ broadcast'[j] = m => i = j
      BY <1>7, <2>2 DEF Has
    <2>5. PostedOnce(m)'
      BY <1>1, <1>5, <2>1, <2>2, <2>3, <2>4, AsideWaits DEF PostedOnce, Has
    <2>6. ASSUME NEW x \in Msg, HasFrom(x), x # m
          PROVE  /\ x \in ready' => x \in ready
                 /\ Has(broadcast', x) => Has(broadcast, x)
                 /\ \A i, j \in DOMAIN broadcast' :
                        broadcast'[i] = x /\ broadcast'[j] = x => i = j
                 /\ \A t \in Threads : \A i \in DOMAIN job'[t].out :
                        job'[t].out[i] = x =>
                            i \in DOMAIN job[t].out /\ job[t].out[i] = x
      <3>1. Has(broadcast', x) => Has(broadcast, x)
        BY <1>7, <2>6 DEF Has
      <3>2. ASSUME NEW i \in DOMAIN broadcast', NEW j \in DOMAIN broadcast',
                   broadcast'[i] = x, broadcast'[j] = x
            PROVE  i = j
        <4>1. /\ i \in DOMAIN broadcast /\ broadcast[i] = x
              /\ j \in DOMAIN broadcast /\ broadcast[j] = x
          BY <1>7, <2>6, <3>2
        <4>2. CASE x.kind = "command"
          BY <4>1, <4>2 DEF SilInv, CommandsStay, Pending, Has
        <4>3. CASE Spoken(x)
          BY <4>1, <4>3 DEF SilInv, Once, PostedOnce
        <4>. QED  BY <2>6, <4>2, <4>3 DEF HasFrom, Spoken
      <3>3. \A t \in Threads : \A i \in DOMAIN job'[t].out :
                job'[t].out[i] = x =>
                    i \in DOMAIN job[t].out /\ job[t].out[i] = x
        BY <1>4, <2>6 DEF Acted, Silences
      <3>. QED  BY <1>1, <3>1, <3>2, <3>3
    <2>7. Once' /\ CommandsStay' /\ Unaddressed'
      BY <1>1, <1>5, <2>1, <2>5, <2>6, AsideOthers
    <2>. QED  BY <1>5, <2>7, AsideSilent DEF SilInv
  <1>. QED  BY <1>8, <1>9

LEMMA RunCommandSilent ==
    ASSUME Inv, RegInv, SilInv, Observed, NEW u \in Users, RunCommand(u),
           UNCHANGED hostVars
    PROVE  SilInv'
  <1>1. ~OpRename(u) /\ ~OpRenameTarget(u)
    BY DEF RegInv, UserOK, OpRename, OpRenameTarget, Acts, At
  <1>. QED
    BY <1>1, OtherCommandSilent, SaysSilent, NickSilent, RenameSilent,
       SendOutSilent DEF RunCommand

-----------------------------------------------------------------------------
(* Connect: a phase only gives way to a later one.                         *)
LEMMA PhaseLines ==
    ASSUME SilInv, NEW u \in Users, UNCHANGED <<job, typed, ignored>>,
           \A v \in Users \ {u} : phase'[v] = phase[v] /\ id'[v] = id[v],
           phase'[u] \in Early => phase[u] \in Early,
           phase'[u] \in {"history", "feed"} =>
               phase[u] \in Early \cup {"history", "feed"},
           InRoom(u)' => InRoom(u) \/ id'[u] # NoName,
           id'[u] = id[u] \/ phase[u] \in Early
    PROVE  LinesOK'
  <1>. SUFFICES ASSUME NEW v \in Users PROVE LineOK(v)'
    BY DEF LinesOK
  <1>1. LineOK(v)
    BY DEF SilInv, LinesOK
  <1>2. CASE v # u
    BY <1>1, <1>2 DEF LineOK, Unsaid, InRoom
  <1>3. CASE v = u
    <2>1. typed[u] # 0 => phase'[u] \notin Early /\ id'[u] # NoName
      BY <1>1, <1>3 DEF LineOK
    <2>2. InRoom(u)' => id'[u] # NoName
      BY <1>1, <1>3 DEF LineOK, InRoom, Early
    <2>3. ignored[u] # {} => phase'[u] \notin Early \cup {"history", "feed"}
      BY <1>1, <1>3 DEF LineOK
    <2>. QED  BY <1>1, <1>3, <2>1, <2>2, <2>3 DEF LineOK, Unsaid
  <1>. QED  BY <1>2, <1>3

LEMMA StillSilent ==
    ASSUME SilInv, Observed, UNCHANGED <<job, history, typed, ready>>, LinesOK',
           \A u \in Users : \A m :
               Has(feed'[u], m) => Has(feed[u], m) \/ Has(history, m),
           \A u \in Users : \A m : HasFrom(m) /\ Has(inbox'[u], m) =>
               Has(inbox[u], m) \/ (Has(feed[u], m) /\ ignored[u] = {}),
           \A i \in DOMAIN broadcast' : HasFrom(broadcast'[i]) =>
               i \in DOMAIN broadcast /\ broadcast'[i] = broadcast[i]
    PROVE  SilInv'
  <1>1. Aside
    BY DEF Aside
  <1>2. NothingPosted
    BY DEF NothingPosted
  <1>. QED  BY <1>1, <1>2, AsideOnce, AsideSilent DEF SilInv

LEMMA MoveSilent ==
    ASSUME Inv, SilInv, Observed, NEW u \in Users,
           \/ Arrive(u) \/ Join(u) \/ CheckOp(u) \/ GrantOp(u) \/ EndOfInput(u)
           \/ Leave(u) \/ Disconnect(u) \/ (RunEnv(u) /\ UNCHANGED <<job, typed>>)
    PROVE  SilInv'
  <1>1. /\ UNCHANGED <<job, history, typed, ready, feed, inbox, broadcast,
                      ignored>>
        /\ phase \in [Users -> Phases] /\ id \in [Users -> Names]
    BY Parts
       DEF Arrive, Join, CheckOp, GrantOp, EndOfInput, Leave, Disconnect,
           RunEnv, Close, userVars, pipeVars, settingVars, roomVars,
           queueVars, HostOK, UsersTypeOK
  <1>2. CASE Join(u)
    <2>1. /\ \A v \in Users \ {u} : phase'[v] = phase[v] /\ id'[v] = id[v]
          /\ phase[u] \in Early
          /\ phase'[u] = "history" => id'[u] # NoName
          /\ phase'[u] \in {"history", "rejoin", "bye"}
      BY <1>1, <1>2 DEF Join, JoinFails, In, Enter, Early
    <2>2. LinesOK'
      BY <1>1, <2>1, PhaseLines DEF Early, InRoom
    <2>. QED  BY <1>1, <2>2, StillSilent
  <1>3. CASE ~Join(u)
    <2>1. /\ UNCHANGED id
          /\ \A v \in Users \ {u} : phase'[v] = phase[v]
          /\ phase'[u] \in Early => phase[u] \in Early
          /\ phase'[u] \notin {"history", "feed"}
          /\ InRoom(u)' => InRoom(u)
      BY <1>1, <1>3
         DEF Arrive, CheckOp, GrantOp, EndOfInput, Leave, Disconnect,
             RunEnv, In, Enter, userVars, Early, InRoom, Phases
    <2>2. LinesOK'
      BY <1>1, <2>1, PhaseLines
    <2>. QED  BY <1>1, <2>2, StillSilent
  <1>. QED  BY <1>2, <1>3

LEMMA AnnounceSilent ==
    ASSUME Inv, SilInv, Observed, NEW u \in Users,
           AnnounceJoin(u) \/ AnnounceLeave(u)
    PROVE  SilInv'
  <1>1. /\ UNCHANGED <<id, job, history, typed, ready, feed, inbox, ignored>>
        /\ phase \in [Users -> Phases] /\ broadcast \in Seq(Msg)
        /\ phase[u] \in {"announce", "left"}
        /\ phase' = [phase EXCEPT ![u] = IF phase[u] = "left" THEN "bye"
                                                              ELSE "env"]
    BY Parts
       DEF AnnounceJoin, AnnounceLeave, RoomSend, In, Enter, userVars,
           pipeVars, settingVars, HostOK, QueuesOK
  <1>2. PICK m \in Msg : ~HasFrom(m) /\ broadcast' = Append(broadcast, m)
    BY MessageTypes, AnswerKinds DEF AnnounceJoin, AnnounceLeave, RoomSend
  <1>3. \A i \in DOMAIN broadcast' : HasFrom(broadcast'[i]) =>
            i \in DOMAIN broadcast /\ broadcast'[i] = broadcast[i]
    BY <1>1, <1>2, AppendHas
  <1>4. LinesOK'
    BY <1>1, PhaseLines DEF Early, InRoom, Phases
  <1>. QED  BY <1>1, <1>3, <1>4, StillSilent

LEMMA FeedSilent ==
    ASSUME Inv, SilInv, Observed, NEW u \in Users,
           SendMotd(u) \/ GetHistory(u) \/ Feed(u)
    PROVE  SilInv'
  <1>1. /\ UNCHANGED <<id, job, history, typed, ready, broadcast, ignored>>
        /\ phase \in [Users -> Phases] /\ feed \in [Users -> Seq(Msg)]
        /\ history \in Seq(Msg) /\ LineOK(u)
    BY Parts
       DEF SendMotd, GetHistory, Feed, userVars, roomVars, settingVars,
           queueVars, HostOK, HistoryOK, SilInv, LinesOK
  <1>2. LinesOK'
    <2>1. /\ \A v \in Users \ {u} : phase'[v] = phase[v]
          /\ phase'[u] \in Early => phase[u] \in Early
          /\ phase'[u] \in {"history", "feed"} =>
                 phase[u] \in Early \cup {"history", "feed"}
          /\ InRoom(u)' => InRoom(u)
      BY <1>1
         DEF SendMotd, GetHistory, Feed, In, Enter, Early, InRoom, Phases
    <2>. QED  BY <1>1, <2>1, PhaseLines
  <1>3. CASE SendMotd(u)
    <2>1. PICK m \in Msg : ~HasFrom(m) /\ SendTo(u, m)
      BY <1>3, MessageTypes, AnswerKinds DEF SendMotd
    <2>2. \A v \in Users : \A x : HasFrom(x) /\ Has(inbox'[v], x) =>
              Has(inbox[v], x)
      BY <2>1, SendHas
    <2>. QED  BY <1>1, <1>2, <1>3, <2>2, StillSilent DEF SendMotd
  <1>4. CASE GetHistory(u)
    <2>1. UNCHANGED inbox /\ feed' = [feed EXCEPT ![u] = history]
      BY <1>4 DEF GetHistory, userVars, pipeVars
    <2>2. \A v \in Users : \A m :
              Has(feed'[v], m) => Has(feed[v], m) \/ Has(history, m)
      BY <1>1, <2>1
    <2>. QED  BY <1>1, <1>2, <2>1, <2>2, StillSilent
  <1>5. CASE Feed(u) /\ feed[u] = <<>>
    <2>1. UNCHANGED <<inbox, feed>>
      BY <1>5 DEF Feed, pipeVars
    <2>. QED  BY <1>1, <1>2, <2>1, StillSilent
  <1>6. CASE Feed(u) /\ feed[u] # <<>>
    <2>1. /\ feed[u] \in Seq(Msg) /\ 1 \in DOMAIN feed[u]
          /\ Head(feed[u]) = feed[u][1] /\ Head(feed[u]) \in Msg
      BY <1>1, <1>6
    <2>2. PICK h \in Msg : h = Head(feed[u])
      BY <2>1
    <2>3. /\ SendTo(u, h) /\ Has(feed[u], h) /\ ignored[u] = {}
          /\ feed' = [feed EXCEPT ![u] = Tail(@)]
      BY <1>1, <1>6, <2>1, <2>2 DEF Feed, In, LineOK, Has
    <2>4. \A v \in Users : \A m : HasFrom(m) /\ Has(inbox'[v], m) =>
              Has(inbox[v], m) \/ (Has(feed[v], m) /\ ignored[v] = {})
      BY <2>2, <2>3, SendHas
    <2>5. ASSUME NEW v \in Users, NEW m, Has(feed'[v], m)
          PROVE  Has(feed[v], m)
      <3>1. CASE v # u
        BY <1>1, <2>3, <2>5, <3>1
      <3>2. CASE v = u
        <4>1. feed'[u] = Tail(feed[u])
          BY <1>1, <2>3
        <4>. QED  BY <1>6, <2>1, <2>5, <3>2, <4>1, TailHas DEF Has
      <3>. QED  BY <3>1, <3>2
    <2>. QED  BY <1>1, <1>2, <2>4, <2>5, StillSilent
  <1>. QED  BY <1>3, <1>4, <1>5, <1>6

LEMMA RejectedSilent ==
    ASSUME Inv, SilInv, Observed, NEW u \in Users, NEW l \in Lines[u],
           ReadLine(u, l), l.cmd = "reject"
    PROVE  SilInv'
  <1>. DEFINE n == typed[u] + 1
              j == [Idle EXCEPT !.step = "send",
                        !.msg = SystemMsg(u, u, n, 0), !.who = u]
  <1>1. /\ UNCHANGED <<id, history, ready, broadcast, feed, inbox, ignored,
                      phase>>
        /\ u \in Threads /\ job \in [Threads -> Job]
        /\ typed \in [Users -> Nat] /\ phase[u] = "reading"
        /\ job[u].step = "idle"
        /\ typed' = [typed EXCEPT ![u] = n] /\ job' = [job EXCEPT ![u] = j]
    BY Parts, UserThreads
       DEF ReadLine, In, At, pipeVars, settingVars, queueVars, HostOK
  <1>2. /\ j.step = "send" /\ ~HasFrom(j.msg) /\ j.line = NoLine
        /\ j.out = <<>>
    BY AnswerKinds DEF Idle
  <1>3. job'[u] = j /\ \A t \in Threads \ {u} : job'[t] = job[t]
    BY <1>1
  <1>. HIDE DEF j
  <1>4. Aside
    BY <1>1, <1>2, <1>3 DEF Aside, Off, Begun
  <1>5. NothingPosted
    BY <1>1, <1>2, <1>3 DEF NothingPosted
  <1>6. \A m \in Msg : m.line <= typed[m.by] => m.line <= typed'[m.by]
    BY <1>1, MessageFields
  <1>7. LinesOK'
    <2>. SUFFICES ASSUME NEW v \in Users PROVE LineOK(v)'
      BY DEF LinesOK
    <2>1. LineOK(v) /\ v \in Threads
      BY UserThreads DEF SilInv, LinesOK
    <2>2. CASE v # u
      BY <1>1, <1>3, <2>1, <2>2 DEF LineOK, Unsaid, InRoom
    <2>3. CASE v = u
      <3>1. id[u] # NoName
        BY <1>1, <2>1, <2>3 DEF LineOK, InRoom, Phases
      <3>. QED
        BY <1>1, <1>2, <1>3, <2>3, <3>1
           DEF LineOK, Unsaid, Early, CommandSteps, RenameSteps, NoLine
    <2>. QED  BY <2>2, <2>3
  <1>8. Once' /\ CommandsStay' /\ Unaddressed'
    BY <1>4, <1>5, <1>6, AsideOnce
  <1>. QED  BY <1>4, <1>7, <1>8, AsideSilent DEF SilInv

LEMMA StutterLines ==
    ASSUME SilInv, UNCHANGED <<id, job, typed, ignored, phase>>
    PROVE  LinesOK'
  BY DEF SilInv, LinesOK, LineOK, Unsaid, InRoom

LEMMA ScreenSilent ==
    ASSUME Inv, SilInv, Observed, NEW u \in Users, Screen(u)
    PROVE  SilInv'
  <1>1. /\ UNCHANGED <<id, job, history, typed, ready, broadcast, ignored,
                      phase, feed>>
        /\ inbox \in [Users -> Seq(Msg)]
        /\ \/ UNCHANGED inbox
           \/ inbox[u] # <<>> /\ inbox' = [inbox EXCEPT ![u] = Tail(@)]
    BY Parts
       DEF Screen, Consume, ConsumeStops, WriteFails, Receive, settingVars,
           roomVars, queueVars, hostVars, UsersTypeOK
  <1>2. ASSUME NEW v \in Users, NEW m, Has(inbox'[v], m)
        PROVE  Has(inbox[v], m)
    <2>1. CASE UNCHANGED inbox \/ v # u
      BY <1>1, <1>2, <2>1
    <2>2. CASE /\ v = u /\ inbox[u] # <<>>
               /\ inbox' = [inbox EXCEPT ![u] = Tail(@)]
      <3>1. inbox'[u] = Tail(inbox[u]) /\ inbox[u] \in Seq(Msg)
        BY <1>1, <2>2
      <3>. QED  BY <1>2, <2>2, <3>1, TailHas DEF Has
    <2>. QED  BY <1>1, <2>1, <2>2
  <1>. QED  BY <1>1, <1>2, StutterLines, StillSilent

-----------------------------------------------------------------------------
LEMMA InitSilent == ASSUME SilenceInit PROVE SilInv
  <1>1. /\ Init /\ hushed = {} /\ shunned = {}
        /\ broadcast = <<>> /\ ready = {}
        /\ \A u \in Users : feed[u] = <<>> /\ inbox[u] = <<>>
        /\ \A u \in Users : typed[u] = 0 /\ ignored[u] = {}
        /\ \A t \in Threads : job[t] = Idle
        /\ \A u \in Users : phase[u] = IF u \in Connected THEN "reading"
                                                          ELSE "offline"
        /\ id = Dial
    BY DEF SilenceInit, Init, UsersInit
  <1>2. ASSUME NEW m, HasFrom(m) PROVE ~Known(m)
    <2>1. ~Has(history, m)
      BY <1>1, <1>2, HistoryJoins DEF Has, HasFrom
    <2>2. ~Pending(m)
      BY <1>1 DEF Pending, Has, Idle
    <2>3. \A t \in Threads : ~Handling(t, m)
      BY <1>1 DEF Handling, Idle
    <2>. QED  BY <1>1, <2>1, <2>2, <2>3 DEF Known, Taken, Kept, Has
  <1>3. Once
    <2>. SUFFICES ASSUME NEW m \in Msg, Spoken(m) PROVE PostedOnce(m)
      BY DEF Once
    <2>1. ~Known(m)
      BY <1>2 DEF Spoken, HasFrom
    <2>2. \A t \in Threads : job[t].out = <<>> /\ ~Handling(t, m)
      BY <1>1 DEF Handling, Idle
    <2>. QED  BY <1>1, <2>1, <2>2 DEF PostedOnce, Known, Has
  <1>4. LinesOK
    <2>. SUFFICES ASSUME NEW u \in Users PROVE LineOK(u)
      BY DEF LinesOK
    <2>1. job[u] = Idle /\ typed[u] = 0 /\ ignored[u] = {}
      BY <1>1, UserThreads
    <2>2. InRoom(u) => id[u] # NoName
      BY <1>1, HostAssumption DEF InRoom
    <2>. QED
      BY <2>1, <2>2
         DEF LineOK, Unsaid, Idle, NoLine, CommandSteps, RenameSteps
  <1>5. CommandsStay
    BY <1>1, <1>2 DEF CommandsStay, Known, Taken, HasFrom, Idle
  <1>6. Unaddressed /\ Silent
    BY <1>1 DEF Unaddressed, Silent, Idle
  <1>. QED  BY <1>3, <1>4, <1>5, <1>6 DEF SilInv

LEMMA NextSilent ==
    ASSUME Inv, RegInv, PrivInv, SilInv, NobodyTakesNames, NobodyUnnamed,
           SilenceNext \/ UNCHANGED <<vars, silenceVars>>
    PROVE  SilInv'
  <1>1. CASE UNCHANGED <<vars, silenceVars>>
    <2>1. UNCHANGED <<id, job, history, typed, ready, broadcast, ignored,
                      phase, feed, inbox, muted, hushed, shunned>>
      BY <1>1
         DEF vars, silenceVars, userVars, pipeVars, settingVars, roomVars,
             memberVars, queueVars, hostVars
    <2>2. Observed
      BY <2>1 DEF Observed, SilInv, Silent, HushedOK, ShunnedOK, Key
    <2>. QED  BY <2>1, <2>2, StutterLines, StillSilent
  <1>2. CASE SilenceNext
    <2>0. Observed /\ Next
      BY <1>2, ObserversStep DEF SilenceNext
    <2>1. CASE Dispatch /\ UNCHANGED <<opKeys, hostVars>>
      BY <2>0, <2>1, ServeSilent, StartTaskSilent DEF Dispatch
    <2>2. CASE \E t \in Threads :
                   HandleMsg(t) /\ UNCHANGED <<opKeys, hostVars>>
      BY <2>0, <2>2, HandleMsgSilent
    <2>3. CASE \E u \in Users : RunCommand(u) /\ UNCHANGED hostVars
      BY <2>0, <2>3, RunCommandSilent
    <2>4. CASE \E u \in Users : Connect(u)
      <3>1. PICK u \in Users : Connect(u)
        BY <2>4
      <3>2. CASE RunEnv(u)
        BY <2>0, <3>2, EnvSilent, MoveSilent
      <3>3. CASE \E l \in Lines[u] : ReadLine(u, l)
        BY <2>0, <3>3, TypedSilent, RejectedSilent
      <3>. QED
        BY <2>0, <3>1, <3>2, <3>3, MoveSilent, FeedSilent, AnnounceSilent
           DEF Connect
    <2>5. CASE \E u \in Users : Screen(u)
      BY <2>0, <2>5, ScreenSilent
    <2>6. CASE Rest
      <3>1. UNCHANGED <<id, job, history, typed, ready, broadcast, ignored,
                        phase, feed, inbox>>
        BY <2>6
           DEF Rest, vars, userVars, pipeVars, settingVars, roomVars,
               queueVars, hostVars
      <3>. QED  BY <2>0, <3>1, StutterLines, StillSilent
    <2>. QED  BY <2>0, <2>1, <2>2, <2>3, <2>4, <2>5, <2>6 DEF Next
  <1>. QED  BY <1>1, <1>2

LEMMA SoundAlways ==
    ASSUME NobodyRenamed, NobodyTakesNames, NobodyUnnamed
    PROVE  SilenceSpec => []Sound
  <1>1. SilenceInit => Sound
    BY InitInv, InitReg, InitPrivate, InitSilent DEF SilenceInit, Sound
  <1>2. Sound /\ [SilenceNext]_<<vars, silenceVars>> => Sound'
    <2>. SUFFICES ASSUME Sound, [SilenceNext]_<<vars, silenceVars>>
                  PROVE  Sound'
      OBVIOUS
    <2>1. [Next]_vars
      BY DEF SilenceNext
    <2>2. Inv' /\ RegInv' /\ PrivInv'
      BY <2>1, NextInv, NextReg, NextPrivate DEF Sound
    <2>3. SilInv'
      BY NextSilent DEF Sound
    <2>. QED  BY <2>2, <2>3 DEF Sound
  <1>. QED  BY <1>1, <1>2, PTL DEF SilenceSpec

(* What HandleMsg takes up while its author is muted is neither recorded   *)
(* nor buffered for anybody else as long as the mute lasts, whoever mutes, *)
(* joins, leaves, ignores or changes names meanwhile, as long as users     *)
(* keep to names of their own, none of them empty: HandleMsg finds the     *)
(* author by name, and looks for nobody under the empty one (room.go).     *)
THEOREM MutedTheorem ==
    ASSUME NobodyRenamed, NobodyTakesNames, NobodyUnnamed
    PROVE  SilenceSpec => []MutedStaysSilent
  <1>1. Sound => MutedStaysSilent
    BY DEF Sound, SilInv, Silent, HushedOK, Has, MutedStaysSilent, Buffered
  <1>. QED  BY <1>1, SoundAlways, PTL

(* What HandleMsg takes up under a name a user ignores is not buffered for *)
(* that user as long as the name stays ignored, public, private or emote,  *)
(* under the same hypotheses.                                              *)
THEOREM IgnoredTheorem ==
    ASSUME NobodyRenamed, NobodyTakesNames, NobodyUnnamed
    PROVE  SilenceSpec => []IgnoredStaysHidden
  <1>1. Sound => IgnoredStaysHidden
    BY DEF Sound, SilInv, Silent, ShunnedOK, Has, IgnoredStaysHidden, Buffered
  <1>. QED  BY <1>1, SoundAlways, PTL

=============================================================================
