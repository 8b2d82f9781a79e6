----------------------------- MODULE HostProofs -----------------------------
(***************************************************************************)
(* Type correctness of Host and the lock discipline of Members.Each, for   *)
(* every value of the constants.                                           *)
(***************************************************************************)
EXTENDS Host, SequenceTheorems, TLAPS

Inv == TypeOK /\ JobsConsistent

-----------------------------------------------------------------------------
(* Messages: every constructor makes a message.                            *)
LEMMA MessageTypes ==
    ASSUME NEW u \in Users, NEW v \in Users, NEW n \in Nat, NEW p \in Nat
    PROVE  /\ PublicMsg(u, n) \in Msg
           /\ EmoteMsg(u, n) \in Msg
           /\ PrivateMsg(u, v, n) \in Msg
           /\ SystemMsg(u, v, n, p) \in Msg
           /\ AnnounceMsg(u, n, p) \in Msg
           /\ CommandMsg(u, n) \in Msg
  BY NamesAssumption
     DEF PublicMsg, EmoteMsg, PrivateMsg, SystemMsg, AnnounceMsg, CommandMsg,
         Make, Msg, Kinds, HasTo

LEMMA MessageFields ==
    ASSUME NEW m \in Msg
    PROVE  /\ m.by \in Users
           /\ m.line \in Nat
           /\ HasTo(m) => m.to \in Users
  BY DEF Msg

-----------------------------------------------------------------------------
(* Users: what happens to a channel keeps the state of the users typed.    *)
LEMMA UsersStutter ==
    ASSUME UsersTypeOK, UNCHANGED userVars
    PROVE  UsersTypeOK'
  BY DEF UsersTypeOK, userVars, pipeVars, settingVars

LEMMA SendToType ==
    ASSUME UsersTypeOK, NEW u \in Users, NEW m \in Msg, SendTo(u, m),
           UNCHANGED <<id, settingVars>>
    PROVE  UsersTypeOK'
  <1>1. CASE Enqueue(u, m)
    <2>1. inbox' \in [Users -> Seq(Msg)]
      BY <1>1 DEF UsersTypeOK, Enqueue
    <2>2. ASSUME NEW v \in Users
          PROVE  Len(inbox'[v]) <= MsgBuffer
      <3>1. CASE v = u
        BY <1>1, <3>1, MsgBufferAssumption DEF UsersTypeOK, Enqueue, Full
      <3>2. CASE v # u
        BY <1>1, <3>2 DEF UsersTypeOK, Enqueue
      <3>. QED  BY <3>1, <3>2
    <2>. QED
      BY <1>1, <2>1, <2>2 DEF UsersTypeOK, Enqueue, settingVars
  <1>2. CASE Refuse(u)
    BY <1>2, UsersStutter DEF Refuse, userVars
  <1>3. CASE TimeOut(u)
    BY <1>3 DEF TimeOut, Close, UsersTypeOK, settingVars
  <1>. QED  BY <1>1, <1>2, <1>3 DEF SendTo, SendNow

LEMMA CloseType ==
    ASSUME UsersTypeOK, NEW u \in Users, Close(u), UNCHANGED <<id, settingVars>>
    PROVE  UsersTypeOK'
  BY DEF Close, UsersTypeOK, settingVars

LEMMA ReceiveType ==
    ASSUME UsersTypeOK, NEW u \in Users, Receive(u),
           UNCHANGED <<id, settingVars>>, done' \subseteq Users
    PROVE  UsersTypeOK'
  <1>1. inbox' \in [Users -> Seq(Msg)]
    BY DEF Receive, UsersTypeOK
  <1>2. ASSUME NEW v \in Users
        PROVE  Len(inbox'[v]) <= MsgBuffer
    BY MsgBufferAssumption DEF Receive, UsersTypeOK
  <1>. QED  BY <1>1, <1>2 DEF Receive, UsersTypeOK, settingVars

-----------------------------------------------------------------------------
(* Jobs: a step that replaces the job of one goroutine has to show only    *)
(* that the new one is typed and has at hand what its step needs.          *)
LEMMA IdleOK == Idle \in Job /\ JobOK(Idle)
  BY NamesAssumption
     DEF Idle, Job, JobOK, NoMsg, NoLine, Line, Cmds, OpCmds, Steps,
         HandleSteps, CommandSteps, TargetSteps

LEMMA JobUpdate ==
    ASSUME Inv, NEW t \in Threads, NEW j \in Job, JobOK(j),
           UNCHANGED members, job' = [job EXCEPT ![t] = j]
    PROVE  job' \in [Threads -> Job] /\ JobsConsistent'
  <1>1. job \in [Threads -> Job]
    BY DEF Inv, TypeOK, RoomTypeOK
  <1>2. job' \in [Threads -> Job]
    BY <1>1
  <1>3. ASSUME NEW s \in Threads
        PROVE  JobOK(job[s])'
    <2>1. CASE s = t
      BY <1>1, <2>1 DEF JobOK
    <2>2. CASE s # t
      BY <1>1, <2>2 DEF JobOK, Inv, JobsConsistent
    <2>. QED  BY <2>1, <2>2
  <1>. QED  BY <1>2, <1>3 DEF JobsConsistent

(* Writing to the registry while no goroutine is inside Members.Each.      *)
LEMMA JobStutterWriteFree ==
    ASSUME Inv, WriteFree, UNCHANGED job
    PROVE  JobsConsistent'
  BY DEF Inv, JobsConsistent, JobOK, WriteFree

LEMMA JobStutter ==
    ASSUME Inv, UNCHANGED <<job, members>>
    PROVE  JobsConsistent'
  BY DEF Inv, JobsConsistent, JobOK

LEMMA FinishOK ==
    ASSUME Inv, NEW t \in Threads, Finish(t), UNCHANGED members
    PROVE  job' \in [Threads -> Job] /\ JobsConsistent'
  BY IdleOK, JobUpdate DEF Finish

LEMMA GotoOK ==
    ASSUME Inv, NEW t \in Threads, NEW s \in Steps, Goto(t, s),
           UNCHANGED members, job[t].step # "idle",
           s \notin {"out", "each"},
           s = "direct" => HasTo(job[t].msg),
           s \in TargetSteps => job[t].who \in Users
    PROVE  job' \in [Threads -> Job] /\ JobsConsistent'
  <1>. DEFINE j == [job[t] EXCEPT !.step = s]
  <1>1. job[t] \in Job /\ JobOK(job[t])
    BY DEF Inv, TypeOK, RoomTypeOK, JobsConsistent
  <1>2. j \in Job
    BY <1>1 DEF Job
  <1>3. JobOK(j)
    BY <1>1 DEF JobOK, Job
  <1>4. job' = [job EXCEPT ![t] = j]
    BY DEF Goto
  <1>. QED  BY <1>2, <1>3, <1>4, JobUpdate

LEMMA FoundOK ==
    ASSUME Inv, NEW t \in Threads, NEW s \in TargetSteps, NEW u \in Users,
           Found(t, s, u), UNCHANGED members, job[t].step # "idle"
    PROVE  job' \in [Threads -> Job] /\ JobsConsistent'
  <1>. DEFINE j == [job[t] EXCEPT !.step = s, !.who = u]
  <1>1. job \in [Threads -> Job] /\ job[t] \in Job /\ JobOK(job[t])
    BY DEF Inv, TypeOK, RoomTypeOK, JobsConsistent
  <1>2. j \in Job
    BY <1>1 DEF Job, TargetSteps, Steps, HandleSteps, CommandSteps
  <1>3. JobOK(j)
    BY <1>1 DEF JobOK, Job, TargetSteps
  <1>4. job' = [job EXCEPT ![t] = j]
    BY <1>1 DEF Found, Job
  <1>. QED  BY <1>2, <1>3, <1>4, JobUpdate

LEMMA PostOK ==
    ASSUME Inv, NEW t \in Threads, NEW out \in Seq(Msg), out # <<>>,
           Post(t, out), UNCHANGED members, job[t].step # "idle"
    PROVE  job' \in [Threads -> Job] /\ JobsConsistent'
  <1>. DEFINE j == [job[t] EXCEPT !.step = "out", !.out = out, !.then = "idle"]
  <1>1. job[t] \in Job /\ JobOK(job[t])
    BY DEF Inv, TypeOK, RoomTypeOK, JobsConsistent
  <1>2. j \in Job
    BY <1>1 DEF Job, Steps, HandleSteps, CommandSteps
  <1>3. JobOK(j)
    BY <1>1 DEF JobOK, Job, TargetSteps
  <1>. QED  BY <1>2, <1>3, JobUpdate DEF Post

LEMMA PostThenOK ==
    ASSUME Inv, NEW t \in Threads, NEW out \in Seq(Msg), out # <<>>,
           NEW v \in Users, NEW s \in {"replyTo", "close", "rename"},
           PostThen(t, out, v, s), UNCHANGED members, job[t].step # "idle"
    PROVE  job' \in [Threads -> Job] /\ JobsConsistent'
  <1>. DEFINE j == [job[t] EXCEPT !.step = "out", !.out = out, !.then = s,
                                  !.who = v]
  <1>1. job[t] \in Job /\ JobOK(job[t])
    BY DEF Inv, TypeOK, RoomTypeOK, JobsConsistent
  <1>2. j \in Job
    BY <1>1 DEF Job, Steps, HandleSteps, CommandSteps
  <1>3. JobOK(j)
    BY <1>1 DEF JobOK, Job, TargetSteps
  <1>. QED  BY <1>2, <1>3, JobUpdate DEF PostThen

LEMMA BeginOK ==
    ASSUME Inv, NEW t \in Threads, NEW m \in Msg, NEW l \in Line,
           Begin(t, m, l), UNCHANGED members
    PROVE  job' \in [Threads -> Job] /\ JobsConsistent'
  <1>. DEFINE s == IF FromID(m) = NoName THEN Branch(m) ELSE "lookup"
              j == [Idle EXCEPT !.msg = m, !.line = l, !.from = FromID(m),
                                !.step = s]
  <1>1. FromID(m) \in Names
    BY NamesAssumption, MessageFields
       DEF FromID, Inv, TypeOK, UsersTypeOK
  <1>2. /\ s \in Steps
        /\ s \notin TargetSteps \cup {"out", "each"}
        /\ s = "direct" => HasTo(m)
    BY DEF Branch, Steps, HandleSteps, CommandSteps, TargetSteps
  <1>. HIDE DEF s
  <1>3. j \in Job
    BY <1>1, <1>2, IdleOK DEF Job
  <1>4. JobOK(j)
    BY <1>2, IdleOK DEF JobOK, Job
  <1>5. job' = [job EXCEPT ![t] = j]
    BY DEF Begin, s
  <1>. QED  BY <1>3, <1>4, <1>5, JobUpdate

-----------------------------------------------------------------------------
(* The parts of the invariant, and what leaves each of them alone.         *)
MembersOK == /\ members \in [Names -> Users \cup {NoUser}]
             /\ muted \subseteq Users
             /\ isOp \subseteq Users
HistoryOK == history \in Seq(Msg) /\ Len(history) <= HistoryLen
QueuesOK == /\ broadcast \in Seq(Msg)
            /\ Len(broadcast) <= RoomBuffer
            /\ ready \subseteq Msg
HostOK == /\ phase \in [Users -> Phases]
          /\ feed \in [Users -> Seq(Msg)]
          /\ typed \in [Users -> Nat]
          /\ \A u \in Users : typed[u] <= MaxLines[u]
          /\ leaving \in [Users -> Names]
KeysOK == opKeys \subseteq Keyed

LEMMA Parts ==
    Inv <=> /\ UsersTypeOK /\ MembersOK /\ HistoryOK /\ QueuesOK /\ HostOK
            /\ KeysOK /\ job \in [Threads -> Job] /\ JobsConsistent
  BY DEF Inv, TypeOK, RoomTypeOK, MembersOK, HistoryOK, QueuesOK, HostOK,
     KeysOK

LEMMA PartsNext ==
    ASSUME UsersTypeOK', MembersOK', HistoryOK', QueuesOK', HostOK', KeysOK',
           job' \in [Threads -> Job], JobsConsistent'
    PROVE  Inv'
  BY DEF Inv, TypeOK, RoomTypeOK, MembersOK, HistoryOK, QueuesOK, HostOK,
     KeysOK

LEMMA Stutters ==
    ASSUME Inv
    PROVE  /\ UNCHANGED memberVars => MembersOK'
           /\ UNCHANGED history => HistoryOK'
           /\ UNCHANGED queueVars => QueuesOK'
           /\ UNCHANGED hostVars => HostOK'
           /\ UNCHANGED opKeys => KeysOK'
  BY Parts DEF MembersOK, HistoryOK, QueuesOK, HostOK, KeysOK, memberVars,
     queueVars, hostVars

LEMMA RoomSendOK ==
    ASSUME Inv, NEW m \in Msg, RoomSend(m)
    PROVE  QueuesOK'
  BY Parts, RoomAssumption DEF QueuesOK, RoomSend

LEMMA SpawnOK ==
    ASSUME Inv, NEW m \in Msg, Spawn(m)
    PROVE  QueuesOK'
  BY Parts DEF QueuesOK, Spawn

(* What a goroutine inside HandleMsg can rely on.                          *)
LEMMA JobFacts ==
    ASSUME Inv, NEW t \in Threads
    PROVE  /\ job[t] \in Job
           /\ JobOK(job[t])
           /\ job[t].step # "idle" => /\ job[t].msg \in Msg
                                      /\ LineNo(t) \in Nat
           /\ job[t].line \in Line
           /\ Arg(t) \in Names /\ New(t) \in Names
  <1>1. job[t] \in Job /\ JobOK(job[t])
    BY DEF Inv, TypeOK, RoomTypeOK, JobsConsistent
  <1>2. job[t].line \in Line
    BY <1>1 DEF Job
  <1>3. Arg(t) \in Names /\ New(t) \in Names
    BY <1>2 DEF Line, Arg, New
  <1>. QED  BY <1>1, <1>2, <1>3, MessageFields DEF JobOK, LineNo

LEMMA GetType ==
    ASSUME Inv, NEW n \in Names
    PROVE  Key(n) \in Names /\ Get(n) \in Users \cup {NoUser}
  BY NamesAssumption, Parts DEF Get, Key, MembersOK

LEMMA UserThreads == Users \subseteq Threads
  BY DEF Threads

-----------------------------------------------------------------------------
(* Serve, go HandleMsg and HandleMsg.                                      *)
LEMMA ServeInv == ASSUME Inv, Serve, UNCHANGED <<opKeys, hostVars>> PROVE Inv'
  <1>1. /\ Head(broadcast) \in Msg
        /\ Tail(broadcast) \in Seq(Msg)
        /\ Len(Tail(broadcast)) <= RoomBuffer
    BY Parts, RoomAssumption, HeadTailProperties DEF QueuesOK, Serve
  <1>2. QueuesOK'
    BY <1>1, Parts DEF QueuesOK, Serve
  <1>. QED
    BY <1>2, Parts, PartsNext, Stutters, UsersStutter, JobStutter
       DEF Serve, memberVars

LEMMA StartTaskInv ==
    ASSUME Inv, NEW t \in Tasks, NEW m \in ready, StartTask(t, m),
           UNCHANGED <<opKeys, hostVars>>
    PROVE  Inv'
  <1>1. m \in Msg /\ NoLine \in Line /\ t \in Threads
    BY Parts, NamesAssumption
       DEF QueuesOK, NoLine, Line, Cmds, OpCmds, Threads
  <1>2. QueuesOK'
    BY Parts DEF QueuesOK, StartTask
  <1>3. job' \in [Threads -> Job] /\ JobsConsistent'
    BY <1>1, BeginOK DEF StartTask, memberVars
  <1>. QED
    BY <1>2, <1>3, Parts, PartsNext, Stutters, UsersStutter DEF StartTask

(* The steps that only move the goroutine on.                              *)
LEMMA LookupInv ==
    ASSUME Inv, NEW t \in Threads, Lookup(t), UNCHANGED <<opKeys, hostVars>>
    PROVE  Inv'
  <1>. DEFINE m == job[t].msg
              u == Get(job[t].from)
  <1>1. /\ m \in Msg /\ job[t].step # "idle"
        /\ u \in Users \cup {NoUser}
        /\ u \in muted => u \in Users
    BY JobFacts, GetType, Parts DEF Lookup, At, Job, MembersOK
  <1>2. /\ Branch(m) \in Steps
        /\ Branch(m) \notin TargetSteps \cup {"out", "each"}
        /\ Branch(m) = "direct" => HasTo(m)
    BY DEF Branch, Steps, HandleSteps, CommandSteps, TargetSteps
  <1>3. UNCHANGED members
    BY DEF Lookup, memberVars
  <1>4. job' \in [Threads -> Job] /\ JobsConsistent'
    <2>1. CASE Finish(t)
      BY <2>1, <1>3, FinishOK
    <2>2. CASE u \in muted /\ Found(t, "send", u)
      BY <2>2, <1>1, <1>3, FoundOK DEF TargetSteps
    <2>3. CASE Goto(t, Branch(m))
      BY <2>3, <1>1, <1>2, <1>3, GotoOK
    <2>. QED  BY <2>1, <2>2, <2>3 DEF Lookup
  <1>. QED  BY <1>4, Parts, PartsNext, Stutters, UsersStutter DEF Lookup

LEMMA DirectInv ==
    ASSUME Inv, NEW t \in Threads, Direct(t), UNCHANGED <<opKeys, hostVars>>
    PROVE  Inv'
  <1>1. job[t].msg.to \in Users /\ job[t].step # "idle"
    BY JobFacts, MessageFields DEF Direct, At, JobOK
  <1>2. job' \in [Threads -> Job] /\ JobsConsistent'
    BY <1>1, FinishOK, FoundOK DEF Direct, memberVars, TargetSteps
  <1>. QED  BY <1>2, Parts, PartsNext, Stutters, UsersStutter DEF Direct

LEMMA DeliverInv ==
    ASSUME Inv, NEW t \in Threads, Deliver(t), UNCHANGED <<opKeys, hostVars>>
    PROVE  Inv'
  <1>1. job[t].who \in Users /\ job[t].msg \in Msg
    BY JobFacts DEF Deliver, At, JobOK, TargetSteps
  <1>2. UsersTypeOK'
    BY <1>1, Parts, SendToType DEF Deliver
  <1>3. job' \in [Threads -> Job] /\ JobsConsistent'
    BY FinishOK DEF Deliver, memberVars
  <1>. QED  BY <1>2, <1>3, Parts, PartsNext, Stutters DEF Deliver

LEMMA RecordInv ==
    ASSUME Inv, NEW t \in Threads, Record(t), UNCHANGED <<opKeys, hostVars>>
    PROVE  Inv'
  <1>. DEFINE m == job[t].msg
  <1>1. m \in Msg /\ job[t].step # "idle"
    BY JobFacts DEF Record, At
  <1>2. HistoryOK'
    BY <1>1, Parts, RoomAssumption DEF HistoryOK, Record, Remember
  <1>3. job' \in [Threads -> Job] /\ JobsConsistent'
    BY <1>1, GotoOK DEF Record, memberVars, Steps, HandleSteps, TargetSteps
  <1>. QED
    BY <1>2, <1>3, Parts, PartsNext, Stutters, UsersStutter DEF Record

-----------------------------------------------------------------------------
(* Members.Each.                                                           *)
LEMMA LockInv ==
    ASSUME Inv, NEW t \in Threads, Lock(t), UNCHANGED <<opKeys, hostVars>>
    PROVE  Inv'
  <1>. DEFINE rest == {k \in Names : members[k] # NoUser}
              j == [job[t] EXCEPT !.step = "each", !.rest = rest]
  <1>1. job \in [Threads -> Job] /\ job[t] \in Job /\ JobOK(job[t])
    BY Parts, JobFacts
  <1>2. j \in Job
    BY <1>1 DEF Job, Steps, HandleSteps
  <1>3. JobOK(j)
    BY <1>1 DEF JobOK, Job, Lock, At, TargetSteps
  <1>4. job' = [job EXCEPT ![t] = j]
    BY <1>1 DEF Lock, Job
  <1>5. job' \in [Threads -> Job] /\ JobsConsistent'
    BY <1>2, <1>3, <1>4, JobUpdate DEF Lock, memberVars
  <1>. QED  BY <1>5, Parts, PartsNext, Stutters, UsersStutter DEF Lock

LEMMA VisitInv ==
    ASSUME Inv, NEW t \in Threads, NEW k \in job[t].rest, Visit(t, k),
           UNCHANGED <<opKeys, hostVars>>
    PROVE  Inv'
  <1>. DEFINE u == members[k]
              rest == job[t].rest \ {k}
              j == [job[t] EXCEPT !.rest = rest]
              w == [job[t] EXCEPT !.rest = rest, !.who = u]
  <1>1. /\ job \in [Threads -> Job] /\ job[t] \in Job /\ JobOK(job[t])
        /\ job[t].step = "each"
    BY Parts, JobFacts DEF Visit, At
  <1>2. u \in Users /\ job[t].msg \in Msg
    BY <1>1, Parts DEF MembersOK, Job, JobOK
  <1>3. /\ j \in Job /\ JobOK(j)
        /\ w \in Job /\ JobOK(w)
    BY <1>1, <1>2 DEF JobOK, Job, TargetSteps
  <1>4. \/ job' = [job EXCEPT ![t] = j]
        \/ job' = [job EXCEPT ![t] = w]
    BY <1>1 DEF Visit, Job
  <1>5. job' \in [Threads -> Job] /\ JobsConsistent'
    BY <1>3, <1>4, JobUpdate DEF Visit, memberVars
  <1>6. UsersTypeOK'
    <2>1. CASE SendNow(u, job[t].msg)
      BY <2>1, <1>2, Parts, SendToType DEF Visit, SendTo
    <2>2. CASE UNCHANGED pipeVars
      BY <2>2, Parts, UsersStutter DEF Visit, userVars
    <2>. QED  BY <2>1, <2>2 DEF Visit
  <1>. QED  BY <1>5, <1>6, Parts, PartsNext, Stutters DEF Visit

LEMMA UnblockInv ==
    ASSUME Inv, NEW t \in Threads, Unblock(t), UNCHANGED <<opKeys, hostVars>>
    PROVE  Inv'
  <1>. DEFINE j == [job[t] EXCEPT !.who = NoUser]
  <1>1. /\ job \in [Threads -> Job] /\ job[t] \in Job /\ JobOK(job[t])
        /\ job[t].step = "each"
    BY Parts, JobFacts DEF Unblock, At
  <1>2. job[t].who \in Users /\ job[t].msg \in Msg
    BY <1>1 DEF Job, JobOK, Unblock
  <1>3. j \in Job /\ JobOK(j)
    BY <1>1 DEF JobOK, Job, TargetSteps
  <1>4. job' \in [Threads -> Job] /\ JobsConsistent'
    BY <1>3, JobUpdate DEF Unblock, memberVars
  <1>5. UsersTypeOK'
    BY <1>2, Parts, SendToType DEF Unblock
  <1>. QED  BY <1>4, <1>5, Parts, PartsNext, Stutters DEF Unblock

LEMMA UnlockInv ==
    ASSUME Inv, NEW t \in Threads, Unlock(t), UNCHANGED <<opKeys, hostVars>>
    PROVE  Inv'
  <1>1. job' \in [Threads -> Job] /\ JobsConsistent'
    BY FinishOK DEF Unlock, memberVars
  <1>. QED  BY <1>1, Parts, PartsNext, Stutters, UsersStutter DEF Unlock

LEMMA HandleMsgInv ==
    ASSUME Inv, NEW t \in Threads, HandleMsg(t), UNCHANGED <<opKeys, hostVars>>
    PROVE  Inv'
  BY LookupInv, DirectInv, DeliverInv, RecordInv, LockInv, VisitInv,
     UnblockInv, UnlockInv DEF HandleMsg

-----------------------------------------------------------------------------
(* Commands.  In each of them the goroutine of u is busy with a message    *)
(* and, in the end, fails, posts something, or goes on with a target.      *)
LEMMA FailOK ==
    ASSUME Inv, NEW u \in Users, Fail(u), UNCHANGED members,
           job[u].step # "idle"
    PROVE  QueuesOK' /\ job' \in [Threads -> Job] /\ JobsConsistent'
  <1>1. SystemMsg(u, u, LineNo(u), 1) \in Msg
    BY JobFacts, UserThreads, MessageTypes
  <1>. QED  BY <1>1, SpawnOK, FinishOK, UserThreads DEF Fail

LEMMA OneMsg ==
    ASSUME NEW m \in Msg
    PROVE  <<m>> \in Seq(Msg) /\ <<m>> # <<>>
  OBVIOUS

LEMMA LongTail ==
    ASSUME NEW s \in Seq(Msg), Len(s) > 1
    PROVE  Tail(s) # <<>>
  <1>1. Len(s) \in Nat /\ s # <<>>
    BY LenProperties, EmptySeq
  <1>2. Len(Tail(s)) = Len(s) - 1
    BY <1>1, HeadTailProperties
  <1>3. Len(Tail(s)) # 0
    BY <1>1, <1>2
  <1>. QED  BY <1>3, EmptySeq

LEMMA PostedMsgs ==
    ASSUME Inv, NEW u \in Users, NEW v \in Users, job[u].step # "idle"
    PROVE  /\ Reply(u) \in Msg
           /\ PrivateMsg(u, v, LineNo(u)) \in Msg
           /\ SystemMsg(u, v, LineNo(u), 0) \in Msg
           /\ EmoteMsg(u, LineNo(u)) \in Msg
           /\ Renames(u) \in Seq(Msg) /\ Renames(u) # <<>>
           /\ AnnounceMsg(u, LineNo(u), 2) \in Msg
  BY JobFacts, UserThreads, MessageTypes DEF Reply, Renames

LEMMA SimpleInv ==
    ASSUME Inv, NEW u \in Users, UNCHANGED hostVars,
           Bad(u) \/ Info(u) \/ Emote(u) \/ Exit(u)
    PROVE  Inv'
  <1>1. /\ job[u].step # "idle" /\ UNCHANGED members
        /\ u \in Threads
    BY UserThreads DEF Bad, Info, Emote, Exit, Runs, At, memberVars
  <1>2. CASE Bad(u)
    BY <1>1, <1>2, FailOK, Parts, PartsNext, Stutters, UsersStutter DEF Bad
  <1>3. CASE Info(u)
    <2>1. job' \in [Threads -> Job] /\ JobsConsistent'
      BY <1>1, <1>3, PostOK, PostedMsgs, OneMsg DEF Info
    <2>. QED
      BY <1>3, <2>1, Parts, PartsNext, Stutters, UsersStutter DEF Info
  <1>4. CASE Emote(u)
    <2>1. job' \in [Threads -> Job] /\ JobsConsistent'
      BY <1>1, <1>4, PostOK, PostedMsgs, OneMsg DEF Emote
    <2>. QED
      BY <1>4, <2>1, Parts, PartsNext, Stutters, UsersStutter DEF Emote
  <1>5. CASE Exit(u)
    <2>1. job' \in [Threads -> Job] /\ JobsConsistent'
      BY <1>1, <1>5, FinishOK DEF Exit
    <2>2. UsersTypeOK'
      BY <1>5, CloseType, Parts DEF Exit
    <2>. QED  BY <1>5, <2>1, <2>2, Parts, PartsNext, Stutters DEF Exit
  <1>. QED  BY <1>2, <1>3, <1>4, <1>5

LEMMA SettingsInv ==
    ASSUME Inv, NEW u \in Users, UNCHANGED hostVars,
           ToggleQuiet(u) \/ Ignore(u) \/ Unignore(u)
    PROVE  Inv'
  <1>1. /\ job[u].step # "idle" /\ UNCHANGED members
        /\ u \in Threads
    BY UserThreads DEF ToggleQuiet, Ignore, Unignore, Runs, At, memberVars
  <1>2. Key(Arg(u)) \in Names
    BY <1>1, JobFacts, GetType
  <1>3. <<Reply(u)>> \in Seq(Msg) /\ <<Reply(u)>> # <<>>
    BY <1>1, PostedMsgs, OneMsg
  <1>4. CASE ToggleQuiet(u)
    <2>1. job' \in [Threads -> Job] /\ JobsConsistent'
      BY <1>1, <1>3, <1>4, PostOK DEF ToggleQuiet
    <2>2. UsersTypeOK'
      BY <1>4, Parts DEF ToggleQuiet, UsersTypeOK, pipeVars
    <2>. QED  BY <1>4, <2>1, <2>2, Parts, PartsNext, Stutters DEF ToggleQuiet
  <1>5. CASE Ignore(u)
    <2>1. QueuesOK' /\ job' \in [Threads -> Job] /\ JobsConsistent'
      BY <1>1, <1>3, <1>5, PostOK, FailOK, Stutters DEF Ignore
    <2>2. UsersTypeOK'
      BY <1>2, <1>5, Parts DEF Ignore, UsersTypeOK, pipeVars
    <2>. QED  BY <1>5, <2>1, <2>2, Parts, PartsNext, Stutters DEF Ignore
  <1>6. CASE Unignore(u)
    <2>1. QueuesOK' /\ job' \in [Threads -> Job] /\ JobsConsistent'
      BY <1>1, <1>3, <1>6, PostOK, FailOK, Stutters DEF Unignore
    <2>2. UsersTypeOK'
      BY <1>2, <1>6, Parts DEF Unignore, UsersTypeOK, pipeVars
    <2>. QED  BY <1>6, <2>1, <2>2, Parts, PartsNext, Stutters DEF Unignore
  <1>. QED  BY <1>4, <1>5, <1>6

LEMMA SendPMOK ==
    ASSUME Inv, NEW u \in Users, NEW v \in Users, SendPM(u, v),
           UNCHANGED members, job[u].step # "idle"
    PROVE  job' \in [Threads -> Job] /\ JobsConsistent'
  <1>1. <<PrivateMsg(u, v, LineNo(u)), Reply(u)>> \in Seq(Msg)
    BY PostedMsgs
  <1>. QED  BY <1>1, PostThenOK, UserThreads DEF SendPM

LEMMA PrivateInv ==
    ASSUME Inv, NEW u \in Users, UNCHANGED hostVars,
           PrivateTo(u) \/ ReplyBack(u) \/ SetReplyTo(u)
    PROVE  Inv'
  <1>1. job[u].step # "idle" /\ UNCHANGED members /\ u \in Threads
    BY UserThreads
       DEF PrivateTo, ReplyBack, SetReplyTo, Runs, At, memberVars
  <1>2. CASE PrivateTo(u)
    <2>1. Get(Arg(u)) \in Users \cup {NoUser}
      BY <1>1, JobFacts, GetType
    <2>2. QueuesOK' /\ job' \in [Threads -> Job] /\ JobsConsistent'
      BY <1>1, <1>2, <2>1, FailOK, SendPMOK, Stutters DEF PrivateTo
    <2>. QED
      BY <1>2, <2>2, Parts, PartsNext, Stutters, UsersStutter DEF PrivateTo
  <1>3. CASE ReplyBack(u)
    <2>1. replyTo[u] \in Users \cup {NoUser}
      BY Parts DEF UsersTypeOK
    <2>2. QueuesOK' /\ job' \in [Threads -> Job] /\ JobsConsistent'
      BY <1>1, <1>3, <2>1, FailOK, SendPMOK, Stutters DEF ReplyBack
    <2>. QED
      BY <1>3, <2>2, Parts, PartsNext, Stutters, UsersStutter DEF ReplyBack
  <1>4. CASE SetReplyTo(u)
    <2>1. UsersTypeOK'
      BY <1>4, Parts DEF SetReplyTo, UsersTypeOK, pipeVars
    <2>2. job' \in [Threads -> Job] /\ JobsConsistent'
      BY <1>1, <1>4, FinishOK DEF SetReplyTo
    <2>. QED  BY <1>4, <2>1, <2>2, Parts, PartsNext, Stutters DEF SetReplyTo
  <1>. QED  BY <1>2, <1>3, <1>4

LEMMA SendOutInv ==
    ASSUME Inv, NEW u \in Users, UNCHANGED hostVars, SendOut(u)
    PROVE  Inv'
  <1>. DEFINE out == job[u].out
              j == [job[u] EXCEPT !.out = Tail(out)]
              w == [job[u] EXCEPT !.step = job[u].then, !.out = <<>>,
                                  !.then = "idle"]
  <1>1. /\ job \in [Threads -> Job] /\ job[u] \in Job /\ JobOK(job[u])
        /\ job[u].step = "out" /\ u \in Threads /\ UNCHANGED members
    BY Parts, JobFacts, UserThreads DEF SendOut, At, memberVars
  <1>2. out \in Seq(Msg) /\ out # <<>>
    BY <1>1 DEF Job, JobOK
  <1>3. /\ Head(out) \in Msg /\ Tail(out) \in Seq(Msg)
        /\ Len(Tail(out)) = Len(out) - 1
    BY <1>2, HeadTailProperties
  <1>4. QueuesOK'
    BY <1>3, RoomSendOK DEF SendOut
  <1>5. job' \in [Threads -> Job] /\ JobsConsistent'
    <2>1. CASE Len(out) > 1
      <3>1. Tail(out) # <<>>
        BY <1>2, <2>1, LongTail
      <3>2. j \in Job /\ JobOK(j)
        BY <1>1, <1>3, <3>1 DEF JobOK, Job, TargetSteps
      <3>3. job' = [job EXCEPT ![u] = j]
        BY <1>1, <2>1 DEF SendOut
      <3>. QED  BY <1>1, <3>2, <3>3, JobUpdate
    <2>2. CASE ~(Len(out) > 1) /\ job[u].then = "idle"
      BY <1>1, <2>2, FinishOK DEF SendOut
    <2>3. CASE ~(Len(out) > 1) /\ job[u].then # "idle"
      <3>1. /\ job[u].then \in {"replyTo", "close", "rename"}
            /\ job[u].who \in Users
        BY <1>1, <2>3 DEF JobOK
      <3>2. w \in Job
        <4>1. <<>> \in Seq(Msg) /\ "idle" \in Steps /\ job[u].then \in Steps
          BY <1>1 DEF Job, Steps, HandleSteps
        <4>. QED  BY <1>1, <4>1 DEF Job
      <3>3. /\ w.step = job[u].then /\ w.msg = job[u].msg
            /\ w.who = job[u].who
        BY <1>1 DEF Job
      <3>4. JobOK(w)
        BY <1>1, <3>1, <3>3 DEF JobOK
      <3>5. job' = [job EXCEPT ![u] = w]
        BY <1>1, <2>3 DEF SendOut
      <3>. QED  BY <1>1, <3>2, <3>4, <3>5, JobUpdate
    <2>. QED  BY <2>1, <2>2, <2>3
  <1>. QED
    BY <1>4, <1>5, Parts, PartsNext, Stutters, UsersStutter DEF SendOut

-----------------------------------------------------------------------------
(* Renames.                                                                *)
LEMMA StartRenameOK ==
    ASSUME Inv, NEW u \in Users, NEW v \in Users, StartRename(u, v),
           UNCHANGED members, job[u].step # "idle"
    PROVE  job' \in [Threads -> Job] /\ JobsConsistent'
  <1>. DEFINE j == [job[u] EXCEPT !.step = "setid", !.who = v, !.old = id[v]]
  <1>1. job[u] \in Job /\ JobOK(job[u]) /\ u \in Threads /\ id[v] \in Names
    BY JobFacts, UserThreads, Parts DEF UsersTypeOK
  <1>2. j \in Job
    BY <1>1 DEF Job, Steps, CommandSteps
  <1>3. JobOK(j)
    BY <1>1 DEF Job, JobOK, TargetSteps
  <1>. QED  BY <1>1, <1>2, <1>3, JobUpdate DEF StartRename

LEMMA StartInv ==
    ASSUME Inv, NEW u \in Users, UNCHANGED hostVars,
           Nick(u) \/ OpRename(u) \/ OpRenameTarget(u)
    PROVE  Inv'
  <1>1. job[u].step # "idle" /\ UNCHANGED members /\ u \in Threads
    BY UserThreads
       DEF Nick, OpRename, OpRenameTarget, Runs, Acts, At, memberVars
  <1>2. CASE Nick(u)
    <2>1. Get(id[u]) \in Users \cup {NoUser}
      BY GetType, Parts DEF UsersTypeOK
    <2>2. QueuesOK' /\ job' \in [Threads -> Job] /\ JobsConsistent'
      BY <1>1, <1>2, <2>1, FailOK, StartRenameOK, Stutters DEF Nick
    <2>. QED
      BY <1>2, <2>2, Parts, PartsNext, Stutters, UsersStutter DEF Nick
  <1>3. CASE OpRename(u)
    <2>. DEFINE v == Get(Arg(u))
    <2>1. v \in Users
      BY <1>1, <1>3, JobFacts, GetType DEF OpRename
    <2>2. /\ <<SystemMsg(u, v, LineNo(u), 0)>> \in Seq(Msg)
          /\ <<SystemMsg(u, v, LineNo(u), 0)>> # <<>>
      BY <1>1, <2>1, PostedMsgs, OneMsg
    <2>3. job' \in [Threads -> Job] /\ JobsConsistent'
      BY <1>1, <1>3, <2>1, <2>2, PostThenOK, FoundOK DEF OpRename, TargetSteps
    <2>. QED
      BY <1>3, <2>3, Parts, PartsNext, Stutters, UsersStutter DEF OpRename
  <1>4. CASE OpRenameTarget(u)
    <2>1. job[u].who \in Users
      BY <1>1, <1>4, JobFacts DEF OpRenameTarget, At, JobOK, TargetSteps
    <2>2. QueuesOK' /\ job' \in [Threads -> Job] /\ JobsConsistent'
      BY <1>1, <1>4, <2>1, FailOK, FinishOK, StartRenameOK, Stutters
         DEF OpRenameTarget
    <2>. QED
      BY <1>4, <2>2, Parts, PartsNext, Stutters, UsersStutter
         DEF OpRenameTarget
  <1>. QED  BY <1>2, <1>3, <1>4

LEMMA RenameInv ==
    ASSUME Inv, NEW u \in Users, UNCHANGED hostVars,
           SetID(u) \/ Rename(u) \/ ReplaceMember(u) \/ Revert(u)
    PROVE  Inv'
  <1>. DEFINE v == job[u].who
              old == job[u].old
              new == job[u].now
  <1>1. /\ job[u].step # "idle" /\ u \in Threads
        /\ v \in Users /\ old \in Names /\ new \in Names
        /\ New(u) \in Names
    BY JobFacts, UserThreads
       DEF SetID, Rename, ReplaceMember, Revert, At, Job, JobOK, TargetSteps
  <1>2. CASE SetID(u)
    <2>1. UsersTypeOK'
      BY <1>1, <1>2, Parts DEF SetID, UsersTypeOK, pipeVars, settingVars
    <2>2. job' \in [Threads -> Job] /\ JobsConsistent'
      BY <1>1, <1>2, GotoOK
         DEF SetID, memberVars, Steps, CommandSteps, TargetSteps
    <2>. QED  BY <1>2, <2>1, <2>2, Parts, PartsNext, Stutters DEF SetID
  <1>3. CASE /\ Rename(u) \/ ReplaceMember(u)
             /\ Goto(u, "revert") /\ UNCHANGED members
    <2>1. job' \in [Threads -> Job] /\ JobsConsistent'
      BY <1>1, <1>3, GotoOK DEF Steps, CommandSteps, TargetSteps
    <2>. QED
      BY <1>3, <2>1, Parts, PartsNext, Stutters, UsersStutter
         DEF Rename, ReplaceMember, memberVars
  <1>6. CASE Rename(u) /\ ~Goto(u, "revert")
    <2>. DEFINE j == [job[u] EXCEPT !.step = "replace", !.now = id[v]]
    <2>1. job \in [Threads -> Job] /\ job[u] \in Job /\ JobOK(job[u])
          /\ id[v] \in Names
      BY <1>1, Parts, JobFacts DEF UsersTypeOK
    <2>2. j \in Job
      BY <2>1 DEF Job, Steps, HandleSteps, CommandSteps
    <2>3. JobOK(j)
      BY <1>1, <2>1 DEF JobOK, Job, TargetSteps
    <2>4. job' = [job EXCEPT ![u] = j] /\ UNCHANGED members
      BY <1>6, <2>1 DEF Rename, memberVars
    <2>5. job' \in [Threads -> Job] /\ JobsConsistent'
      BY <1>1, <2>2, <2>3, <2>4, JobUpdate
    <2>. QED
      BY <1>6, <2>5, Parts, PartsNext, Stutters, UsersStutter DEF Rename
  <1>4. CASE /\ ReplaceMember(u)
             /\ members' = Replaced(old, new, v) /\ Post(u, Renames(u))
    <2>. DEFINE j == [job[u] EXCEPT !.step = "out", !.out = Renames(u),
                                    !.then = "idle"]
    <2>1. WriteFree
      BY <1>4 DEF ReplaceMember
    <2>2. Renames(u) \in Seq(Msg) /\ Renames(u) # <<>>
      BY <1>1, PostedMsgs
    <2>3. job \in [Threads -> Job] /\ job[u] \in Job /\ JobOK(job[u])
      BY <1>1, Parts, JobFacts
    <2>4. j \in Job
      BY <2>2, <2>3 DEF Job, Steps, HandleSteps, CommandSteps
    <2>5. job' = [job EXCEPT ![u] = j]
      BY <1>4 DEF Post
    <2>6. job' \in [Threads -> Job]
      BY <2>3, <2>4, <2>5
    <2>7. ASSUME NEW t \in Threads
          PROVE  JobOK(job[t])'
      <3>1. CASE t = u
        BY <1>1, <2>2, <2>3, <2>5, <3>1 DEF JobOK, Job, TargetSteps
      <3>2. CASE t # u
        BY <2>1, <2>3, <2>5, <3>2, Parts DEF JobOK, WriteFree, JobsConsistent
      <3>. QED  BY <3>1, <3>2
    <2>8. MembersOK'
      BY <1>1, <1>4, Parts, NamesAssumption
         DEF ReplaceMember, MembersOK, Replaced, Key
    <2>. QED
      BY <1>4, <2>6, <2>7, <2>8, Parts, PartsNext, Stutters, UsersStutter
         DEF ReplaceMember, JobsConsistent
  <1>5. CASE Revert(u)
    <2>1. UsersTypeOK'
      BY <1>1, <1>5, Parts DEF Revert, UsersTypeOK, pipeVars, settingVars
    <2>2. QueuesOK' /\ job' \in [Threads -> Job] /\ JobsConsistent'
      BY <1>1, <1>5, FailOK DEF Revert, memberVars
    <2>. QED  BY <1>5, <2>1, <2>2, Parts, PartsNext, Stutters DEF Revert
  <1>7. Rename(u) => UNCHANGED members
    BY DEF Rename, memberVars
  <1>. QED  BY <1>2, <1>3, <1>4, <1>5, <1>6, <1>7 DEF ReplaceMember

-----------------------------------------------------------------------------
(* Operator commands.                                                      *)
LEMMA OperatorInv ==
    ASSUME Inv, NEW u \in Users, UNCHANGED hostVars,
           \/ Authorize(u) \/ NoTarget(u) \/ Mute(u) \/ SetMute(u)
           \/ Kick(u) \/ CloseTarget(u) \/ Op(u) \/ OpKey(u)
    PROVE  Inv'
  <1>. DEFINE v == Get(Arg(u))
              w == job[u].who
  <1>1. /\ job[u].step # "idle" /\ UNCHANGED members /\ u \in Threads
        /\ v \in Users \cup {NoUser}
    BY UserThreads, JobFacts, GetType
       DEF Authorize, NoTarget, Mute, SetMute, Kick, CloseTarget, Op, OpKey,
           Runs, Acts, At, memberVars
  <1>2. job[u].step \in TargetSteps => w \in Users
    BY <1>1, JobFacts DEF JobOK
  <1>3. /\ <<Reply(u)>> \in Seq(Msg) /\ <<Reply(u)>> # <<>>
        /\ <<AnnounceMsg(u, LineNo(u), 2)>> \in Seq(Msg)
        /\ <<AnnounceMsg(u, LineNo(u), 2)>> # <<>>
    BY <1>1, PostedMsgs, OneMsg
  <1>4. CASE Authorize(u)
    <2>1. QueuesOK' /\ job' \in [Threads -> Job] /\ JobsConsistent'
      BY <1>1, <1>4, GotoOK, FailOK, Stutters
         DEF Authorize, Steps, CommandSteps, TargetSteps
    <2>. QED
      BY <1>4, <2>1, Parts, PartsNext, Stutters, UsersStutter DEF Authorize
  <1>5. CASE NoTarget(u)
    BY <1>1, <1>5, FailOK, Parts, PartsNext, Stutters, UsersStutter
       DEF NoTarget
  <1>6. CASE Mute(u)
    <2>1. job' \in [Threads -> Job] /\ JobsConsistent'
      BY <1>1, <1>6, FoundOK DEF Mute, TargetSteps
    <2>. QED
      BY <1>6, <2>1, Parts, PartsNext, Stutters, UsersStutter DEF Mute
  <1>7. CASE SetMute(u)
    <2>1. w \in Users
      BY <1>2, <1>7 DEF SetMute, At, TargetSteps
    <2>2. job' \in [Threads -> Job] /\ JobsConsistent'
      BY <1>1, <1>3, <1>7, PostOK DEF SetMute
    <2>3. MembersOK'
      BY <1>7, <2>1, Parts DEF SetMute, MembersOK
    <2>. QED
      BY <1>7, <2>2, <2>3, Parts, PartsNext, Stutters, UsersStutter
         DEF SetMute
  <1>8. CASE Kick(u)
    <2>1. job' \in [Threads -> Job] /\ JobsConsistent'
      BY <1>1, <1>3, <1>8, PostThenOK DEF Kick
    <2>. QED
      BY <1>8, <2>1, Parts, PartsNext, Stutters, UsersStutter DEF Kick
  <1>9. CASE CloseTarget(u)
    <2>1. w \in Users
      BY <1>2, <1>9 DEF CloseTarget, At, TargetSteps
    <2>2. job' \in [Threads -> Job] /\ JobsConsistent'
      BY <1>1, <1>9, FinishOK DEF CloseTarget
    <2>3. UsersTypeOK'
      BY <1>9, <2>1, CloseType, Parts DEF CloseTarget
    <2>. QED  BY <1>9, <2>2, <2>3, Parts, PartsNext, Stutters DEF CloseTarget
  <1>10. CASE Op(u)
    <2>1. job' \in [Threads -> Job] /\ JobsConsistent'
      BY <1>1, <1>10, FoundOK DEF Op, TargetSteps
    <2>2. MembersOK'
      BY <1>1, <1>10, Parts DEF Op, MembersOK
    <2>. QED
      BY <1>10, <2>1, <2>2, Parts, PartsNext, Stutters, UsersStutter DEF Op
  <1>11. CASE OpKey(u)
    <2>1. w \in Users
      BY <1>2, <1>11 DEF OpKey, At, TargetSteps
    <2>2. /\ <<SystemMsg(u, w, LineNo(u), 0)>> \in Seq(Msg)
          /\ <<SystemMsg(u, w, LineNo(u), 0)>> # <<>>
      BY <1>1, <2>1, PostedMsgs, OneMsg
    <2>3. job' \in [Threads -> Job] /\ JobsConsistent'
      BY <1>1, <1>11, <2>2, PostOK DEF OpKey
    <2>4. KeysOK'
      BY <1>11, Parts DEF OpKey, KeysOK
    <2>. QED
      BY <1>11, <2>3, <2>4, Parts, PartsNext, Stutters, UsersStutter DEF OpKey
  <1>. QED
    BY <1>4, <1>5, <1>6, <1>7, <1>8, <1>9, <1>10, <1>11

LEMMA RunCommandInv ==
    ASSUME Inv, NEW u \in Users, RunCommand(u), UNCHANGED hostVars
    PROVE  Inv'
  BY SimpleInv, SettingsInv, PrivateInv, StartInv, RenameInv, OperatorInv,
     SendOutInv DEF RunCommand

-----------------------------------------------------------------------------
(* Connect.                                                                *)
LEMMA EnterOK ==
    ASSUME Inv, NEW u \in Users, NEW p \in Phases, Enter(u, p),
           UNCHANGED <<feed, typed, leaving>>
    PROVE  HostOK'
  BY Parts DEF HostOK, Enter

LEMMA ArriveInv == ASSUME Inv, NEW u \in Users, Arrive(u) PROVE Inv'
  <1>1. UsersTypeOK'
    BY Parts DEF Arrive, UsersTypeOK, settingVars
  <1>2. HostOK'
    BY EnterOK DEF Arrive, Phases
  <1>. QED
    BY <1>1, <1>2, Parts, PartsNext, Stutters, JobStutter
       DEF Arrive, roomVars, memberVars, queueVars

LEMMA SendMotdInv == ASSUME Inv, NEW u \in Users, SendMotd(u) PROVE Inv'
  <1>1. AnnounceMsg(u, 0, 2) \in Msg
    BY MessageTypes
  <1>2. UsersTypeOK'
    BY <1>1, SendToType, Parts DEF SendMotd
  <1>3. HostOK'
    BY EnterOK DEF SendMotd, Phases
  <1>. QED
    BY <1>2, <1>3, Parts, PartsNext, Stutters, JobStutter
       DEF SendMotd, roomVars, memberVars, queueVars

(* Join, Leave: the only writes to the registry besides Rename.            *)
LEMMA JoinInv == ASSUME Inv, NEW u \in Users, Join(u) PROVE Inv'
  <1>1. UsersTypeOK'
    BY Parts, HostAssumption
       DEF Join, UsersTypeOK, pipeVars, settingVars
  <1>2. HostOK'
    BY EnterOK DEF Join, Phases
  <1>3. MembersOK'
    <2>1. CASE UNCHANGED members
      BY <2>1, Parts DEF Join, MembersOK
    <2>2. CASE members' = Added(id[u], u)
      <3>1. Key(id[u]) \in Names
        BY Parts, NamesAssumption DEF Key, UsersTypeOK
      <3>. QED  BY <2>2, <3>1, Parts DEF Join, MembersOK, Added
    <2>. QED  BY <2>1, <2>2 DEF Join
  <1>4. JobsConsistent'
    <2>1. CASE UNCHANGED members
      BY <2>1, JobStutter DEF Join
    <2>2. CASE ~JoinFails(u)
      BY <2>2, JobStutterWriteFree DEF Join, JoinFails
    <2>. QED  BY <2>1, <2>2 DEF Join
  <1>. QED
    BY <1>1, <1>2, <1>3, <1>4, Parts, PartsNext, Stutters DEF Join

LEMMA LeaveInv == ASSUME Inv, NEW u \in Users, Leave(u) PROVE Inv'
  <1>1. HostOK'
    BY Parts, NamesAssumption DEF Leave, HostOK, Enter, Phases
  <1>2. MembersOK'
    BY Parts DEF Leave, MembersOK, Removed
  <1>3. JobsConsistent'
    BY JobStutterWriteFree DEF Leave
  <1>. QED
    BY <1>1, <1>2, <1>3, Parts, PartsNext, Stutters, UsersStutter DEF Leave

LEMMA FeedInv ==
    ASSUME Inv, NEW u \in Users, GetHistory(u) \/ Feed(u)
    PROVE  Inv'
  <1>1. JobsConsistent' /\ MembersOK' /\ HistoryOK' /\ QueuesOK' /\ KeysOK'
        /\ job' \in [Threads -> Job]
    BY Parts, Stutters, JobStutter
       DEF GetHistory, Feed, roomVars, memberVars, queueVars
  <1>2. CASE GetHistory(u)
    <2>1. HostOK'
      BY <1>2, Parts DEF GetHistory, HostOK, HistoryOK, Enter, Phases
    <2>. QED
      BY <1>1, <1>2, <2>1, Parts, PartsNext, UsersStutter DEF GetHistory
  <1>3. CASE Feed(u) /\ feed[u] # <<>> /\ SendTo(u, Head(feed[u]))
             /\ feed' = [feed EXCEPT ![u] = Tail(@)] /\ UNCHANGED phase
    <2>1. Head(feed[u]) \in Msg /\ Tail(feed[u]) \in Seq(Msg)
      BY <1>3, Parts, HeadTailProperties DEF HostOK
    <2>2. UsersTypeOK'
      BY <1>3, <2>1, SendToType, Parts DEF Feed
    <2>3. HostOK'
      BY <1>3, <2>1, Parts DEF Feed, HostOK
    <2>. QED  BY <1>1, <2>2, <2>3, PartsNext
  <1>4. CASE Feed(u) /\ Enter(u, "announce") /\ UNCHANGED <<pipeVars, feed>>
    <2>1. HostOK'
      BY <1>4, EnterOK DEF Feed, Phases
    <2>2. UsersTypeOK'
      BY <1>4, Parts, UsersStutter DEF Feed, userVars
    <2>. QED  BY <1>1, <2>1, <2>2, PartsNext
  <1>. QED  BY <1>2, <1>3, <1>4 DEF Feed

LEMMA AnnounceInv ==
    ASSUME Inv, NEW u \in Users, AnnounceJoin(u) \/ AnnounceLeave(u)
    PROVE  Inv'
  <1>1. AnnounceMsg(u, 0, 0) \in Msg /\ AnnounceMsg(u, 0, 1) \in Msg
    BY MessageTypes
  <1>2. QueuesOK'
    BY <1>1, RoomSendOK DEF AnnounceJoin, AnnounceLeave
  <1>3. HostOK'
    BY EnterOK DEF AnnounceJoin, AnnounceLeave, Phases
  <1>. QED
    BY <1>2, <1>3, Parts, PartsNext, Stutters, UsersStutter, JobStutter
       DEF AnnounceJoin, AnnounceLeave, memberVars

LEMMA OpCheckInv ==
    ASSUME Inv, NEW u \in Users,
           RunEnv(u) \/ CheckOp(u) \/ GrantOp(u) \/ EndOfInput(u)
    PROVE  Inv'
  <1>1. HostOK'
    <2>1. CASE CheckOp(u) \/ GrantOp(u)
      BY <2>1, EnterOK DEF CheckOp, GrantOp, Phases
    <2>2. CASE EndOfInput(u)
      BY <2>2, Parts DEF EndOfInput, HostOK, UsersTypeOK, Enter, Phases
    <2>3. CASE RunEnv(u) /\ UNCHANGED typed
      BY <2>3, EnterOK, Parts DEF RunEnv, HostOK, Enter, Phases
    <2>4. CASE /\ RunEnv(u) /\ typed[u] + 1 <= MaxLines[u]
               /\ typed' = [typed EXCEPT ![u] = typed[u] + 1]
               /\ UNCHANGED <<phase, feed, leaving>>
      BY <2>4, Parts DEF HostOK
    <2>. QED  BY <2>1, <2>2, <2>3, <2>4 DEF RunEnv
  <1>2. MembersOK' /\ UNCHANGED members
    BY Parts
       DEF RunEnv, CheckOp, GrantOp, EndOfInput, MembersOK, roomVars,
           memberVars
  <1>3. job' \in [Threads -> Job] /\ JobsConsistent'
    <2>1. CASE RunEnv(u) /\ ~UNCHANGED job
      <3>1. PICK c \in {"info", "bad"} :
                Begin(u, CommandMsg(u, typed[u] + 1),
                      [NoLine EXCEPT !.cmd = c])
        BY <2>1 DEF RunEnv
      <3>2. [NoLine EXCEPT !.cmd = c] \in Line
        BY NamesAssumption DEF NoLine, Line, Cmds
      <3>3. CommandMsg(u, typed[u] + 1) \in Msg
        BY Parts, MessageTypes DEF HostOK
      <3>. QED
        BY <1>2, <3>1, <3>2, <3>3, BeginOK, UserThreads
    <2>2. CASE UNCHANGED job
      BY <1>2, <2>2, Parts, JobStutter
    <2>. QED
      BY <2>1, <2>2 DEF RunEnv, CheckOp, GrantOp, EndOfInput, roomVars
  <1>. QED
    BY <1>1, <1>2, <1>3, Parts, PartsNext, Stutters, UsersStutter
       DEF RunEnv, CheckOp, GrantOp, EndOfInput, roomVars

LEMMA ReadLineInv ==
    ASSUME Inv, NEW u \in Users, NEW l \in Lines[u], ReadLine(u, l)
    PROVE  Inv'
  <1>. DEFINE n == typed[u] + 1
              j == [Idle EXCEPT !.step = "send",
                        !.msg = SystemMsg(u, u, n, 0), !.who = u]
  <1>1. n \in Nat /\ l \in Line /\ u \in Threads /\ UNCHANGED members
    BY Parts, HostAssumption, UserThreads DEF HostOK, ReadLine, memberVars
  <1>2. /\ SystemMsg(u, u, n, 0) \in Msg
        /\ PublicMsg(u, n) \in Msg /\ CommandMsg(u, n) \in Msg
    BY <1>1, MessageTypes
  <1>3. HostOK'
    BY <1>1, Parts DEF HostOK, ReadLine
  <1>4. UsersTypeOK'
    BY Parts, UsersStutter, CloseType DEF ReadLine, Echo, userVars
  <1>5. job' \in [Threads -> Job] /\ JobsConsistent'
    <2>1. CASE Begin(u, PublicMsg(u, n), l)
      BY <1>1, <1>2, <2>1, BeginOK
    <2>2. CASE Begin(u, CommandMsg(u, n), l)
      BY <1>1, <1>2, <2>2, BeginOK
    <2>3. CASE job' = [job EXCEPT ![u] = j]
      <3>1. j \in Job
        BY <1>2, IdleOK DEF Job, Steps, HandleSteps
      <3>2. JobOK(j)
        BY <1>2, IdleOK DEF JobOK, Job
      <3>. QED  BY <1>1, <2>3, <3>1, <3>2, JobUpdate
    <2>. QED  BY <2>1, <2>2, <2>3 DEF ReadLine
  <1>. QED
    BY <1>3, <1>4, <1>5, Parts, PartsNext, Stutters DEF ReadLine

LEMMA DisconnectInv == ASSUME Inv, NEW u \in Users, Disconnect(u) PROVE Inv'
  <1>1. UsersTypeOK'
    BY CloseType, Parts DEF Disconnect
  <1>2. HostOK'
    BY EnterOK DEF Disconnect, Phases
  <1>. QED
    BY <1>1, <1>2, Parts, PartsNext, Stutters, JobStutter
       DEF Disconnect, roomVars, memberVars, queueVars

LEMMA ConnectInv == ASSUME Inv, NEW u \in Users, Connect(u) PROVE Inv'
  BY ArriveInv, SendMotdInv, JoinInv, LeaveInv, FeedInv, AnnounceInv,
     OpCheckInv, ReadLineInv, DisconnectInv DEF Connect

LEMMA ScreenInv == ASSUME Inv, NEW u \in Users, Screen(u) PROVE Inv'
  <1>1. UsersTypeOK'
    <2>1. CASE Consume(u) \/ WriteFails(u)
      BY <2>1, ReceiveType, Parts
         DEF Screen, Consume, WriteFails, UsersTypeOK
    <2>2. CASE ConsumeStops(u)
      BY <2>2, Parts DEF Screen, ConsumeStops, UsersTypeOK, settingVars
    <2>. QED  BY <2>1, <2>2 DEF Screen
  <1>. QED
    BY <1>1, Parts, PartsNext, Stutters, JobStutter
       DEF Screen, roomVars, memberVars, queueVars

-----------------------------------------------------------------------------
(* The initial states: users are connected and nothing is under way.       *)
LEMMA InitInv == ASSUME Init PROVE Inv
  <1>1. Connected \subseteq Users
    BY HostAssumption DEF Connected
  <1>2. UsersTypeOK
    BY <1>1, HostAssumption, MsgBufferAssumption, EmptySeq
       DEF Init, UsersInit, UsersTypeOK
  <1>3. MembersOK
    BY <1>1, HostAssumption DEF Init, MembersOK
  <1>4. HistoryOK
    <2>1. Joined \in Seq(Msg)
      <3>1. \A i \in DOMAIN Present : Present[i] \in Users
        BY HostAssumption
      <3>2. \A i \in DOMAIN Present : AnnounceMsg(Present[i], 0, 0) \in Msg
        BY <3>1, MessageTypes
      <3>3. Len(Present) \in Nat /\ DOMAIN Present = 1..Len(Present)
        BY HostAssumption, LenProperties
      <3>. QED  BY <3>2, <3>3 DEF Joined
    <2>2. CASE Len(Joined) <= HistoryLen
      BY <2>1, <2>2 DEF Init, LastOf, HistoryOK
    <2>3. CASE ~(Len(Joined) <= HistoryLen)
      <3>. DEFINE a == Len(Joined) - HistoryLen + 1
      <3>1. Len(Joined) \in Nat
        BY <2>1, LenProperties
      <3>2. SubSeq(Joined, a, Len(Joined)) \in Seq(Msg)
            /\ Len(SubSeq(Joined, a, Len(Joined))) = HistoryLen
        BY <2>1, <2>3, <3>1, RoomAssumption, SubSeqProperties
      <3>. QED  BY <2>3, <3>2, RoomAssumption DEF Init, LastOf, HistoryOK
    <2>. QED  BY <2>2, <2>3
  <1>5. QueuesOK
    BY RoomAssumption, EmptySeq DEF Init, QueuesOK
  <1>6. HostOK
    BY HostAssumption, NamesAssumption DEF Init, HostOK, Phases
  <1>7. KeysOK
    BY HostAssumption DEF Init, KeysOK
  <1>8. job \in [Threads -> Job] /\ JobsConsistent
    BY IdleOK DEF Init, JobsConsistent
  <1>. QED
    BY <1>2, <1>3, <1>4, <1>5, <1>6, <1>7, <1>8, Parts

LEMMA NextInv == ASSUME Inv, [Next]_vars PROVE Inv'
  <1>1. CASE Dispatch /\ UNCHANGED <<opKeys, hostVars>>
    BY <1>1, ServeInv, StartTaskInv DEF Dispatch
  <1>2. CASE \E t \in Threads : HandleMsg(t) /\ UNCHANGED <<opKeys, hostVars>>
    BY <1>2, HandleMsgInv
  <1>3. CASE \E u \in Users : RunCommand(u) /\ UNCHANGED hostVars
    BY <1>3, RunCommandInv
  <1>4. CASE \E u \in Users : Connect(u)
    BY <1>4, ConnectInv
  <1>5. CASE \E u \in Users : Screen(u)
    BY <1>5, ScreenInv
  <1>6. CASE UNCHANGED vars
    BY <1>6, Parts, PartsNext, Stutters, UsersStutter, JobStutter
       DEF vars, roomVars, memberVars, queueVars, hostVars
  <1>. QED
    BY <1>1, <1>2, <1>3, <1>4, <1>5, <1>6 DEF Next, Rest

(* Every variable keeps its type and every queue its bound, in every run   *)
(* of the host: no channel overfills, the history keeps historyLen         *)
(* messages at most, and no step works on a user that is not there.        *)
THEOREM TypeCorrect == Spec => []TypeOK
  <1>1. Init => Inv
    BY InitInv
  <1>2. Inv /\ [Next]_vars => Inv'
    BY NextInv
  <1>3. Inv => TypeOK
    BY DEF Inv
  <1>. QED  BY <1>1, <1>2, <1>3, PTL DEF Spec

(* The lock discipline of the registry: while a goroutine is inside        *)
(* Members.Each, every key it has yet to visit stays registered, whatever  *)
(* joins, leaves and renames want to happen; and a handler that acts on a  *)
(* user has one.                                                           *)
THEOREM LockDiscipline == Spec => []JobsConsistent
  <1>1. Init => Inv
    BY InitInv
  <1>2. Inv /\ [Next]_vars => Inv'
    BY NextInv
  <1>3. Inv => JobsConsistent
    BY DEF Inv
  <1>. QED  BY <1>1, <1>2, <1>3, PTL DEF Spec

-----------------------------------------------------------------------------
(* What holds as long as names are used properly.  The registry stays      *)
(* consistent with the names of the users if no line typed is a /rename of *)
(* an operator: then only a user's own goroutine writes its identity and   *)
(* moves its entry.  What is private stays private if, besides, nobody     *)
(* takes the name of another user: HandleMsg returns the message of a      *)
(* muted member to whoever is registered under the author's name, which    *)
(* has to be the author's own.                                             *)
NobodyRenamed == \A u \in Users : \A l \in Lines[u] : l.cmd # "rename"

RenameSteps == {"rename", "setid", "commit", "replace", "revert"}

(* A job that neither is inside a rename nor gets there but by /nick.      *)
Settled(j) ==
    /\ j.step \notin RenameSteps
    /\ j.then # "rename"
    /\ j.line.cmd # "rename"

(* The strengthening: between two lines the job of a user is idle, a       *)
(* rename under way is the user's own, with its registered name at hand,   *)
(* and a name read before the lock is taken is still the user's after.     *)
UserOK(u) ==
    /\ Holds(u) = IF InRoom(u) THEN {Key(RegisteredID(u))} ELSE {}
    /\ job[u].step # "idle" => phase[u] \in {"env", "reading"}
    /\ job[u].line.cmd # "rename"
    /\ job[u].step # "rename"
    /\ job[u].then # "rename"
    /\ job[u].step \in RenameSteps => job[u].who = u
    /\ job[u].step = "setid" => job[u].old = id[u]
    /\ job[u].step = "replace" => job[u].now = id[u]
    /\ phase[u] = "leave" => leaving[u] = id[u]

RegInv == \A u \in Users : UserOK(u)

(* A step that may change what a goroutine does, outside of a rename.      *)
Calm(u) ==
    \/ job'[u] = job[u]
    \/ /\ job[u].step \notin RenameSteps
       /\ Settled(job'[u])
       /\ job'[u].step # "idle" => phase'[u] \in {"env", "reading"}

-----------------------------------------------------------------------------
LEMMA CalmUser ==
    ASSUME NEW u \in Users, UserOK(u), Calm(u),
           UNCHANGED <<members, id>>, InRoom(u)' = InRoom(u),
           phase'[u] = "leave" => leaving'[u] = id[u],
           job'[u] = job[u] /\ job[u].step # "idle" =>
               phase'[u] \in {"env", "reading"}
    PROVE  UserOK(u)'
  <1>1. Holds(u)' = Holds(u)
    BY DEF Holds
  <1>2. RegisteredID(u)' = RegisteredID(u)
    BY DEF RegisteredID, Renaming, Calm, Settled, RenameSteps
  <1>3. Key(RegisteredID(u))' = Key(RegisteredID(u))
    BY <1>2 DEF Key
  <1>. QED
    BY <1>1, <1>3 DEF UserOK, Calm, Settled, RenameSteps

LEMMA CalmStep ==
    ASSUME RegInv, UNCHANGED <<members, id, phase, leaving>>,
           \A u \in Users : Calm(u)
    PROVE  RegInv'
  <1>. SUFFICES ASSUME NEW u \in Users PROVE UserOK(u)'
    BY DEF RegInv
  <1>1. InRoom(u)' = InRoom(u)
    BY DEF InRoom
  <1>. QED  BY <1>1, CalmUser DEF RegInv, UserOK

(* A job outside of a rename moves on without getting into one.            *)
LEMMA MovedCalm ==
    ASSUME NEW u \in Users, UserOK(u), phase'[u] = phase[u],
           job[u].step \notin RenameSteps \cup {"idle"},
           job'[u].step \notin RenameSteps, job'[u].then # "rename",
           job'[u].line = job[u].line
    PROVE  Calm(u)
  BY DEF Calm, Settled, UserOK

(* The ways a handler moves on.                                            *)
LEMMA CalmMoves ==
    ASSUME Inv, RegInv, NEW t \in Threads, UNCHANGED phase,
           t \in Users => job[t].step \notin RenameSteps \cup {"idle"},
           NEW s \in Steps \ RenameSteps, NEW v, NEW out,
           \/ Finish(t) \/ Goto(t, s) \/ Found(t, s, v) \/ Post(t, out)
           \/ PostThen(t, out, v, s)
    PROVE  \A u \in Users : Calm(u)
  <1>. SUFFICES ASSUME NEW u \in Users PROVE Calm(u)
    OBVIOUS
  <1>1. job \in [Threads -> Job] /\ job[t] \in Job /\ u \in Threads
    BY Parts, JobFacts, UserThreads
  <1>2. UserOK(u)
    BY DEF RegInv
  <1>3. CASE u # t
    BY <1>1, <1>3 DEF Calm, Finish, Goto, Found, Post, PostThen
  <1>4. CASE u = t
    <2>1. CASE Finish(t)
      BY <1>1, <1>4, <2>1
         DEF Calm, Settled, Finish, Idle, NoLine, RenameSteps
    <2>2. CASE Goto(t, s) \/ Found(t, s, v)
      <3>1. \/ job'[t] = [job[t] EXCEPT !.step = s]
            \/ job'[t] = [job[t] EXCEPT !.step = s, !.who = v]
        BY <1>1, <2>2 DEF Goto, Found
      <3>2. /\ job'[t].step = s
            /\ job'[t].then = job[t].then /\ job'[t].line = job[t].line
        BY <1>1, <3>1 DEF Job
      <3>3. job[t].then # "rename"
        BY <1>2, <1>4 DEF UserOK
      <3>. QED  BY <1>2, <1>4, <3>2, <3>3, MovedCalm
    <2>3. CASE Post(t, out) \/ PostThen(t, out, v, s)
      <3>1. \/ job'[t] = [job[t] EXCEPT !.step = "out", !.out = out,
                                        !.then = "idle"]
            \/ job'[t] = [job[t] EXCEPT !.step = "out", !.out = out,
                                        !.then = s, !.who = v]
        BY <1>1, <2>3 DEF Post, PostThen
      <3>2. /\ job'[t].step = "out" /\ job'[t].then \in {"idle", s}
            /\ job'[t].line = job[t].line
        BY <1>1, <3>1 DEF Job
      <3>3. job'[t].step \notin RenameSteps /\ job'[t].then # "rename"
        BY <3>2 DEF RenameSteps
      <3>. QED  BY <1>2, <1>4, <3>2, <3>3, MovedCalm
    <2>. QED  BY <2>1, <2>2, <2>3
  <1>. QED  BY <1>3, <1>4

-----------------------------------------------------------------------------
(* Messages: nothing of HandleMsg renames.                                 *)
LEMMA StartTaskCalm ==
    ASSUME Inv, NEW t \in Tasks, NEW m \in ready, StartTask(t, m)
    PROVE  \A u \in Users : Calm(u)
  <1>1. t \notin Users
    BY RoomAssumption
  <1>. QED  BY <1>1, Parts DEF StartTask, Begin, Calm, Threads

LEMMA VisitCalm ==
    ASSUME Inv, RegInv, NEW t \in Threads, NEW k \in job[t].rest, Visit(t, k),
           UNCHANGED phase
    PROVE  \A u \in Users : Calm(u)
  <1>. SUFFICES ASSUME NEW u \in Users PROVE Calm(u)
    OBVIOUS
  <1>1. job \in [Threads -> Job] /\ job[t] \in Job /\ u \in Threads
        /\ job[t].step = "each"
    BY Parts, JobFacts, UserThreads DEF Visit, At
  <1>2. CASE u # t
    BY <1>1, <1>2 DEF Calm, Visit
  <1>3. CASE u = t
    BY <1>1, <1>3 DEF RegInv, UserOK, Calm, Settled, Visit, Job, RenameSteps
  <1>. QED  BY <1>2, <1>3

LEMMA EachCalm ==
    ASSUME Inv, RegInv, NEW t \in Threads, Lock(t) \/ Unblock(t),
           UNCHANGED phase
    PROVE  \A u \in Users : Calm(u)
  <1>. SUFFICES ASSUME NEW u \in Users PROVE Calm(u)
    OBVIOUS
  <1>1. job \in [Threads -> Job] /\ job[t] \in Job /\ u \in Threads
        /\ job[t].step \in {"lock", "each"}
    BY Parts, JobFacts, UserThreads DEF Lock, Unblock, At
  <1>2. CASE u # t
    BY <1>1, <1>2 DEF Calm, Lock, Unblock
  <1>3. CASE u = t
    <2>1. /\ job'[t].step = "each"
          /\ job'[t].then = job[t].then /\ job'[t].line = job[t].line
      <3>. DEFINE rest == {k \in Names : members[k] # NoUser}
      <3>1. CASE Lock(t)
        <4>1. job' = [job EXCEPT ![t] = [job[t] EXCEPT !.step = "each",
                                                       !.rest = rest]]
          BY <1>1, <3>1 DEF Lock, Job
        <4>. QED  BY <1>1, <4>1 DEF Job
      <3>2. CASE Unblock(t)
        BY <1>1, <3>2 DEF Unblock, At, Job
      <3>. QED  BY <3>1, <3>2
    <2>. QED
      BY <1>1, <1>3, <2>1 DEF RegInv, UserOK, Calm, Settled, RenameSteps
  <1>. QED  BY <1>2, <1>3

LEMMA HandleMsgReg ==
    ASSUME Inv, RegInv, NEW t \in Threads, HandleMsg(t),
           UNCHANGED <<opKeys, hostVars>>
    PROVE  RegInv'
  <1>1. UNCHANGED <<members, id, phase, leaving>>
    BY DEF HandleMsg, Lookup, Direct, Deliver, Record, Lock, Visit, Unblock,
           Unlock, memberVars, hostVars, userVars
  <1>2. \A u \in Users : Calm(u)
    <2>1. /\ Branch(job[t].msg) \in Steps \ RenameSteps
          /\ {"send", "lock"} \subseteq Steps \ RenameSteps
      BY DEF Branch, Steps, HandleSteps, CommandSteps, RenameSteps
    <2>2. CASE Lookup(t)
      BY <1>1, <2>1, <2>2, CalmMoves DEF Lookup, At, RenameSteps
    <2>3. CASE Direct(t)
      BY <1>1, <2>1, <2>3, CalmMoves DEF Direct, At, RenameSteps
    <2>4. CASE Deliver(t) \/ Unlock(t)
      BY <1>1, <2>1, <2>4, CalmMoves DEF Deliver, Unlock, At, RenameSteps
    <2>5. CASE Record(t)
      BY <1>1, <2>1, <2>5, CalmMoves DEF Record, At, RenameSteps
    <2>6. CASE Lock(t) \/ Unblock(t)
      BY <1>1, <2>6, EachCalm
    <2>7. CASE \E k \in job[t].rest : Visit(t, k)
      BY <1>1, <2>7, VisitCalm
    <2>. QED  BY <2>2, <2>3, <2>4, <2>5, <2>6, <2>7 DEF HandleMsg
  <1>. QED  BY <1>1, <1>2, CalmStep

-----------------------------------------------------------------------------
(* Commands that do not rename.                                            *)
LEMMA OtherCommandReg ==
    ASSUME Inv, RegInv, NEW u \in Users, UNCHANGED hostVars,
           \/ Bad(u) \/ Info(u) \/ Emote(u) \/ Exit(u)
           \/ ToggleQuiet(u) \/ Ignore(u) \/ Unignore(u)
           \/ PrivateTo(u) \/ ReplyBack(u) \/ SetReplyTo(u)
           \/ Authorize(u) \/ NoTarget(u) \/ Mute(u) \/ SetMute(u)
           \/ Kick(u) \/ CloseTarget(u) \/ Op(u) \/ OpKey(u)
    PROVE  RegInv'
  <1>1. /\ UNCHANGED <<members, id, phase, leaving>> /\ u \in Threads
        /\ job[u].step \notin RenameSteps \cup {"idle"}
    BY UserThreads
       DEF Bad, Info, Emote, Exit, ToggleQuiet, Ignore, Unignore, PrivateTo,
           ReplyBack, SetReplyTo, Authorize, NoTarget, Mute, SetMute, Kick,
           CloseTarget, Op, OpKey, Runs, Acts, At, RenameSteps, hostVars,
           memberVars, userVars
  <1>2. {"idle", "act", "muteOn", "muteOff", "replyTo", "close", "opkey"}
            \subseteq Steps \ RenameSteps
    BY DEF Steps, HandleSteps, CommandSteps, RenameSteps
  <1>3. \E s \in {"idle", "act", "muteOn", "muteOff", "replyTo", "close",
                  "opkey"} : \E v, out :
            \/ Finish(u) \/ Goto(u, s) \/ Found(u, s, v) \/ Post(u, out)
            \/ PostThen(u, out, v, s)
    BY DEF Bad, Info, Emote, Exit, ToggleQuiet, Ignore, Unignore, PrivateTo,
           ReplyBack, SetReplyTo, Authorize, NoTarget, Mute, SetMute, Kick,
           CloseTarget, Op, OpKey, SendPM, Fail
  <1>4. \A v \in Users : Calm(v)
    BY <1>1, <1>2, <1>3, CalmMoves
  <1>. QED  BY <1>1, <1>4, CalmStep

LEMMA SendOutReg ==
    ASSUME Inv, RegInv, NEW u \in Users, UNCHANGED hostVars, SendOut(u)
    PROVE  RegInv'
  <1>1. /\ UNCHANGED <<members, id, phase, leaving>> /\ job[u].step = "out"
        /\ job \in [Threads -> Job] /\ job[u] \in Job /\ JobOK(job[u])
        /\ u \in Threads
    BY Parts, JobFacts, UserThreads
       DEF SendOut, At, memberVars, userVars, hostVars
  <1>2. \A v \in Users : Calm(v)
    <2>. SUFFICES ASSUME NEW v \in Users PROVE Calm(v)
      OBVIOUS
    <2>0. v \in Threads
      BY UserThreads
    <2>1. CASE v # u
      BY <1>1, <2>0, <2>1 DEF Calm, SendOut, Finish
    <2>2. CASE v = u /\ Finish(u)
      BY <1>1, <2>2 DEF Calm, Settled, Finish, Idle, NoLine, RenameSteps
    <2>3. CASE v = u /\ ~Finish(u)
      <3>1. UserOK(u)
        BY DEF RegInv
      <3>2. /\ job'[u].line = job[u].line
            /\ \/ job'[u].step = "out" /\ job'[u].then = job[u].then
               \/ job'[u].step = job[u].then /\ job'[u].then = "idle"
        BY <1>1, <2>3 DEF SendOut, Job
      <3>3. job[u].then \in {"idle", "replyTo", "close"}
        BY <1>1, <3>1 DEF JobOK, UserOK
      <3>. QED
        BY <1>1, <2>3, <3>1, <3>2, <3>3
           DEF Calm, Settled, UserOK, RenameSteps
    <2>. QED  BY <2>1, <2>2, <2>3
  <1>. QED  BY <1>1, <1>2, CalmStep

-----------------------------------------------------------------------------
(* /nick, step by step.                                                    *)
LEMMA OwnEntry ==
    ASSUME Inv, RegInv, NEW u \in Users, InRoom(u), ~Renaming(u)
    PROVE  Get(id[u]) = u
  <1>1. Holds(u) = {Key(id[u])}
    BY DEF RegInv, UserOK, RegisteredID
  <1>. QED  BY <1>1 DEF Holds, Get

LEMMA NickReg ==
    ASSUME Inv, RegInv, NEW u \in Users, UNCHANGED hostVars, Nick(u)
    PROVE  RegInv'
  <1>1. /\ UNCHANGED <<members, id, phase, leaving>> /\ job[u].step = "run"
        /\ job \in [Threads -> Job] /\ job[u] \in Job
        /\ u \in Threads /\ UserOK(u)
    BY Parts, JobFacts, UserThreads
       DEF Nick, Runs, At, memberVars, userVars, hostVars, RegInv
  <1>2. CASE Fail(u)
    <2>1. \A v \in Users : Calm(v)
      BY <1>1, <1>2, CalmMoves
         DEF Fail, RenameSteps, Steps, HandleSteps
    <2>. QED  BY <1>1, <2>1, CalmStep
  <1>3. CASE StartRename(u, Get(id[u]))
    <2>. SUFFICES ASSUME NEW v \in Users PROVE UserOK(v)'
      BY DEF RegInv
    <2>1. InRoom(u) /\ ~Renaming(u)
      BY <1>1 DEF UserOK, InRoom, Renaming, Phases
    <2>2. Get(id[u]) = u
      BY <2>1, OwnEntry
    <2>3. CASE v # u
      <3>1. Calm(v) /\ InRoom(v)' = InRoom(v)
        BY <1>1, <1>3, <2>3, UserThreads DEF Calm, StartRename, InRoom
      <3>. QED  BY <1>1, <3>1, CalmUser DEF RegInv, UserOK
    <2>4. CASE v = u
      <3>1. /\ job'[u].step = "setid" /\ job'[u].who = u
            /\ job'[u].old = id[u]
            /\ job'[u].then = job[u].then /\ job'[u].line = job[u].line
        BY <1>1, <1>3, <2>2 DEF StartRename, Job
      <3>2. /\ Holds(u)' = Holds(u) /\ InRoom(u)' = InRoom(u)
            /\ RegisteredID(u)' = RegisteredID(u)
        BY <1>1, <2>1, <3>1 DEF Holds, InRoom, RegisteredID, Renaming
      <3>. QED
        BY <1>1, <2>4, <3>1, <3>2 DEF UserOK, RenameSteps, Key
    <2>. QED  BY <2>3, <2>4
  <1>. QED  BY <1>2, <1>3 DEF Nick

(* The other steps: u is the only user they change.                        *)
LEMMA OthersReg ==
    ASSUME Inv, RegInv, NEW u \in Users, NEW v \in Users, v # u,
           Holds(v)' = Holds(v), id'[v] = id[v], phase'[v] = phase[v],
           leaving'[v] = leaving[v], job'[v] = job[v]
    PROVE  UserOK(v)'
  <1>1. UserOK(v)
    BY DEF RegInv
  <1>2. InRoom(v)' = InRoom(v) /\ RegisteredID(v)' = RegisteredID(v)
    BY DEF InRoom, RegisteredID, Renaming
  <1>. QED  BY <1>1, <1>2 DEF UserOK, Key

LEMMA SetIDReg ==
    ASSUME Inv, RegInv, NEW u \in Users, UNCHANGED hostVars,
           SetID(u) \/ Revert(u)
    PROVE  RegInv'
  <1>. SUFFICES ASSUME NEW v \in Users PROVE UserOK(v)'
    BY DEF RegInv
  <1>1. /\ UNCHANGED <<members, phase, leaving>>
        /\ job[u].step \in {"setid", "revert"}
        /\ job \in [Threads -> Job] /\ job[u] \in Job
        /\ u \in Threads /\ v \in Threads
        /\ id \in [Users -> Names]
    BY Parts, JobFacts, UserThreads
       DEF SetID, Revert, At, memberVars, hostVars, UsersTypeOK
  <1>2. UserOK(u) /\ job[u].who = u /\ InRoom(u)
    BY <1>1 DEF RegInv, UserOK, RenameSteps, InRoom, Phases
  <1>3. CASE v # u
    <2>1. id'[v] = id[v] /\ job'[v] = job[v] /\ Holds(v)' = Holds(v)
      BY <1>1, <1>2, <1>3 DEF SetID, Revert, Goto, Fail, Finish, Holds
    <2>. QED  BY <1>1, <1>3, <2>1, OthersReg
  <1>4. CASE v = u /\ SetID(u)
    <2>1. /\ job'[u].step = "commit" /\ job'[u].who = job[u].who
          /\ job'[u].old = job[u].old
          /\ job'[u].then = job[u].then /\ job'[u].line = job[u].line
          /\ job[u].step = "setid"
      BY <1>1, <1>4 DEF SetID, Goto, At, Job
    <2>2. Holds(u)' = Holds(u) /\ InRoom(u)' = InRoom(u)
      BY <1>1 DEF Holds, InRoom
    <2>3. RegisteredID(u)' = id[u] /\ RegisteredID(u) = id[u]
      BY <1>1, <1>2, <2>1 DEF RegisteredID, Renaming, UserOK
    <2>. QED
      BY <1>1, <1>2, <1>4, <2>1, <2>2, <2>3 DEF UserOK, RenameSteps, Key
  <1>5. CASE v = u /\ Revert(u)
    <2>1. /\ job'[u] = Idle /\ job[u].step = "revert"
          /\ id'[u] = job[u].old
      BY <1>1, <1>2, <1>5 DEF Revert, Fail, Finish, At
    <2>2. Holds(u)' = Holds(u) /\ InRoom(u)' = InRoom(u)
      BY <1>1 DEF Holds, InRoom
    <2>3. RegisteredID(u)' = job[u].old /\ RegisteredID(u) = job[u].old
      BY <2>1 DEF RegisteredID, Renaming, Idle
    <2>4. phase'[u] # "leave"
      BY <1>1, <1>2 DEF UserOK
    <2>. QED
      BY <1>2, <1>5, <2>1, <2>2, <2>3, <2>4
         DEF UserOK, RenameSteps, Key, Idle, NoLine
  <1>. QED  BY <1>3, <1>4, <1>5

LEMMA RenameReg ==
    ASSUME Inv, RegInv, NEW u \in Users, UNCHANGED hostVars,
           Rename(u) \/ ReplaceMember(u)
    PROVE  RegInv'
  <1>. DEFINE old == job[u].old
              new == id[u]
  <1>. SUFFICES ASSUME NEW v \in Users PROVE UserOK(v)'
    BY DEF RegInv
  <1>1. /\ UNCHANGED <<id, phase, leaving>>
        /\ job[u].step \in {"commit", "replace"}
        /\ job \in [Threads -> Job] /\ job[u] \in Job
        /\ u \in Threads /\ v \in Threads
        /\ new \in Names /\ old \in Names
        /\ members \in [Names -> Users \cup {NoUser}]
    BY Parts, JobFacts, UserThreads
       DEF Rename, ReplaceMember, At, userVars, hostVars, UsersTypeOK,
           MembersOK, Job
  <1>2. /\ UserOK(u) /\ job[u].who = u /\ InRoom(u)
        /\ phase[u] \in {"env", "reading"}
    BY <1>1 DEF RegInv, UserOK, RenameSteps, InRoom, Phases
  <1>3. /\ Holds(u) = {Key(old)} /\ InRoom(u)' = InRoom(u)
        /\ Key(old) \in Names /\ Key(new) \in Names
    BY <1>1, <1>2, GetType DEF UserOK, RegisteredID, Renaming, InRoom
  <1>4. CASE Goto(u, "revert") /\ UNCHANGED members
    <2>1. Holds(v)' = Holds(v)
      BY <1>4 DEF Holds
    <2>2. CASE v # u
      <3>1. job'[v] = job[v]
        BY <1>1, <1>4, <2>2 DEF Goto
      <3>. QED  BY <1>1, <2>1, <2>2, <3>1, OthersReg
    <2>3. CASE v = u
      <3>1. /\ job'[u].step = "revert" /\ job'[u].who = job[u].who
            /\ job'[u].old = job[u].old
            /\ job'[u].then = job[u].then /\ job'[u].line = job[u].line
        BY <1>1, <1>4 DEF Goto, Job
      <3>2. RegisteredID(u)' = old
        BY <3>1 DEF RegisteredID, Renaming
      <3>. QED
        BY <1>1, <1>2, <1>3, <2>1, <2>3, <3>1, <3>2
           DEF UserOK, RenameSteps, Key
    <2>. QED  BY <2>2, <2>3
  <1>6. CASE Rename(u) /\ ~Goto(u, "revert")
    <2>1. UNCHANGED members /\ Holds(v)' = Holds(v)
      BY <1>6 DEF Rename, memberVars, Holds
    <2>2. job' = [job EXCEPT ![u] = [job[u] EXCEPT !.step = "replace",
                                                   !.now = new]]
      BY <1>1, <1>2, <1>6 DEF Rename
    <2>3. CASE v # u
      <3>1. job'[v] = job[v]
        BY <1>1, <2>2, <2>3
      <3>. QED  BY <1>1, <2>1, <2>3, <3>1, OthersReg
    <2>4. CASE v = u
      <3>1. /\ job'[u].step = "replace" /\ job'[u].who = job[u].who
            /\ job'[u].old = job[u].old /\ job'[u].now = new
            /\ job'[u].then = job[u].then /\ job'[u].line = job[u].line
        BY <1>1, <2>2 DEF Job
      <3>2. RegisteredID(u)' = old
        BY <3>1 DEF RegisteredID, Renaming
      <3>. QED
        BY <1>1, <1>2, <1>3, <2>1, <2>4, <3>1, <3>2
           DEF UserOK, RenameSteps, Key
    <2>. QED  BY <2>3, <2>4
  <1>5. CASE /\ CanReplace(old, new) /\ members' = Replaced(old, new, u)
             /\ Post(u, Renames(u))
    <2>1. /\ members[Key(old)] = u
          /\ members[Key(new)] \in {u, NoUser}
      BY <1>3, <1>5 DEF Holds, CanReplace, Get
    <2>2. members' = [members EXCEPT ![Key(old)] = NoUser, ![Key(new)] = u]
      BY <1>5 DEF Replaced
    <2>3. \A n \in Names :
              members'[n] = IF n = Key(new) THEN u
                            ELSE IF n = Key(old) THEN NoUser ELSE members[n]
      BY <1>1, <1>3, <2>2
    <2>4. CASE v # u
      <3>1. job'[v] = job[v]
        BY <1>1, <1>5, <2>4 DEF Post
      <3>2. Holds(v)' = Holds(v)
        BY <2>1, <2>3, <2>4, NamesAssumption DEF Holds
      <3>. QED  BY <1>1, <2>4, <3>1, <3>2, OthersReg
    <2>5. CASE v = u
      <3>1. /\ job'[u].step = "out" /\ job'[u].then = "idle"
            /\ job'[u].line = job[u].line
        BY <1>1, <1>5 DEF Post, Job
      <3>2. Holds(u)' = {Key(new)}
        BY <1>3, <2>3, NamesAssumption DEF Holds
      <3>3. RegisteredID(u)' = new
        BY <1>1, <3>1 DEF RegisteredID, Renaming
      <3>. QED
        BY <1>1, <1>2, <1>3, <2>5, <3>1, <3>2, <3>3
           DEF UserOK, RenameSteps, Key
    <2>. QED  BY <2>4, <2>5
  <1>7. ReplaceMember(u) => job[u].now = new
    BY <1>2 DEF UserOK, ReplaceMember, At
  <1>8. Rename(u) => UNCHANGED members
    BY DEF Rename, memberVars
  <1>. QED  BY <1>2, <1>4, <1>5, <1>6, <1>7, <1>8 DEF ReplaceMember

LEMMA RunCommandReg ==
    ASSUME Inv, RegInv, NEW u \in Users, RunCommand(u), UNCHANGED hostVars
    PROVE  RegInv'
  <1>1. ~OpRename(u) /\ ~OpRenameTarget(u)
    BY DEF RegInv, UserOK, OpRename, OpRenameTarget, Acts, At
  <1>. QED
    BY <1>1, OtherCommandReg, SendOutReg, NickReg, SetIDReg, RenameReg
       DEF RunCommand

-----------------------------------------------------------------------------
(* Connect.                                                                *)
LEMMA JoinReg ==
    ASSUME Inv, RegInv, NEW u \in Users, Join(u)
    PROVE  RegInv'
  <1>. SUFFICES ASSUME NEW v \in Users PROVE UserOK(v)'
    BY DEF RegInv
  <1>1. /\ UNCHANGED <<job, leaving>> /\ phase[u] \in {"join", "rejoin"}
        /\ id \in [Users -> Names] /\ phase \in [Users -> Phases]
        /\ members \in [Names -> Users \cup {NoUser}]
        /\ phase'[u] \in {"history", "rejoin", "bye"}
        /\ v # u => phase'[v] = phase[v]
    BY Parts DEF Join, In, Enter, UsersTypeOK, MembersOK, HostOK
  <1>2. UserOK(u) /\ Holds(u) = {} /\ job[u].step = "idle"
    BY <1>1 DEF RegInv, UserOK, InRoom, Phases
  <1>3. CASE JoinFails(u)
    <2>1. /\ UNCHANGED members /\ Holds(v)' = Holds(v)
          /\ phase'[u] \in {"rejoin", "bye"}
          /\ v # u => id'[v] = id[v]
      BY <1>1, <1>3 DEF Join, Enter, Holds
    <2>2. CASE v # u
      BY <1>1, <2>1, <2>2, OthersReg
    <2>3. CASE v = u
      BY <1>1, <1>2, <2>1, <2>3 DEF UserOK, InRoom, RenameSteps
    <2>. QED  BY <2>2, <2>3
  <1>4. CASE ~JoinFails(u)
    <2>. DEFINE k == Key(id[u])
    <2>1. /\ k \in Names /\ members[k] = NoUser
          /\ members' = [members EXCEPT ![k] = u]
          /\ UNCHANGED id /\ phase'[u] = "history"
      BY <1>1, <1>4, GetType
         DEF Join, JoinFails, CanAdd, Added, Get, Enter
    <2>2. CASE v # u
      <3>1. Holds(v)' = Holds(v)
        BY <1>1, <2>1, <2>2, NamesAssumption DEF Holds
      <3>. QED  BY <1>1, <2>1, <2>2, <3>1, OthersReg
    <2>3. CASE v = u
      <3>1. Holds(u)' = {k}
        BY <1>1, <1>2, <2>1 DEF Holds
      <3>2. InRoom(u)' /\ RegisteredID(u)' = id[u]
        BY <1>1, <1>2, <2>1 DEF InRoom, Phases, RegisteredID, Renaming
      <3>. QED
        BY <1>1, <1>2, <2>1, <2>3, <3>1, <3>2 DEF UserOK, RenameSteps, Key
    <2>. QED  BY <2>2, <2>3
  <1>. QED  BY <1>3, <1>4

LEMMA LeaveReg ==
    ASSUME Inv, RegInv, NEW u \in Users, Leave(u)
    PROVE  RegInv'
  <1>. DEFINE k == Key(id[u])
  <1>. SUFFICES ASSUME NEW v \in Users PROVE UserOK(v)'
    BY DEF RegInv
  <1>1. /\ UNCHANGED <<job, id>> /\ phase[u] = "leave"
        /\ id \in [Users -> Names] /\ phase \in [Users -> Phases]
        /\ members \in [Names -> Users \cup {NoUser}]
        /\ phase'[u] \in {"bye", "left"}
        /\ v # u => phase'[v] = phase[v] /\ leaving'[v] = leaving[v]
    BY Parts DEF Leave, In, Enter, UsersTypeOK, MembersOK, HostOK, userVars
  <1>2. /\ UserOK(u) /\ InRoom(u) /\ job[u].step = "idle"
        /\ leaving[u] = id[u]
    BY <1>1 DEF RegInv, UserOK, InRoom, Phases
  <1>3. Holds(u) = {k} /\ k \in Names
    BY <1>1, <1>2, GetType DEF UserOK, RegisteredID, Renaming
  <1>4. members[k] = u /\ members' = [members EXCEPT ![k] = NoUser]
    BY <1>2, <1>3 DEF Holds, Leave, Removed
  <1>5. CASE v # u
    <2>1. Holds(v)' = Holds(v)
      BY <1>1, <1>3, <1>4, <1>5, NamesAssumption DEF Holds
    <2>. QED  BY <1>1, <1>5, <2>1, OthersReg
  <1>6. CASE v = u
    <2>1. Holds(u)' = {}
      BY <1>1, <1>3, <1>4, NamesAssumption DEF Holds
    <2>. QED
      BY <1>1, <1>2, <1>6, <2>1 DEF UserOK, InRoom, RenameSteps
  <1>. QED  BY <1>5, <1>6

(* Elsewhere Connect moves on without changing who is in the room.         *)
LEMMA MoveReg ==
    ASSUME Inv, RegInv, NEW u \in Users,
           \/ Arrive(u) \/ SendMotd(u) \/ GetHistory(u) \/ Feed(u)
           \/ AnnounceJoin(u) \/ CheckOp(u) \/ GrantOp(u)
           \/ EndOfInput(u) \/ AnnounceLeave(u) \/ Disconnect(u)
    PROVE  RegInv'
  <1>. SUFFICES ASSUME NEW v \in Users PROVE UserOK(v)'
    BY DEF RegInv
  <1>1. /\ UNCHANGED <<members, id, job>>
        /\ \E p \in Phases : phase' = [phase EXCEPT ![u] = p]
        /\ phase \in [Users -> Phases]
    BY Parts
       DEF Arrive, SendMotd, GetHistory, Feed, AnnounceJoin, CheckOp, GrantOp,
           EndOfInput, AnnounceLeave, Disconnect, Enter, Phases, HostOK,
           roomVars, memberVars, userVars
  <1>2. InRoom(u)' = InRoom(u)
    BY <1>1
       DEF Arrive, SendMotd, GetHistory, Feed, AnnounceJoin, CheckOp, GrantOp,
           EndOfInput, AnnounceLeave, Disconnect, Enter, In, InRoom, Phases
  <1>3. job[u].step = "idle"
    BY <1>1
       DEF Arrive, SendMotd, GetHistory, Feed, AnnounceJoin, CheckOp, GrantOp,
           EndOfInput, AnnounceLeave, Disconnect, At, In, RegInv, UserOK
  <1>4. Holds(v)' = Holds(v)
    BY <1>1 DEF Holds
  <1>7. /\ v # u => leaving'[v] = leaving[v]
        /\ phase'[u] = "leave" => leaving'[u] = id[u]
    <2>1. CASE EndOfInput(u)
      BY <2>1, Parts DEF EndOfInput, HostOK
    <2>2. CASE UNCHANGED leaving /\ phase'[u] # "leave"
      BY <2>2
    <2>. QED
      BY <1>1, <2>1, <2>2
         DEF Arrive, SendMotd, GetHistory, Feed, AnnounceJoin, CheckOp,
             GrantOp, AnnounceLeave, Disconnect, Enter, In
  <1>5. CASE v # u
    BY <1>1, <1>4, <1>5, <1>7, OthersReg
  <1>6. CASE v = u
    BY <1>1, <1>2, <1>3, <1>6, <1>7, CalmUser DEF RegInv, Calm
  <1>. QED  BY <1>5, <1>6

LEMMA BegunJob ==
    ASSUME Inv, NEW t \in Threads, NEW m, NEW l, Begin(t, m, l)
    PROVE  /\ job'[t].line = l
           /\ job'[t].then = "idle"
           /\ job'[t].step \notin RenameSteps
  <1>. DEFINE s == IF FromID(m) = NoName THEN Branch(m) ELSE "lookup"
              j == [Idle EXCEPT !.msg = m, !.line = l, !.from = FromID(m),
                                !.step = s]
  <1>1. s \notin RenameSteps
    BY DEF Branch, RenameSteps
  <1>. HIDE DEF s
  <1>2. j.line = l /\ j.then = "idle" /\ j.step = s
    BY DEF Idle
  <1>3. job'[t] = j
    BY Parts DEF Begin, s
  <1>. QED  BY <1>1, <1>2, <1>3

LEMMA RunEnvReg ==
    ASSUME Inv, RegInv, NEW u \in Users, RunEnv(u)
    PROVE  RegInv'
  <1>. SUFFICES ASSUME NEW v \in Users PROVE UserOK(v)'
    BY DEF RegInv
  <1>1. /\ UNCHANGED <<members, id, leaving>> /\ phase[u] = "env"
        /\ job \in [Threads -> Job] /\ u \in Threads /\ v \in Threads
        /\ \/ UNCHANGED phase
           \/ phase' = [phase EXCEPT ![u] = "checkop"] /\ UNCHANGED job
        /\ phase \in [Users -> Phases]
    BY Parts, UserThreads
       DEF RunEnv, In, Enter, HostOK, memberVars, userVars
  <1>2. UserOK(u) /\ job[u].step = "idle" /\ InRoom(u)' = InRoom(u)
    BY <1>1 DEF RegInv, UserOK, InRoom, Phases, RunEnv, At
  <1>3. Holds(v)' = Holds(v)
    BY <1>1 DEF Holds
  <1>4. CASE v # u
    <2>1. job'[v] = job[v]
      BY <1>1, <1>4 DEF RunEnv, Begin
    <2>. QED  BY <1>1, <1>3, <1>4, <2>1, OthersReg
  <1>5. CASE v = u
    <2>1. CASE UNCHANGED job
      <3>1. Calm(u)
        BY <2>1 DEF Calm
      <3>. QED  BY <1>1, <1>2, <1>5, <2>1, <3>1, CalmUser
    <2>2. CASE ~UNCHANGED job
      <3>1. PICK c \in {"info", "bad"} :
                Begin(u, CommandMsg(u, typed[u] + 1),
                      [NoLine EXCEPT !.cmd = c])
        BY <2>2 DEF RunEnv
      <3>2. [NoLine EXCEPT !.cmd = c].cmd # "rename"
        BY DEF NoLine
      <3>4. /\ job'[u].line = [NoLine EXCEPT !.cmd = c]
            /\ job'[u].then = "idle" /\ job'[u].step \notin RenameSteps
        BY <1>1, <3>1, BegunJob
      <3>5. Settled(job'[u])
        BY <3>2, <3>4 DEF Settled
      <3>6. phase'[u] = "env"
        BY <1>1, <2>2
      <3>7. job[u].step \notin RenameSteps
        BY <1>2 DEF RenameSteps
      <3>8. Calm(u)
        BY <3>5, <3>6, <3>7 DEF Calm
      <3>. QED  BY <1>1, <1>2, <1>5, <3>6, <3>8, CalmUser
    <2>. QED  BY <2>1, <2>2
  <1>. QED  BY <1>4, <1>5

LEMMA ReadLineReg ==
    ASSUME Inv, RegInv, NobodyRenamed, NEW u \in Users, NEW l \in Lines[u],
           ReadLine(u, l)
    PROVE  RegInv'
  <1>1. /\ UNCHANGED <<members, id, phase, leaving>> /\ phase[u] = "reading"
        /\ job \in [Threads -> Job] /\ job[u].step = "idle"
        /\ l.cmd # "rename"
    BY Parts DEF ReadLine, In, At, memberVars, NobodyRenamed
  <1>2. ASSUME NEW v \in Users
        PROVE  Calm(v)
    <2>1. CASE v # u
      BY <1>1, <2>1, UserThreads DEF ReadLine, Begin, Calm
    <2>2. CASE v = u
      <3>. DEFINE j == [Idle EXCEPT !.step = "send",
                            !.msg = SystemMsg(u, u, typed[u] + 1, 0),
                            !.who = u]
      <3>1. CASE \E m : Begin(u, m, l)
        BY <1>1, <2>2, <3>1, BegunJob, UserThreads
           DEF Calm, Settled, RenameSteps
      <3>2. CASE job' = [job EXCEPT ![u] = j]
        <4>1. j.step = "send" /\ j.then = "idle" /\ j.line = NoLine
          BY DEF Idle
        <4>2. job'[u] = j
          BY <1>1, <3>2, UserThreads
        <4>. QED
          BY <1>1, <2>2, <4>1, <4>2 DEF Calm, Settled, NoLine, RenameSteps
      <3>. QED  BY <3>1, <3>2 DEF ReadLine
    <2>. QED  BY <2>1, <2>2
  <1>. QED  BY <1>1, <1>2, CalmStep

-----------------------------------------------------------------------------
LEMMA InitReg == ASSUME Init PROVE RegInv
  <1>. SUFFICES ASSUME NEW u \in Users PROVE UserOK(u)
    BY DEF RegInv
  <1>1. Connected \subseteq Users /\ u \in Threads
    BY HostAssumption, UserThreads DEF Connected
  <1>2. /\ job[u] = Idle /\ (InRoom(u) <=> u \in Connected)
        /\ phase[u] # "leave"
    BY <1>1 DEF Init, InRoom, Phases
  <1>3. RegisteredID(u) = Dial[u] /\ Key(Dial[u]) \in Names
    BY <1>2, HostAssumption, NamesAssumption
       DEF Init, UsersInit, RegisteredID, Renaming, Idle, Key
  <1>4. \A n \in Names :
            members[n] = u <=> u \in Connected /\ Key(Dial[u]) = n
    <2>. TAKE n \in Names
    <2>. DEFINE P(w) == w \in Connected /\ Key(Dial[w]) = n
    <2>1. CASE \E w : P(w)
      <3>1. P(CHOOSE w : P(w))
        BY <2>1
      <3>2. members[n] = CHOOSE w \in Connected : Key(Dial[w]) = n
        BY <2>1 DEF Init
      <3>3. \A w, x \in Connected :
                Key(Dial[w]) = n /\ Key(Dial[x]) = n => w = x
        BY HostAssumption
      <3>. QED  BY <3>2, <3>3, <2>1
    <2>2. CASE ~\E w : P(w)
      BY <2>2, NamesAssumption DEF Init
    <2>. QED  BY <2>1, <2>2
  <1>. QED
    BY <1>2, <1>3, <1>4
       DEF UserOK, Holds, Idle, NoLine, RenameSteps

LEMMA NextReg == ASSUME Inv, RegInv, NobodyRenamed, [Next]_vars PROVE RegInv'
  <1>1. CASE Dispatch /\ UNCHANGED <<opKeys, hostVars>>
    <2>1. UNCHANGED <<members, id, phase, leaving>>
      BY <1>1 DEF Dispatch, Serve, StartTask, memberVars, userVars, hostVars
    <2>2. \A u \in Users : Calm(u)
      BY <1>1, StartTaskCalm DEF Dispatch, Serve, Calm
    <2>. QED  BY <2>1, <2>2, CalmStep
  <1>2. CASE \E t \in Threads : HandleMsg(t) /\ UNCHANGED <<opKeys, hostVars>>
    BY <1>2, HandleMsgReg
  <1>3. CASE \E u \in Users : RunCommand(u) /\ UNCHANGED hostVars
    BY <1>3, RunCommandReg
  <1>4. CASE \E u \in Users : Connect(u)
    BY <1>4, JoinReg, LeaveReg, MoveReg, RunEnvReg, ReadLineReg DEF Connect
  <1>5. CASE \E u \in Users : Screen(u)
    <2>1. UNCHANGED <<members, id, phase, leaving, job>>
      BY <1>5 DEF Screen, roomVars, memberVars, hostVars
    <2>. QED  BY <2>1, CalmStep DEF Calm
  <1>6. CASE UNCHANGED vars
    <2>1. UNCHANGED <<members, id, phase, leaving, job>>
      BY <1>6 DEF vars, roomVars, memberVars, userVars, hostVars
    <2>. QED  BY <2>1, CalmStep DEF Calm
  <1>. QED
    BY <1>1, <1>2, <1>3, <1>4, <1>5, <1>6 DEF Next, Rest

(* Room.Join, Room.Leave and /nick keep the registry and the identities    *)
(* together: whatever overlaps, a user in the room holds exactly one name  *)
(* of the registry, its own, and a user outside holds none.  It takes that *)
(* no client types /rename as an operator (host.go), where the goroutine   *)
(* of another user writes the identity.                                    *)
THEOREM RegistryTheorem ==
    ASSUME NobodyRenamed
    PROVE  Spec => []RegistryConsistent
  <1>1. Init => Inv /\ RegInv
    BY InitInv, InitReg
  <1>2. Inv /\ RegInv /\ [Next]_vars => Inv' /\ RegInv'
    BY NextInv, NextReg
  <1>3. RegInv => RegistryConsistent
    BY DEF RegInv, UserOK, RegistryConsistent
  <1>. QED  BY <1>1, <1>2, <1>3, PTL DEF Spec

-----------------------------------------------------------------------------
(* Privacy.                                                                *)
(* The names a user may come under.                                        *)
NamesOf(u) ==
    {Dial[u], Guest[u]} \cup {l.new : l \in {x \in Lines[u] : x.cmd = "nick"}}

NobodyTakesNames ==
    \A u, v \in Users : u # v =>
        \A n \in NamesOf(u), o \in NamesOf(v) : Key(n) = Key(o) => n = NoName

(* The users that may be sent a message.                                   *)
MaySee(u, m) ==
    /\ m.kind = "system" => u = m.to
    /\ m.kind = "private" => u \in {m.by, m.to}

(* A message is looked up, sent and shown to all under these conditions:   *)
(* its name is one of the author's, the receiver may see it, and nothing   *)
(* that is meant for one user is recorded for the others.                  *)
MsgOK(j) ==
    /\ j.step # "idle" /\ j.from # NoName =>
           HasFrom(j.msg) /\ j.from \in NamesOf(j.msg.by)
    /\ j.step = "lookup" => j.from # NoName
    /\ j.step = "send" => MaySee(j.who, j.msg)
    /\ j.step \in {"record", "lock", "each"} => ~HasTo(j.msg)

(* A rename of a user goes from one of its names to another.               *)
NameOK(u, j) ==
    /\ j.line.cmd = "nick" => j.line.new \in NamesOf(u)
    /\ j.step \in RenameSteps =>
           j.old \in NamesOf(u) /\ j.line.new \in NamesOf(u)

JobsPrivate == /\ \A t \in Threads : MsgOK(job[t])
               /\ \A u \in Users : NameOK(u, job[u])
IDsOwn == \A u \in Users : id[u] \in NamesOf(u)
HistoryOpen == \A i \in DOMAIN history : ~HasTo(history[i])
FeedsOpen == \A u \in Users : \A i \in DOMAIN feed[u] : ~HasTo(feed[u][i])

PrivInv == /\ JobsPrivate /\ IDsOwn /\ HistoryOpen /\ FeedsOpen
           /\ PrivateStaysPrivate

-----------------------------------------------------------------------------
(* Sequences: what is in one after an element came or went.                *)
LEMMA AppendHas ==
    ASSUME NEW s \in Seq(Msg), NEW m \in Msg, NEW i \in DOMAIN Append(s, m)
    PROVE  \/ i \in DOMAIN s /\ Append(s, m)[i] = s[i]
           \/ Append(s, m)[i] = m
  OBVIOUS

LEMMA TailHas ==
    ASSUME NEW s \in Seq(Msg), s # <<>>, NEW i \in DOMAIN Tail(s)
    PROVE  i + 1 \in DOMAIN s /\ Tail(s)[i] = s[i + 1]
  OBVIOUS

LEMMA OpenToAll ==
    ASSUME NEW m, ~HasTo(m), NEW u
    PROVE  MaySee(u, m)
  BY DEF HasTo, MaySee

LEMMA InboxFacts ==
    PrivateStaysPrivate <=>
        \A u \in Users : \A i \in DOMAIN inbox[u] : MaySee(u, inbox[u][i])
  BY DEF PrivateStaysPrivate, MaySee

LEMMA InboxFactsNext ==
    ASSUME \A u \in Users : \A i \in DOMAIN inbox'[u] : MaySee(u, inbox'[u][i])
    PROVE  PrivateStaysPrivate'
  BY DEF PrivateStaysPrivate, MaySee

(* Whatever becomes of a send, nobody gets what is not for it.             *)
LEMMA SendPrivate ==
    ASSUME Inv, PrivateStaysPrivate, NEW u \in Users, NEW m \in Msg,
           SendTo(u, m), MaySee(u, m)
    PROVE  PrivateStaysPrivate'
  <1>1. CASE UNCHANGED inbox
    BY <1>1 DEF PrivateStaysPrivate
  <1>2. CASE inbox' = [inbox EXCEPT ![u] = Append(@, m)]
    <2>. SUFFICES ASSUME NEW v \in Users, NEW i \in DOMAIN inbox'[v]
                  PROVE  MaySee(v, inbox'[v][i])
      BY InboxFactsNext
    <2>1. inbox \in [Users -> Seq(Msg)]
      BY Parts DEF UsersTypeOK
    <2>2. CASE v # u
      BY <1>2, <2>1, <2>2, InboxFacts
    <2>3. CASE v = u
      <3>1. inbox'[u] = Append(inbox[u], m) /\ inbox[u] \in Seq(Msg)
        BY <1>2, <2>1
      <3>. QED  BY <2>3, <3>1, AppendHas, InboxFacts
    <2>. QED  BY <2>2, <2>3
  <1>. QED
    BY <1>1, <1>2 DEF SendTo, SendNow, Enqueue, Refuse, TimeOut, Close, pipeVars

LEMMA ReceivePrivate ==
    ASSUME Inv, PrivateStaysPrivate, NEW u \in Users, Receive(u)
    PROVE  PrivateStaysPrivate'
  <1>. SUFFICES ASSUME NEW v \in Users, NEW i \in DOMAIN inbox'[v]
                PROVE  MaySee(v, inbox'[v][i])
    BY InboxFactsNext
  <1>1. inbox \in [Users -> Seq(Msg)]
    BY Parts DEF UsersTypeOK
  <1>2. CASE v # u
    BY <1>1, <1>2, InboxFacts DEF Receive
  <1>3. CASE v = u
    <2>1. inbox'[u] = Tail(inbox[u]) /\ inbox[u] \in Seq(Msg) /\ inbox[u] # <<>>
      BY <1>1 DEF Receive
    <2>. QED  BY <1>3, <2>1, TailHas, InboxFacts
  <1>. QED  BY <1>2, <1>3

-----------------------------------------------------------------------------
(* Jobs: one goroutine moves at a time.                                    *)
LEMMA OneMoves ==
    ASSUME JobsPrivate, NEW t \in Threads,
           \A s \in Threads \ {t} : job'[s] = job[s],
           MsgOK(job'[t]), t \in Users => NameOK(t, job'[t])
    PROVE  JobsPrivate'
  <1>1. \A s \in Threads : MsgOK(job'[s])
    BY DEF JobsPrivate
  <1>2. \A u \in Users : NameOK(u, job'[u])
    BY UserThreads DEF JobsPrivate
  <1>. QED  BY <1>1, <1>2 DEF JobsPrivate, MsgOK, NameOK

(* A handler goes on with the message it has.                              *)
LEMMA GoesOn ==
    ASSUME JobsPrivate, NEW t \in Threads, job[t].step # "idle",
           \A s \in Threads \ {t} : job'[s] = job[s],
           job'[t].msg = job[t].msg, job'[t].from = job[t].from,
           job'[t].line = job[t].line, job'[t].step # "lookup",
           job'[t].step = "send" => MaySee(job'[t].who, job[t].msg),
           job'[t].step \in {"record", "lock", "each"} => ~HasTo(job[t].msg),
           t \in Users /\ job'[t].step \in RenameSteps =>
               job'[t].old \in NamesOf(t) /\ job[t].line.new \in NamesOf(t)
    PROVE  JobsPrivate'
  <1>1. MsgOK(job'[t])
    BY DEF JobsPrivate, MsgOK
  <1>2. t \in Users => NameOK(t, job'[t])
    BY DEF JobsPrivate, NameOK
  <1>. QED  BY <1>1, <1>2, OneMoves

LEMMA IdlePrivate == MsgOK(Idle) /\ \A u : NameOK(u, Idle)
  BY DEF MsgOK, NameOK, Idle, NoLine, RenameSteps

LEMMA EndsPrivate ==
    ASSUME Inv, JobsPrivate, NEW t \in Threads, Finish(t)
    PROVE  JobsPrivate'
  <1>1. job'[t] = Idle /\ \A s \in Threads \ {t} : job'[s] = job[s]
    BY Parts DEF Finish
  <1>. QED  BY <1>1, IdlePrivate, OneMoves

(* The ways a handler moves on.                                            *)
LEMMA MovesPrivate ==
    ASSUME Inv, JobsPrivate, NEW t \in Threads, job[t].step # "idle",
           NEW s, s \notin RenameSteps \cup {"lookup"}, NEW v, NEW out,
           s = "send" => MaySee(v, job[t].msg),
           s \in {"record", "lock", "each"} => ~HasTo(job[t].msg),
           \/ Finish(t) \/ (Goto(t, s) /\ s # "send") \/ Found(t, s, v)
           \/ Post(t, out) \/ PostThen(t, out, v, s)
    PROVE  JobsPrivate'
  <1>0. job \in [Threads -> Job] /\ job[t] \in Job
    BY Parts, JobFacts
  <1>1. CASE Finish(t)
    BY <1>1, EndsPrivate
  <1>2. CASE Goto(t, s) /\ s # "send"
    <2>1. job'[t] = [job[t] EXCEPT !.step = s]
          /\ \A x \in Threads \ {t} : job'[x] = job[x]
      BY <1>0, <1>2 DEF Goto
    <2>. QED  BY <1>0, <1>2, <2>1, GoesOn DEF Job
  <1>3. CASE Found(t, s, v)
    <2>1. job'[t] = [job[t] EXCEPT !.step = s, !.who = v]
          /\ \A x \in Threads \ {t} : job'[x] = job[x]
      BY <1>0, <1>3 DEF Found, Job
    <2>. QED  BY <1>0, <2>1, GoesOn DEF Job
  <1>4. CASE Post(t, out)
    <2>1. job'[t] = [job[t] EXCEPT !.step = "out", !.out = out,
                                   !.then = "idle"]
          /\ \A x \in Threads \ {t} : job'[x] = job[x]
      BY <1>0, <1>4 DEF Post
    <2>. QED  BY <1>0, <2>1, GoesOn DEF Job, RenameSteps
  <1>5. CASE PostThen(t, out, v, s)
    <2>1. job'[t] = [job[t] EXCEPT !.step = "out", !.out = out,
                                   !.then = s, !.who = v]
          /\ \A x \in Threads \ {t} : job'[x] = job[x]
      BY <1>0, <1>5 DEF PostThen
    <2>. QED  BY <1>0, <2>1, GoesOn DEF Job, RenameSteps
  <1>. QED  BY <1>1, <1>2, <1>3, <1>4, <1>5

(* HandleMsg begins on a message under the name its author has.            *)
LEMMA BeginPrivate ==
    ASSUME Inv, JobsPrivate, IDsOwn, NEW t \in Threads, NEW m \in Msg,
           NEW l \in Line, Begin(t, m, l),
           t \in Users /\ l.cmd = "nick" => l.new \in NamesOf(t)
    PROVE  JobsPrivate'
  <1>. DEFINE s == IF FromID(m) = NoName THEN Branch(m) ELSE "lookup"
              j == [Idle EXCEPT !.msg = m, !.line = l, !.from = FromID(m),
                                !.step = s]
  <1>1. job'[t] = j /\ \A x \in Threads \ {t} : job'[x] = job[x]
    BY Parts DEF Begin
  <1>2. /\ FromID(m) # NoName => HasFrom(m) /\ FromID(m) \in NamesOf(m.by)
        /\ s = "lookup" => FromID(m) # NoName
        /\ s \notin RenameSteps \cup {"send"}
        /\ s \in {"record", "lock", "each"} => ~HasTo(m)
    BY MessageFields DEF FromID, IDsOwn, Branch, RenameSteps
  <1>. HIDE DEF s
  <1>3. j.msg = m /\ j.line = l /\ j.from = FromID(m) /\ j.step = s
    BY DEF Idle
  <1>. HIDE DEF j
  <1>4. MsgOK(j)
    BY <1>2, <1>3 DEF MsgOK
  <1>5. t \in Users => NameOK(t, j)
    BY <1>2, <1>3 DEF NameOK
  <1>. QED  BY <1>1, <1>4, <1>5, OneMoves

-----------------------------------------------------------------------------
(* HandleMsg.  The member registered under one of the author's names is    *)
(* the author.                                                             *)
LEMMA LookupFinds ==
    ASSUME Inv, RegInv, PrivInv, NobodyTakesNames, NEW t \in Threads,
           job[t].step = "lookup", NEW w \in Users, Get(job[t].from) = w
    PROVE  w = job[t].msg.by
  <1>. DEFINE n == job[t].from
              by == job[t].msg.by
              r == RegisteredID(w)
  <1>1. job[t] \in Job /\ job[t].msg \in Msg /\ by \in Users /\ n \in Names
    BY JobFacts, MessageFields DEF Job
  <1>2. n # NoName /\ n \in NamesOf(by)
    BY DEF PrivInv, JobsPrivate, MsgOK
  <1>3. Key(n) \in Holds(w)
    BY <1>1, GetType DEF Holds, Get
  <1>4. Key(n) = Key(r)
    BY <1>3 DEF RegInv, UserOK
  <1>5. r \in NamesOf(w)
    BY DEF RegisteredID, Renaming, PrivInv, JobsPrivate, NameOK, IDsOwn,
           RenameSteps
  <1>. QED  BY <1>1, <1>2, <1>4, <1>5 DEF NobodyTakesNames

LEMMA LookupPrivate ==
    ASSUME Inv, RegInv, PrivInv, NobodyTakesNames, NEW t \in Threads, Lookup(t)
    PROVE  JobsPrivate'
  <1>. DEFINE m == job[t].msg
              w == Get(job[t].from)
  <1>1. job[t].step = "lookup" /\ JobsPrivate
    BY DEF Lookup, At, PrivInv
  <1>2. /\ Branch(m) \notin RenameSteps \cup {"lookup", "send"}
        /\ Branch(m) \in {"record", "lock", "each"} => ~HasTo(m)
    BY DEF Branch, RenameSteps
  <1>3. CASE Finish(t)
    BY <1>1, <1>3, EndsPrivate
  <1>4. CASE Goto(t, Branch(m))
    BY <1>1, <1>2, <1>4, MovesPrivate
  <1>5. CASE w \in muted /\ Found(t, "send", w)
    <2>1. w \in Users
      BY <1>5, Parts DEF MembersOK
    <2>2. MaySee(w, m)
      <3>1. w = m.by
        BY <1>1, <2>1, LookupFinds
      <3>2. HasFrom(m)
        BY <1>1 DEF JobsPrivate, MsgOK
      <3>. QED  BY <3>1, <3>2 DEF MaySee, HasFrom
    <2>3. "send" \notin RenameSteps \cup {"lookup", "record", "lock", "each"}
      BY DEF RenameSteps
    <2>4. job[t].step # "idle" /\ Found(t, "send", w)
      BY <1>1, <1>5
    <2>. HIDE DEF w, m
    <2>. QED  BY <1>1, <2>2, <2>3, <2>4, MovesPrivate DEF m
  <1>. QED  BY <1>3, <1>4, <1>5 DEF Lookup

LEMMA DirectPrivate ==
    ASSUME Inv, PrivInv, NEW t \in Threads, Direct(t)
    PROVE  JobsPrivate'
  <1>1. /\ job[t].step = "direct" /\ JobsPrivate
        /\ MaySee(job[t].msg.to, job[t].msg)
    BY DEF Direct, At, PrivInv, MaySee
  <1>. QED
    BY <1>1, MovesPrivate DEF Direct, RenameSteps

LEMMA RecordPrivate ==
    ASSUME Inv, PrivInv, NEW t \in Threads, Record(t)
    PROVE  JobsPrivate' /\ HistoryOpen'
  <1>. DEFINE m == job[t].msg
  <1>1. job[t].step = "record" /\ JobsPrivate /\ ~HasTo(m) /\ m \in Msg
    BY JobFacts DEF Record, At, PrivInv, JobsPrivate, MsgOK
  <1>2. JobsPrivate'
    <2>1. "lock" \notin RenameSteps \cup {"lookup", "send"}
      BY DEF RenameSteps
    <2>2. Goto(t, "lock") /\ job[t].step # "idle"
      BY <1>1 DEF Record
    <2>. QED  BY <1>1, <2>1, <2>2, MovesPrivate
  <1>3. history \in Seq(Msg) /\ Len(history) \in Nat
    BY Parts DEF HistoryOK
  <1>4. \A i \in DOMAIN history' : ~HasTo(history'[i])
    <2>1. CASE history' = Append(history, m)
      BY <1>1, <1>3, <2>1, AppendHas DEF PrivInv, HistoryOpen
    <2>2. CASE /\ history' = Append(Tail(history), m)
               /\ ~(Len(history) < HistoryLen)
      <3>1. history # <<>>
        BY <1>3, <2>2, RoomAssumption
      <3>2. Tail(history) \in Seq(Msg)
        BY <1>3, <3>1
      <3>3. \A i \in DOMAIN Tail(history) : ~HasTo(Tail(history)[i])
        BY <1>3, <3>1, TailHas DEF PrivInv, HistoryOpen
      <3>. QED  BY <1>1, <2>2, <3>2, <3>3, AppendHas
    <2>. QED  BY <2>1, <2>2 DEF Record, Remember
  <1>. QED  BY <1>2, <1>4 DEF HistoryOpen, HasTo

(* What a loop over the members sends, all may see.                        *)
LEMMA EachPrivate ==
    ASSUME Inv, PrivInv, NEW t \in Threads,
           \/ Lock(t) \/ Unblock(t) \/ Unlock(t)
           \/ \E k \in job[t].rest : Visit(t, k)
    PROVE  JobsPrivate' /\ PrivateStaysPrivate'
  <1>. DEFINE m == job[t].msg
  <1>1. /\ job \in [Threads -> Job] /\ job[t] \in Job /\ m \in Msg
        /\ job[t].step \in {"lock", "each"} /\ JobsPrivate /\ ~HasTo(m)
        /\ PrivateStaysPrivate /\ JobOK(job[t])
    BY Parts, JobFacts
       DEF Lock, Unblock, Unlock, Visit, At, PrivInv, JobsPrivate, MsgOK
  <1>2. CASE Unlock(t)
    BY <1>1, <1>2, EndsPrivate
       DEF Unlock, userVars, pipeVars, PrivateStaysPrivate
  <1>3. CASE Lock(t)
    <2>1. /\ job'[t] = [job[t] EXCEPT !.step = "each",
                            !.rest = {k \in Names : members[k] # NoUser}]
          /\ \A x \in Threads \ {t} : job'[x] = job[x]
      BY <1>1, <1>3 DEF Lock, Job
    <2>2. JobsPrivate'
      BY <1>1, <2>1, GoesOn DEF Job, RenameSteps
    <2>. QED
      BY <1>1, <1>3, <2>2 DEF Lock, userVars, pipeVars, PrivateStaysPrivate
  <1>4. CASE Unblock(t)
    <2>1. /\ job'[t] = [job[t] EXCEPT !.who = NoUser] /\ job[t].step = "each"
          /\ \A x \in Threads \ {t} : job'[x] = job[x]
      BY <1>1, <1>4 DEF Unblock, At
    <2>2. JobsPrivate'
      BY <1>1, <2>1, GoesOn DEF Job, RenameSteps
    <2>3. job[t].who \in Users
      BY <1>1, <1>4 DEF Unblock, Job
    <2>. QED
      BY <1>1, <1>4, <2>2, <2>3, OpenToAll, SendPrivate DEF Unblock
  <1>5. ASSUME NEW k \in job[t].rest, Visit(t, k)
        PROVE  JobsPrivate' /\ PrivateStaysPrivate'
    <2>1. members[k] \in Users
      BY <1>1, <1>5, Parts DEF Visit, At, JobOK, MembersOK, Job
    <2>2. /\ job'[t].step = "each" /\ job'[t].msg = m
          /\ job'[t].from = job[t].from /\ job'[t].line = job[t].line
          /\ \A x \in Threads \ {t} : job'[x] = job[x]
      BY <1>1, <1>5 DEF Visit, At, Job
    <2>3. JobsPrivate'
      BY <1>1, <2>2, GoesOn DEF RenameSteps
    <2>4. SendTo(members[k], m) \/ UNCHANGED inbox
      BY <1>5 DEF Visit, SendTo, pipeVars
    <2>. QED
      BY <1>1, <2>1, <2>3, <2>4, OpenToAll, SendPrivate
         DEF PrivateStaysPrivate
  <1>. QED  BY <1>2, <1>3, <1>4, <1>5

(* What a step that touches neither names nor logs leaves to be shown.     *)
LEMMA PrivStep ==
    ASSUME PrivInv, UNCHANGED <<id, history, feed>>,
           JobsPrivate', PrivateStaysPrivate'
    PROVE  PrivInv'
  BY DEF PrivInv, IDsOwn, HistoryOpen, FeedsOpen, HasTo, NamesOf

LEMMA InboxStutter ==
    ASSUME PrivInv, UNCHANGED inbox
    PROVE  PrivateStaysPrivate'
  BY DEF PrivInv, PrivateStaysPrivate

LEMMA JobsStutter ==
    ASSUME PrivInv, UNCHANGED job
    PROVE  JobsPrivate'
  BY DEF PrivInv, JobsPrivate, MsgOK, NameOK

LEMMA HandleMsgPrivate ==
    ASSUME Inv, RegInv, PrivInv, NobodyTakesNames, NEW t \in Threads,
           HandleMsg(t), UNCHANGED <<opKeys, hostVars>>
    PROVE  PrivInv'
  <1>1. UNCHANGED <<id, feed>>
    BY DEF HandleMsg, Lookup, Direct, Deliver, Record, Lock, Visit, Unblock,
           Unlock, hostVars, userVars
  <1>2. CASE Lookup(t) \/ Direct(t)
    <2>1. UNCHANGED <<history, inbox>>
      BY <1>2 DEF Lookup, Direct, userVars, pipeVars
    <2>. QED
      BY <1>1, <1>2, <2>1, LookupPrivate, DirectPrivate, PrivStep, InboxStutter
  <1>3. CASE Deliver(t)
    <2>1. /\ job[t].who \in Users /\ job[t].msg \in Msg
          /\ MaySee(job[t].who, job[t].msg)
          /\ JobsPrivate /\ PrivateStaysPrivate
      BY <1>3, JobFacts
         DEF Deliver, At, JobOK, TargetSteps, PrivInv, JobsPrivate, MsgOK
    <2>2. JobsPrivate' /\ PrivateStaysPrivate'
      BY <1>3, <2>1, EndsPrivate, SendPrivate DEF Deliver
    <2>. QED  BY <1>1, <1>3, <2>2, PrivStep DEF Deliver
  <1>4. CASE Record(t)
    <2>1. JobsPrivate' /\ HistoryOpen' /\ PrivateStaysPrivate'
      BY <1>4, RecordPrivate, InboxStutter DEF Record, userVars, pipeVars
    <2>. QED
      BY <1>1, <2>1 DEF PrivInv, IDsOwn, FeedsOpen, HasTo, NamesOf
  <1>5. CASE \/ Lock(t) \/ Unblock(t) \/ Unlock(t)
             \/ \E k \in job[t].rest : Visit(t, k)
    <2>1. UNCHANGED history
      BY <1>5 DEF Lock, Unblock, Unlock, Visit
    <2>. QED  BY <1>1, <1>5, <2>1, EachPrivate, PrivStep
  <1>. QED  BY <1>2, <1>3, <1>4, <1>5 DEF HandleMsg

-----------------------------------------------------------------------------
(* Commands: none of them changes the message it came with.                *)
LEMMA OtherCommandPrivate ==
    ASSUME Inv, PrivInv, NEW u \in Users, UNCHANGED hostVars,
           \/ Bad(u) \/ Info(u) \/ Emote(u) \/ Exit(u)
           \/ ToggleQuiet(u) \/ Ignore(u) \/ Unignore(u)
           \/ PrivateTo(u) \/ ReplyBack(u) \/ SetReplyTo(u)
           \/ Authorize(u) \/ NoTarget(u) \/ Mute(u) \/ SetMute(u)
           \/ Kick(u) \/ CloseTarget(u) \/ Op(u) \/ OpKey(u)
    PROVE  PrivInv'
  <1>1. /\ UNCHANGED <<id, history, feed, inbox>> /\ u \in Threads
        /\ job[u].step # "idle" /\ JobsPrivate
    BY UserThreads
       DEF Bad, Info, Emote, Exit, ToggleQuiet, Ignore, Unignore, PrivateTo,
           ReplyBack, SetReplyTo, Authorize, NoTarget, Mute, SetMute, Kick,
           CloseTarget, Op, OpKey, Runs, Acts, At, hostVars, userVars,
           pipeVars, Close, PrivInv
  <1>2. \A s \in {"idle", "act", "muteOn", "muteOff", "replyTo", "close",
                  "opkey"} :
            s \notin RenameSteps \cup {"lookup", "send", "record", "lock",
                                       "each"}
    BY DEF RenameSteps
  <1>3. \E s \in {"idle", "act", "muteOn", "muteOff", "replyTo", "close",
                  "opkey"} : \E v, out :
            \/ Finish(u) \/ Goto(u, s) \/ Found(u, s, v) \/ Post(u, out)
            \/ PostThen(u, out, v, s)
    BY DEF Bad, Info, Emote, Exit, ToggleQuiet, Ignore, Unignore, PrivateTo,
           ReplyBack, SetReplyTo, Authorize, NoTarget, Mute, SetMute, Kick,
           CloseTarget, Op, OpKey, SendPM, Fail
  <1>4. JobsPrivate'
    BY <1>1, <1>2, <1>3, MovesPrivate
  <1>. QED  BY <1>1, <1>4, PrivStep, InboxStutter

LEMMA SendOutPrivate ==
    ASSUME Inv, RegInv, PrivInv, NEW u \in Users, UNCHANGED hostVars, SendOut(u)
    PROVE  PrivInv'
  <1>1. /\ UNCHANGED <<id, history, feed, inbox>> /\ job[u].step = "out"
        /\ job \in [Threads -> Job] /\ job[u] \in Job /\ JobOK(job[u])
        /\ u \in Threads /\ JobsPrivate /\ UserOK(u)
    BY Parts, JobFacts, UserThreads
       DEF SendOut, At, userVars, pipeVars, hostVars, PrivInv, RegInv
  <1>2. CASE Finish(u)
    BY <1>1, <1>2, EndsPrivate, PrivStep, InboxStutter
  <1>3. CASE ~Finish(u)
    <2>. DEFINE j == [job[u] EXCEPT !.out = Tail(job[u].out)]
                w == [job[u] EXCEPT !.step = job[u].then, !.out = <<>>,
                                    !.then = "idle"]
    <2>1. \/ job' = [job EXCEPT ![u] = j]
          \/ job' = [job EXCEPT ![u] = w]
      BY <1>1, <1>3 DEF SendOut
    <2>2. /\ j.line = job[u].line /\ j.msg = job[u].msg
          /\ j.from = job[u].from /\ j.step = job[u].step
      BY <1>1 DEF Job
    <2>3. /\ w.line = job[u].line /\ w.msg = job[u].msg
          /\ w.from = job[u].from /\ w.step = job[u].then
      BY <1>1 DEF Job
    <2>. HIDE DEF j, w
    <2>4. /\ job'[u].line = job[u].line /\ job'[u].msg = job[u].msg
          /\ job'[u].from = job[u].from
          /\ job'[u].step \in {"out", job[u].then}
          /\ \A x \in Threads \ {u} : job'[x] = job[x]
      BY <1>1, <2>1, <2>2, <2>3
    <2>5. job[u].then \in {"idle", "replyTo", "close"}
      BY <1>1 DEF JobOK, UserOK
    <2>6. JobsPrivate'
      BY <1>1, <2>4, <2>5, GoesOn DEF RenameSteps
    <2>. QED  BY <1>1, <2>6, PrivStep, InboxStutter
  <1>. QED  BY <1>2, <1>3

(* A rename under way is the user's own: from one of its names to another. *)
LEMMA NickPrivate ==
    ASSUME Inv, RegInv, PrivInv, NEW u \in Users, UNCHANGED hostVars, Nick(u)
    PROVE  PrivInv'
  <1>1. /\ UNCHANGED <<id, history, feed, inbox>> /\ job[u].step = "run"
        /\ job \in [Threads -> Job] /\ job[u] \in Job
        /\ u \in Threads /\ JobsPrivate /\ UserOK(u)
        /\ job[u].line.cmd = "nick"
    BY Parts, JobFacts, UserThreads
       DEF Nick, Runs, At, userVars, pipeVars, hostVars, PrivInv, RegInv
  <1>2. CASE Fail(u)
    BY <1>1, <1>2, EndsPrivate, PrivStep, InboxStutter DEF Fail
  <1>3. CASE StartRename(u, Get(id[u]))
    <2>1. InRoom(u) /\ ~Renaming(u)
      BY <1>1 DEF UserOK, InRoom, Renaming, Phases
    <2>2. Get(id[u]) = u
      BY <2>1, OwnEntry
    <2>3. /\ job'[u] = [job[u] EXCEPT !.step = "setid", !.who = u,
                                      !.old = id[u]]
          /\ \A x \in Threads \ {u} : job'[x] = job[x]
      BY <1>1, <1>3, <2>2 DEF StartRename
    <2>4. /\ job'[u].line = job[u].line /\ job'[u].msg = job[u].msg
          /\ job'[u].from = job[u].from /\ job'[u].step = "setid"
          /\ job'[u].old = id[u]
      BY <1>1, <2>3 DEF Job
    <2>5. id[u] \in NamesOf(u) /\ job[u].line.new \in NamesOf(u)
      BY <1>1 DEF PrivInv, JobsPrivate, IDsOwn, NameOK
    <2>6. JobsPrivate'
      BY <1>1, <2>3, <2>4, <2>5, GoesOn
    <2>. QED  BY <1>1, <2>6, PrivStep, InboxStutter
  <1>. QED  BY <1>2, <1>3 DEF Nick

LEMMA RenamePrivate ==
    ASSUME Inv, RegInv, PrivInv, NEW u \in Users, UNCHANGED hostVars,
           SetID(u) \/ Rename(u) \/ ReplaceMember(u) \/ Revert(u)
    PROVE  PrivInv'
  <1>1. /\ UNCHANGED <<history, feed, inbox>>
        /\ job[u].step \in {"setid", "commit", "replace", "revert"}
        /\ job \in [Threads -> Job] /\ job[u] \in Job
        /\ u \in Threads /\ JobsPrivate /\ UserOK(u)
        /\ id \in [Users -> Names] /\ IDsOwn /\ PrivateStaysPrivate'
    BY Parts, JobFacts, UserThreads, InboxStutter
       DEF SetID, Rename, ReplaceMember, Revert, At, userVars, pipeVars,
           hostVars, PrivInv, RegInv, UsersTypeOK
  <1>2. /\ job[u].who = u /\ job[u].old \in NamesOf(u)
        /\ job[u].line.new \in NamesOf(u)
    BY <1>1 DEF UserOK, RenameSteps, JobsPrivate, NameOK
  <1>3. \A v \in Users : id'[v] \in NamesOf(v)
    BY <1>1, <1>2
       DEF SetID, Rename, ReplaceMember, Revert, New, IDsOwn, userVars
  <1>4. JobsPrivate'
    <2>1. CASE \E s \in {"commit", "revert"} : Goto(u, s)
      <3>1. PICK s \in {"commit", "revert"} : Goto(u, s)
        BY <2>1
      <3>2. job'[u] = [job[u] EXCEPT !.step = s]
            /\ \A x \in Threads \ {u} : job'[x] = job[x]
        BY <1>1, <3>1 DEF Goto
      <3>. QED  BY <1>1, <1>2, <3>2, GoesOn DEF Job
    <2>2. CASE \E out : Post(u, out)
      <3>1. PICK out : Post(u, out)
        BY <2>2
      <3>2. job'[u] = [job[u] EXCEPT !.step = "out", !.out = out,
                                     !.then = "idle"]
            /\ \A x \in Threads \ {u} : job'[x] = job[x]
        BY <1>1, <3>1 DEF Post
      <3>. QED  BY <1>1, <3>2, GoesOn DEF Job, RenameSteps
    <2>3. CASE Finish(u)
      BY <1>1, <2>3, EndsPrivate
    <2>4. CASE Rename(u) /\ ~Goto(u, "revert")
      <3>1. job'[u] = [job[u] EXCEPT !.step = "replace", !.now = id[u]]
            /\ \A x \in Threads \ {u} : job'[x] = job[x]
        BY <1>1, <1>2, <2>4 DEF Rename
      <3>. QED  BY <1>1, <1>2, <3>1, GoesOn DEF Job
    <2>. QED
      BY <2>1, <2>2, <2>3, <2>4 DEF SetID, ReplaceMember, Revert, Fail
  <1>. QED
    BY <1>1, <1>3, <1>4
       DEF PrivInv, IDsOwn, HistoryOpen, FeedsOpen, HasTo, NamesOf

LEMMA RunCommandPrivate ==
    ASSUME Inv, RegInv, PrivInv, NEW u \in Users, RunCommand(u),
           UNCHANGED hostVars
    PROVE  PrivInv'
  <1>1. ~OpRename(u) /\ ~OpRenameTarget(u)
    BY DEF RegInv, UserOK, OpRename, OpRenameTarget, Acts, At
  <1>. QED
    BY <1>1, OtherCommandPrivate, SendOutPrivate, NickPrivate, RenamePrivate
       DEF RunCommand

-----------------------------------------------------------------------------
(* Connect.                                                                *)
LEMMA MovePrivate ==
    ASSUME Inv, PrivInv, NEW u \in Users,
           \/ Arrive(u) \/ AnnounceJoin(u) \/ CheckOp(u) \/ GrantOp(u)
           \/ EndOfInput(u) \/ Leave(u) \/ AnnounceLeave(u) \/ Disconnect(u)
    PROVE  PrivInv'
  <1>1. UNCHANGED <<id, inbox, history, feed, job>>
    BY DEF Arrive, AnnounceJoin, CheckOp, GrantOp, EndOfInput, Leave,
           AnnounceLeave, Disconnect, Close, userVars, pipeVars, roomVars
  <1>. QED  BY <1>1, PrivStep, JobsStutter, InboxStutter

LEMMA JoinPrivate ==
    ASSUME Inv, PrivInv, NEW u \in Users, Join(u)
    PROVE  PrivInv'
  <1>1. UNCHANGED <<inbox, history, feed, job>>
    BY DEF Join, pipeVars
  <1>2. \A v \in Users : id'[v] \in NamesOf(v)
    <2>1. UNCHANGED id \/ id' = [id EXCEPT ![u] = Guest[u]]
      BY DEF Join
    <2>. QED  BY <2>1, Parts DEF UsersTypeOK, PrivInv, IDsOwn, NamesOf
  <1>. QED
    BY <1>1, <1>2, JobsStutter, InboxStutter
       DEF PrivInv, IDsOwn, HistoryOpen, FeedsOpen, HasTo, NamesOf

LEMMA FeedPrivate ==
    ASSUME Inv, PrivInv, NEW u \in Users,
           SendMotd(u) \/ GetHistory(u) \/ Feed(u)
    PROVE  PrivInv'
  <1>1. /\ UNCHANGED <<id, history, job>> /\ JobsPrivate'
        /\ feed \in [Users -> Seq(Msg)] /\ history \in Seq(Msg)
        /\ PrivateStaysPrivate
    BY Parts, JobsStutter
       DEF SendMotd, GetHistory, Feed, userVars, roomVars, HostOK, HistoryOK,
           PrivInv
  <1>2. CASE SendMotd(u)
    <2>1. AnnounceMsg(u, 0, 2) \in Msg /\ ~HasTo(AnnounceMsg(u, 0, 2))
      BY MessageTypes DEF AnnounceMsg, Make, HasTo
    <2>2. PrivateStaysPrivate'
      BY <1>1, <1>2, <2>1, OpenToAll, SendPrivate DEF SendMotd
    <2>. QED  BY <1>1, <1>2, <2>2, PrivStep DEF SendMotd
  <1>3. CASE Feed(u) /\ UNCHANGED <<pipeVars, feed>>
    BY <1>1, <1>3, PrivStep, InboxStutter DEF pipeVars
  <1>4. ASSUME PrivateStaysPrivate',
               \A v \in Users : \A i \in DOMAIN feed'[v] : ~HasTo(feed'[v][i])
        PROVE  PrivInv'
    BY <1>1, <1>4 DEF PrivInv, IDsOwn, HistoryOpen, FeedsOpen, HasTo, NamesOf
  <1>5. CASE GetHistory(u)
    <2>1. feed' = [feed EXCEPT ![u] = history] /\ UNCHANGED inbox
      BY <1>5 DEF GetHistory, userVars, pipeVars
    <2>2. ASSUME NEW v \in Users, NEW i \in DOMAIN feed'[v]
          PROVE  ~HasTo(feed'[v][i])
      BY <1>1, <2>1, <2>2 DEF PrivInv, FeedsOpen, HistoryOpen
    <2>. QED  BY <1>4, <2>1, <2>2, InboxStutter
  <1>6. CASE /\ Feed(u) /\ feed[u] # <<>> /\ SendTo(u, Head(feed[u]))
             /\ feed' = [feed EXCEPT ![u] = Tail(@)]
    <2>1. /\ feed[u] \in Seq(Msg) /\ Head(feed[u]) \in Msg
          /\ ~HasTo(Head(feed[u]))
      <3>1. feed[u] \in Seq(Msg) /\ 1 \in DOMAIN feed[u]
            /\ Head(feed[u]) = feed[u][1]
        BY <1>1, <1>6
      <3>. QED  BY <3>1 DEF PrivInv, FeedsOpen
    <2>2. PrivateStaysPrivate'
      BY <1>1, <1>6, <2>1, OpenToAll, SendPrivate
    <2>3. ASSUME NEW v \in Users, NEW i \in DOMAIN feed'[v]
          PROVE  ~HasTo(feed'[v][i])
      <3>1. CASE v # u
        BY <1>1, <1>6, <2>3, <3>1 DEF PrivInv, FeedsOpen
      <3>2. CASE v = u
        <4>1. feed'[u] = Tail(feed[u])
          BY <1>1, <1>6
        <4>. QED
          BY <1>6, <2>1, <2>3, <3>2, <4>1, TailHas DEF PrivInv, FeedsOpen
      <3>. QED  BY <3>1, <3>2
    <2>. QED  BY <1>4, <2>2, <2>3
  <1>. QED  BY <1>2, <1>3, <1>5, <1>6 DEF Feed

LEMMA RunEnvPrivate ==
    ASSUME Inv, PrivInv, NEW u \in Users, RunEnv(u)
    PROVE  PrivInv'
  <1>1. UNCHANGED <<id, inbox, history, feed>> /\ u \in Threads
    BY UserThreads DEF RunEnv, userVars, pipeVars
  <1>2. CASE UNCHANGED job
    BY <1>1, <1>2, PrivStep, JobsStutter, InboxStutter
  <1>3. ASSUME NEW c \in {"info", "bad"},
               Begin(u, CommandMsg(u, typed[u] + 1), [NoLine EXCEPT !.cmd = c])
        PROVE  PrivInv'
    <2>. DEFINE l == [NoLine EXCEPT !.cmd = c]
                m == CommandMsg(u, typed[u] + 1)
    <2>0. typed[u] + 1 \in Nat
      BY Parts DEF HostOK
    <2>1. /\ l \in Line /\ l.cmd \in {"info", "bad"}
          /\ m \in Msg
      BY <2>0, NamesAssumption, MessageTypes DEF NoLine, Line, Cmds
    <2>. HIDE DEF l, m
    <2>2. Begin(u, m, l)
      BY <1>3 DEF l, m
    <2>3. JobsPrivate'
      BY <1>1, <2>1, <2>2, BeginPrivate DEF PrivInv
    <2>. QED  BY <1>1, <2>3, PrivStep, InboxStutter
  <1>. QED  BY <1>2, <1>3 DEF RunEnv

LEMMA ReadLinePrivate ==
    ASSUME Inv, PrivInv, NEW u \in Users, NEW l \in Lines[u], ReadLine(u, l)
    PROVE  PrivInv'
  <1>. DEFINE n == typed[u] + 1
              j == [Idle EXCEPT !.step = "send",
                        !.msg = SystemMsg(u, u, n, 0), !.who = u]
  <1>1. /\ UNCHANGED <<id, inbox, history, feed>>
        /\ u \in Threads /\ JobsPrivate /\ IDsOwn /\ l \in Line /\ n \in Nat
        /\ job \in [Threads -> Job]
        /\ l.cmd = "nick" => l.new \in NamesOf(u)
    BY Parts, UserThreads, HostAssumption
       DEF ReadLine, Echo, Close, pipeVars, PrivInv, NamesOf, HostOK
  <1>2. PublicMsg(u, n) \in Msg /\ CommandMsg(u, n) \in Msg
    BY <1>1, MessageTypes
  <1>3. CASE Begin(u, PublicMsg(u, n), l) \/ Begin(u, CommandMsg(u, n), l)
    <2>1. JobsPrivate'
      BY <1>1, <1>2, <1>3, BeginPrivate
    <2>. QED  BY <1>1, <2>1, PrivStep, InboxStutter
  <1>4. CASE job' = [job EXCEPT ![u] = j]
    <2>1. /\ j.step = "send" /\ j.msg = SystemMsg(u, u, n, 0) /\ j.who = u
          /\ j.from = NoName /\ j.line = NoLine
      BY DEF Idle
    <2>2. MaySee(u, SystemMsg(u, u, n, 0))
      BY DEF SystemMsg, Make, MaySee
    <2>3. job'[u] = j /\ \A x \in Threads \ {u} : job'[x] = job[x]
      BY <1>1, <1>4
    <2>. HIDE DEF j
    <2>4. MsgOK(j)
      BY <2>1, <2>2 DEF MsgOK
    <2>5. NameOK(u, j)
      BY <2>1 DEF NameOK, NoLine, RenameSteps
    <2>6. JobsPrivate'
      BY <1>1, <2>3, <2>4, <2>5, OneMoves
    <2>. QED  BY <1>1, <2>6, PrivStep, InboxStutter
  <1>. QED  BY <1>3, <1>4 DEF ReadLine

-----------------------------------------------------------------------------
(* The history starts with the announcements of who joined last.           *)
LEMMA HistoryJoins ==
    ASSUME Init
    PROVE  \A i \in DOMAIN history : history[i].kind = "announce"
  <1>1. \A i \in DOMAIN Joined : Joined[i].kind = "announce"
    BY DEF Joined, AnnounceMsg, Make
  <1>2. CASE Len(Joined) <= HistoryLen
    BY <1>1, <1>2 DEF Init, LastOf
  <1>3. CASE ~(Len(Joined) <= HistoryLen)
    <2>. DEFINE a == Len(Joined) - HistoryLen + 1
                b == Len(Joined)
    <2>1. history = SubSeq(Joined, a, b)
      BY <1>3 DEF Init, LastOf
    <2>2. DOMAIN Joined = 1..b /\ b \in Nat /\ HistoryLen \in Nat
      <3>1. DOMAIN Joined = DOMAIN Present /\ Present \in Seq(Users)
            /\ Joined = [i \in DOMAIN Present |-> Joined[i]]
        BY HostAssumption DEF Joined
      <3>2. Len(Joined) = Len(Present)
        BY <3>1
      <3>. QED  BY <3>1, <3>2, RoomAssumption
    <2>3. \A i \in DOMAIN history :
              history[i] = Joined[i + a - 1] /\ i + a - 1 \in 1..b
      BY <1>3, <2>1, <2>2, RoomAssumption
    <2>. QED  BY <1>1, <2>2, <2>3
  <1>. QED  BY <1>2, <1>3

LEMMA InitPrivate == ASSUME Init PROVE PrivInv
  <1>1. JobsPrivate
    BY IdlePrivate, UserThreads DEF Init, JobsPrivate
  <1>2. IDsOwn
    BY DEF Init, UsersInit, IDsOwn, NamesOf
  <1>3. HistoryOpen
    BY HistoryJoins DEF HistoryOpen, HasTo
  <1>4. FeedsOpen /\ PrivateStaysPrivate
    BY DEF Init, UsersInit, FeedsOpen, PrivateStaysPrivate
  <1>. QED  BY <1>1, <1>2, <1>3, <1>4 DEF PrivInv

LEMMA NextPrivate ==
    ASSUME Inv, RegInv, PrivInv, NobodyTakesNames, [Next]_vars
    PROVE  PrivInv'
  <1>1. CASE Dispatch /\ UNCHANGED <<opKeys, hostVars>>
    <2>1. UNCHANGED <<id, inbox, history, feed>>
      BY <1>1 DEF Dispatch, Serve, StartTask, userVars, pipeVars, hostVars
    <2>2. CASE Serve
      BY <2>1, <2>2, PrivStep, JobsStutter, InboxStutter DEF Serve
    <2>3. ASSUME NEW t \in Tasks, NEW m \in ready, StartTask(t, m)
          PROVE  PrivInv'
      <3>1. m \in Msg /\ NoLine \in Line /\ NoLine.cmd # "nick" /\ t \in Threads
        BY Parts, NamesAssumption
           DEF QueuesOK, NoLine, Line, Cmds, OpCmds, Threads
      <3>2. JobsPrivate'
        BY <2>3, <3>1, BeginPrivate DEF StartTask, PrivInv
      <3>. QED  BY <2>1, <3>2, PrivStep, InboxStutter
    <2>. QED  BY <1>1, <2>2, <2>3 DEF Dispatch
  <1>2. CASE \E t \in Threads : HandleMsg(t) /\ UNCHANGED <<opKeys, hostVars>>
    BY <1>2, HandleMsgPrivate
  <1>3. CASE \E u \in Users : RunCommand(u) /\ UNCHANGED hostVars
    BY <1>3, RunCommandPrivate
  <1>4. CASE \E u \in Users : Connect(u)
    BY <1>4, MovePrivate, JoinPrivate, FeedPrivate, RunEnvPrivate,
       ReadLinePrivate DEF Connect
  <1>5. CASE \E u \in Users : Screen(u)
    <2>1. PICK u \in Users : Screen(u)
      BY <1>5
    <2>2. UNCHANGED <<id, history, feed, job>>
      BY <2>1 DEF Screen, roomVars, hostVars
    <2>3. PrivateStaysPrivate'
      BY <2>1, ReceivePrivate, InboxStutter
         DEF Screen, Consume, WriteFails, ConsumeStops, PrivInv
    <2>. QED  BY <2>2, <2>3, PrivStep, JobsStutter
  <1>6. CASE UNCHANGED vars
    <2>1. UNCHANGED <<id, inbox, history, feed, job>>
      BY <1>6 DEF vars, roomVars, userVars, pipeVars, hostVars
    <2>. QED  BY <2>1, PrivStep, JobsStutter, InboxStutter
  <1>. QED
    BY <1>1, <1>2, <1>3, <1>4, <1>5, <1>6 DEF Next, Rest

(* A private or a system message is buffered for nobody it is not for,     *)
(* whatever mutes, ignores, joins, leaves and changes of name overlap with *)
(* HandleMsg, as long as nobody comes under the name of another user and   *)
(* no operator renames anybody (room.go finds the author by name).         *)
THEOREM PrivacyTheorem ==
    ASSUME NobodyRenamed, NobodyTakesNames
    PROVE  Spec => []PrivateStaysPrivate
  <1>1. Init => Inv /\ RegInv /\ PrivInv
    BY InitInv, InitReg, InitPrivate
  <1>2. Inv /\ RegInv /\ PrivInv /\ [Next]_vars => Inv' /\ RegInv' /\ PrivInv'
    BY NextInv, NextReg, NextPrivate
  <1>3. PrivInv => PrivateStaysPrivate
    BY DEF PrivInv
  <1>. QED  BY <1>1, <1>2, <1>3, PTL DEF Spec

=============================================================================
