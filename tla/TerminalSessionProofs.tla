------------------------ MODULE TerminalSessionProofs ------------------------
(***************************************************************************)
(* Proofs about TerminalSession.  Inv adds to the types that ready is only *)
(* closed for a shell, that only who passed it is given a terminal, and    *)
(* that no deadline is set any more by then.                               *)
(***************************************************************************)
EXTENDS TerminalSession, SequenceTheorems, TLAPS

Staged(c) ==
    /\ stage[c] \in {"granted", "handler"} => ready[c]
    /\ stage[c] = "handler" => ~deadline[c]

Recorded(c) ==
    /\ ready[c] => Shells(c) # {}
    /\ Range(env[c]) = Before(c, "env")
    /\ \A i, j \in DOMAIN env[c] : i < j => env[c][i] < env[c][j]
    /\ term[c] \in Before(c, "pty-req") \cup {0}
    /\ \A n \in Before(c, "pty-req") : n <= term[c]

Inv == TypeOK /\ \A c \in Conns : Staged(c) /\ Recorded(c)

-----------------------------------------------------------------------------
(* Nothing has been sent and nothing is set.                               *)
LEMMA InitInv == Init => Inv
<1> SUFFICES ASSUME Init PROVE Inv
    OBVIOUS
<1>1. TypeOK
    BY DEF Init, TypeOK, Stages, Links, ChannelTypes, Requests
<1>2. ASSUME NEW c \in Conns PROVE Staged(c) /\ Recorded(c)
    <2>1. Before(c, "env") = {} /\ Before(c, "pty-req") = {}
        BY DEF Init, Before
    <2>2. Range(env[c]) = {} /\ DOMAIN env[c] = {}
        BY DEF Init, Range
    <2> QED
        BY <2>1, <2>2 DEF Init, Staged, Recorded
<1> QED
    BY <1>1, <1>2 DEF Inv

(* What the fields say of the requests does not depend on anything else.   *)
LEMMA KeepsRecords ==
    ASSUME Inv, UNCHANGED <<sent, heard, ready, env, term>>
    PROVE  \A c \in Conns : Recorded(c)'
BY DEF Inv, Recorded, Shells, Before, Range

(* Actions that change the stage or the link but no request.               *)
Quiet(c) ==
    \/ Server(c) \/ Accept(c) \/ Handshake(c) \/ AuthFails(c)
    \/ CloseChannel(c) \/ HangUp(c) \/ Quit(c) \/ Kick(c) \/ Answered(c)
    \/ Expire(c) \/ Tick(c) \/ KeepaliveFails(c) \/ KeepaliveDone(c)
    \/ \E t \in ChannelTypes : OpenChannel(c, t)

LEMMA QuietTypes ==
    ASSUME Inv, NEW c \in Conns, Quiet(c)
    PROVE  TypeOK'
<1> USE DEF Inv, TypeOK, To, Down, Up, Close, Stages, Links
<1>1. CASE Accept(c) \/ Handshake(c) \/ AuthFails(c)
    BY <1>1 DEF Accept, Handshake, AuthFails, channelVars, requestVars, connVars
<1>2. CASE HandshakeFails(c) \/ NoChannel(c) \/ ShellAcquired(c)
            \/ Aborted(c) \/ TimedOut(c)
    BY <1>2 DEF HandshakeFails, NoChannel, ShellAcquired, Aborted, TimedOut,
                channelVars, requestVars, connVars
<1>3. CASE NextChannel(c)
    <2>1. opened' \in [Conns -> Seq(ChannelTypes)]
        <3>1. Tail(opened[c]) \in Seq(ChannelTypes)
            BY <1>3, HeadTailProperties DEF NextChannel
        <3> QED
            BY <1>3, <3>1 DEF NextChannel
    <2>2. /\ stage' \in [Conns -> Stages]
          /\ open' \in [Conns -> BOOLEAN] /\ listening' \in [Conns -> BOOLEAN]
          /\ keeping' \in [Conns -> {"off", "idle", "asking", "ended"}]
        BY <1>3 DEF NextChannel
    <2>3. UNCHANGED <<accepting, link, deadline, sent, heard, ready, env, term, done>>
        BY <1>3 DEF NextChannel, connVars
    <2> QED
        BY <2>1, <2>2, <2>3
<1>4. CASE HandOver(c) \/ Drop(c)
    <2>1. CASE HandOver(c)
        BY <2>1 DEF HandOver, channelVars, requestVars
    <2>2. CASE Drop(c)
        BY <2>2 DEF Drop, channelVars, requestVars
    <2> QED
        BY <1>4, <2>1, <2>2
<1>5. CASE HandlerEnds(c) \/ Quit(c) \/ Kick(c)
    <2>1. CASE HandlerEnds(c)
        BY <2>1 DEF HandlerEnds, requestVars
    <2>2. CASE Quit(c)
        BY <2>2 DEF Quit, requestVars
    <2>3. CASE Kick(c)
        BY <2>3 DEF Kick, requestVars
    <2> QED
        BY <1>5, <2>1, <2>2, <2>3
<1>6. CASE CloseChannel(c) \/ HangUp(c) \/ Expire(c)
    <2>1. CASE CloseChannel(c)
        BY <2>1 DEF CloseChannel, connVars, channelVars, requestVars
    <2>2. CASE HangUp(c)
        BY <2>2 DEF HangUp, connVars, channelVars, requestVars
    <2>3. CASE Expire(c)
        BY <2>3 DEF Expire, connVars, channelVars, requestVars
    <2> QED
        BY <1>6, <2>1, <2>2, <2>3
<1>7. CASE Answered(c) \/ Tick(c) \/ KeepaliveFails(c) \/ KeepaliveDone(c)
    <2>1. CASE Answered(c)
        BY <2>1 DEF Answered, connVars,
                channelVars, requestVars
    <2>2. CASE Tick(c)
        BY <2>2 DEF Tick, connVars,
                channelVars, requestVars
    <2>3. CASE KeepaliveFails(c)
        BY <2>3 DEF KeepaliveFails, connVars,
                channelVars, requestVars
    <2>4. CASE KeepaliveDone(c)
        BY <2>4 DEF KeepaliveDone, connVars,
                channelVars, requestVars
    <2> QED
        BY <1>7, <2>1, <2>2, <2>3, <2>4
<1>8. ASSUME NEW t \in ChannelTypes, OpenChannel(c, t) PROVE TypeOK'
    BY <1>8 DEF OpenChannel, connVars, requestVars
<1> QED
    BY <1>1, <1>2, <1>3, <1>4, <1>5, <1>6, <1>7, <1>8 DEF Quiet, Server

LEMMA QuietStages ==
    ASSUME Inv, NEW c \in Conns, Quiet(c)
    PROVE  \A d \in Conns : Staged(d)'
<1> SUFFICES ASSUME NEW d \in Conns PROVE Staged(d)'
    OBVIOUS
<1> USE DEF Inv, TypeOK, Staged, To
<1>1. CASE Accept(c) \/ Handshake(c) \/ AuthFails(c)
    BY <1>1 DEF Accept, Handshake, AuthFails, requestVars, connVars
<1>2. CASE HandshakeFails(c) \/ NoChannel(c) \/ ShellAcquired(c)
            \/ Aborted(c) \/ TimedOut(c)
    BY <1>2 DEF HandshakeFails, NoChannel, ShellAcquired, Aborted, TimedOut,
                requestVars, connVars
<1>3. CASE NextChannel(c)
    BY <1>3 DEF NextChannel, connVars
<1>4. CASE HandOver(c) \/ Drop(c)
    BY <1>4 DEF HandOver, Drop, requestVars
<1>5. CASE HandlerEnds(c) \/ Quit(c) \/ Kick(c)
    BY <1>5 DEF HandlerEnds, Quit, Kick, requestVars
<1>6. CASE CloseChannel(c) \/ HangUp(c) \/ Expire(c)
    BY <1>6 DEF CloseChannel, HangUp, Expire, connVars, requestVars
<1>7. CASE Answered(c) \/ Tick(c) \/ KeepaliveFails(c) \/ KeepaliveDone(c)
    BY <1>7 DEF Answered, Tick, KeepaliveFails, KeepaliveDone, connVars,
                requestVars
<1>8. ASSUME NEW t \in ChannelTypes, OpenChannel(c, t) PROVE Staged(d)'
    BY <1>8 DEF OpenChannel, connVars, requestVars
<1> QED
    BY <1>1, <1>2, <1>3, <1>4, <1>5, <1>6, <1>7, <1>8 DEF Quiet, Server

LEMMA QuietRecords ==
    ASSUME Inv, NEW c \in Conns, Quiet(c)
    PROVE  \A d \in Conns : Recorded(d)'
<1>1. UNCHANGED <<sent, heard, ready, env, term>>
    BY DEF Quiet, Server, Accept, Handshake, AuthFails, HandshakeFails, NoChannel,
           ShellAcquired, Aborted, TimedOut, NextChannel, HandOver, Drop,
           HandlerEnds, Quit, Kick, CloseChannel, HangUp, Expire, Answered,
           Tick, KeepaliveFails, KeepaliveDone, OpenChannel, requestVars
<1> QED
    BY <1>1, KeepsRecords

-----------------------------------------------------------------------------
(* A request that has not been heard is in no field.                       *)
LEMMA RequestInv ==
    ASSUME Inv, NEW c \in Conns, NEW r \in Requests, Request(c, r)
    PROVE  Inv'
<1> USE DEF Inv, TypeOK
<1>1. /\ Append(sent[c], r) \in Seq(Requests)
      /\ Len(Append(sent[c], r)) = Len(sent[c]) + 1
      /\ \A n \in 1..Len(sent[c]) : Append(sent[c], r)[n] = sent[c][n]
    BY AppendProperties
<1>2. /\ sent' = [sent EXCEPT ![c] = Append(@, r)]
      /\ UNCHANGED <<accepting, stage, link, deadline, opened, open, heard,
                     listening, ready, env, term, keeping, done>>
    BY DEF Request, connVars, channelVars
<1>3. TypeOK'
    <2>1. sent' \in [Conns -> Seq(Requests)]
        BY <1>1, <1>2
    <2>2. \A d \in Conns : Len(sent'[d]) \in Nat /\ heard[d] <= Len(sent'[d])
        <3>1. \A d \in Conns : Len(sent[d]) \in Nat
            BY LenProperties
        <3> QED
            BY <1>1, <1>2, <3>1
    <2> QED
        BY <1>2, <2>1, <2>2
<1>4. ASSUME NEW d \in Conns PROVE Staged(d)' /\ Recorded(d)'
    <2>1. \A n \in 1..heard[d] : sent'[d][n] = sent[d][n]
        <3>1. Len(sent[d]) \in Nat
            BY LenProperties
        <3> QED
            BY <1>1, <1>2, <3>1
    <2>2. /\ Shells(d)' = Shells(d) /\ Before(d, "env")' = Before(d, "env")
          /\ Before(d, "pty-req")' = Before(d, "pty-req")
        BY <1>2, <2>1 DEF Shells, Before
    <2> QED
        BY <1>2, <2>2 DEF Staged, Recorded, Range
<1> QED
    BY <1>3, <1>4

(* A request heard is the latest of all: it goes to the end of its field.  *)
LEMMA ListenInv ==
    ASSUME Inv, NEW c \in Conns, Listen(c)
    PROVE  Inv'
<1> DEFINE n == heard[c] + 1
           r == sent[c][n]
<1> USE DEF Inv
<1>1. /\ n \in Nat /\ n \in 1..Len(sent[c]) /\ r \in Requests
      /\ heard[c] \in Nat /\ term[c] \in Nat
    <2>1. Len(sent[c]) \in Nat /\ heard[c] \in Nat /\ term[c] \in Nat
        BY LenProperties DEF TypeOK
    <2>2. n \in 1..Len(sent[c])
        BY <2>1 DEF Listen
    <2>3. r \in Requests
        BY <2>2, ElementOfSeq DEF TypeOK
    <2> QED
        BY <2>1, <2>2, <2>3
<1>2. /\ heard' = [heard EXCEPT ![c] = n]
      /\ ready' = [ready EXCEPT ![c] = @ \/ r = "shell"]
      /\ term' = [term EXCEPT ![c] = IF r = "pty-req" THEN n ELSE @]
      /\ env' = [env EXCEPT ![c] = IF r = "env" THEN Append(@, n) ELSE @]
      /\ UNCHANGED <<accepting, stage, link, deadline, opened, open, sent,
                     listening, keeping, done>>
    BY DEF Listen, Handle, connVars, channelVars
<1>3. /\ Append(env[c], n) \in Seq(1..n)
      /\ Append(env[c], n) \in Seq(Nat)
      /\ env[c] \in Seq(1..n)
      /\ DOMAIN Append(env[c], n) = 1..(Len(env[c]) + 1)
      /\ DOMAIN env[c] = 1..Len(env[c]) /\ Len(env[c]) \in Nat
      /\ \A i \in 1..Len(env[c]) : Append(env[c], n)[i] = env[c][i]
      /\ Append(env[c], n)[Len(env[c]) + 1] = n
      /\ \A i \in 1..Len(env[c]) : env[c][i] \in 1..heard[c]
    <2>1. env[c] \in Seq(1..heard[c]) /\ 1..heard[c] \subseteq 1..n
        BY <1>1 DEF TypeOK
    <2>2. env[c] \in Seq(1..n) /\ Append(env[c], n) \in Seq(1..n)
          /\ Len(Append(env[c], n)) = Len(env[c]) + 1
          /\ \A i \in 1..Len(env[c]) : Append(env[c], n)[i] = env[c][i]
          /\ Append(env[c], n)[Len(env[c]) + 1] = n
        <3>1. env[c] \in Seq(1..n)
            BY <2>1, SeqMonotonic
        <3> QED
            BY <3>1, <1>1, AppendProperties
    <2>3. Append(env[c], n) \in Seq(Nat)
        BY <1>1, AppendProperties DEF TypeOK
    <2>4. /\ DOMAIN Append(env[c], n) = 1..(Len(env[c]) + 1)
          /\ DOMAIN env[c] = 1..Len(env[c]) /\ Len(env[c]) \in Nat
        BY <2>1, <2>2, LenProperties
    <2>5. \A i \in 1..Len(env[c]) : env[c][i] \in 1..heard[c]
        BY <2>1, <2>4, ElementOfSeq
    <2> QED
        BY <2>2, <2>3, <2>4, <2>5
<1>4. TypeOK'
    <2>1. /\ heard' \in [Conns -> Nat] /\ ready' \in [Conns -> BOOLEAN]
          /\ term' \in [Conns -> Nat] /\ env' \in [Conns -> Seq(Nat)]
        BY <1>1, <1>2, <1>3 DEF TypeOK
    <2>2. ASSUME NEW d \in Conns
          PROVE  /\ heard'[d] <= Len(sent[d])
                 /\ env'[d] \in Seq(1..heard'[d])
                 /\ term'[d] \in 0..heard'[d]
        <3>1. CASE d = c
            <4>1. heard'[c] = n
                BY <1>2 DEF TypeOK
            <4>2. env'[c] = IF r = "env" THEN Append(env[c], n) ELSE env[c]
                BY <1>2 DEF TypeOK
            <4>3. term'[c] = IF r = "pty-req" THEN n ELSE term[c]
                BY <1>2 DEF TypeOK
            <4>4. term[c] \in 0..heard[c]
                BY DEF TypeOK
            <4> HIDE DEF r
            <4>5. n <= Len(sent[c])
                <5>1. Len(sent[c]) \in Nat
                    BY LenProperties DEF TypeOK
                <5> QED
                    BY <5>1, <1>1
            <4>6. env'[c] \in Seq(1..n)
                BY <4>2, <1>3
            <4>7. term'[c] \in 0..n
                BY <4>3, <4>4, <1>1
            <4> QED
                BY <3>1, <4>1, <4>5, <4>6, <4>7
        <3>2. CASE d # c
            BY <3>2, <1>2 DEF TypeOK
        <3> QED
            BY <3>1, <3>2
    <2> QED
        BY <1>2, <2>1, <2>2 DEF TypeOK
<1>5. ASSUME NEW d \in Conns PROVE Staged(d)'
    BY <1>2 DEF Staged, TypeOK
<1>6. ASSUME NEW d \in Conns, d # c PROVE Recorded(d)'
    <2>1. /\ heard'[d] = heard[d] /\ ready'[d] = ready[d]
          /\ term'[d] = term[d] /\ env'[d] = env[d] /\ sent' = sent
        BY <1>2, <1>6 DEF TypeOK
    <2>2. Recorded(d)
        OBVIOUS
    <2> QED
        BY <2>1, <2>2 DEF Recorded, Shells, Before, Range
<1>7. Recorded(c)'
    <2>1. /\ heard'[c] = n
          /\ \A q \in Requests :
                 Before(c, q)' = Before(c, q) \cup (IF r = q THEN {n} ELSE {})
          /\ Shells(c)' = Shells(c) \cup (IF r = "shell" THEN {n} ELSE {})
        BY <1>1, <1>2 DEF Before, Shells, TypeOK
    <2>2. ready'[c] => Shells(c)' # {}
        BY <1>2, <2>1 DEF Recorded, TypeOK
    <2>3. Range(env'[c]) = Before(c, "env")'
        <3>1. Before(c, "env")'
                = Before(c, "env") \cup (IF r = "env" THEN {n} ELSE {})
            BY <2>1 DEF Requests
        <3>2. Range(Append(env[c], n)) = Range(env[c]) \cup {n}
            <4> DEFINE l == Len(env[c])
            <4>1. 1..(l + 1) = (1..l) \cup {l + 1}
                BY <1>3
            <4>2. Range(Append(env[c], n))
                    = {Append(env[c], n)[i] : i \in (1..l) \cup {l + 1}}
                BY <4>1, <1>3 DEF Range
            <4>3. Range(env[c]) = {env[c][i] : i \in 1..l}
                BY <1>3 DEF Range
            <4> QED
                BY <4>2, <4>3, <1>3
        <3> QED
            BY <1>2, <3>1, <3>2 DEF Recorded, TypeOK
    <2>4. \A i, j \in DOMAIN env'[c] : i < j => env'[c][i] < env'[c][j]
        <3>1. CASE r = "env"
            <4>1. env'[c] = Append(env[c], n)
                BY <3>1, <1>2 DEF TypeOK
            <4>2. ASSUME NEW i \in 1..(Len(env[c]) + 1),
                         NEW j \in 1..(Len(env[c]) + 1), i < j
                  PROVE  Append(env[c], n)[i] < Append(env[c], n)[j]
                <5> DEFINE l == Len(env[c])
                <5>1. /\ l \in Nat /\ i \in 1..l
                      /\ Append(env[c], n)[i] = env[c][i]
                      /\ env[c][i] \in 1..heard[c]
                    <6>1. l \in Nat
                        BY <1>3
                    <6>2. i \in 1..l
                        BY <6>1, <4>2
                    <6> QED
                        BY <6>1, <6>2, <1>3
                <5>2. CASE j = l + 1
                    <6>1. Append(env[c], n)[j] = n
                        BY <5>2, <1>3
                    <6>2. env[c][i] < n
                        BY <5>1, <1>1
                    <6> QED
                        BY <5>1, <6>1, <6>2
                <5>3. CASE j # l + 1
                    <6>1. j \in 1..l
                        BY <5>1, <5>3, <4>2
                    <6>2. Append(env[c], n)[j] = env[c][j]
                        BY <6>1, <1>3
                    <6>3. env[c][i] < env[c][j]
                        BY <5>1, <6>1, <4>2, <1>3 DEF Recorded
                    <6> QED
                        BY <5>1, <6>2, <6>3
                <5> QED
                    BY <5>2, <5>3
            <4> QED
                BY <4>1, <4>2, <1>3
        <3>2. CASE r # "env"
            BY <3>2, <1>2 DEF Recorded, TypeOK
        <3> QED
            BY <3>1, <3>2
    <2>5. /\ term'[c] \in Before(c, "pty-req")' \cup {0}
          /\ \A m \in Before(c, "pty-req")' : m <= term'[c]
        <3>1. Before(c, "pty-req")'
                = Before(c, "pty-req") \cup (IF r = "pty-req" THEN {n} ELSE {})
            BY <2>1 DEF Requests
        <3>2. \A m \in Before(c, "pty-req") : m <= n
            BY <1>1 DEF Before
        <3> QED
            BY <1>1, <1>2, <3>1, <3>2 DEF Recorded, TypeOK
    <2> QED
        BY <2>2, <2>3, <2>4, <2>5 DEF Recorded
<1> QED
    BY <1>4, <1>5, <1>6, <1>7

LEMMA ListenEndsInv ==
    ASSUME Inv, NEW c \in Conns, ListenEnds(c)
    PROVE  Inv'
<1>1. /\ listening' = [listening EXCEPT ![c] = FALSE]
      /\ UNCHANGED <<accepting, stage, link, deadline, opened, open, sent, heard,
                     ready, env, term, keeping, done>>
    BY DEF ListenEnds, connVars, channelVars
<1>2. TypeOK'
    BY <1>1 DEF Inv, TypeOK
<1>3. \A d \in Conns : Staged(d)'
    BY <1>1 DEF Inv, Staged
<1> QED
    BY <1>1, <1>2, <1>3, KeepsRecords DEF Inv

-----------------------------------------------------------------------------
LEMMA Steps ==
    ASSUME [Next]_vars
    PROVE  \/ AcceptFails \/ UNCHANGED vars
           \/ \E c \in Conns :
                  \/ Quiet(c) \/ Listen(c) \/ ListenEnds(c)
                  \/ \E r \in Requests : Request(c, r)
BY DEF Next, Client, Quiet

LEMMA NextInv == Inv /\ [Next]_vars => Inv'
<1> SUFFICES ASSUME Inv, [Next]_vars PROVE Inv'
    OBVIOUS
<1>1. ASSUME NEW c \in Conns, Quiet(c) PROVE Inv'
    BY <1>1, QuietTypes, QuietStages, QuietRecords DEF Inv
<1>2. CASE AcceptFails
    <2>1. accepting' = FALSE
          /\ UNCHANGED <<stage, link, deadline, opened, open, sent, heard,
                         listening, ready, env, term, keeping, done>>
        BY <1>2 DEF AcceptFails, connVars, channelVars, requestVars
    <2>2. TypeOK' /\ \A d \in Conns : Staged(d)'
        BY <2>1 DEF Inv, TypeOK, Staged
    <2> QED
        BY <2>1, <2>2, KeepsRecords DEF Inv
<1>3. CASE UNCHANGED vars
    <2>1. UNCHANGED <<accepting, stage, link, deadline, opened, open, sent, heard,
                      listening, ready, env, term, keeping, done>>
        BY <1>3 DEF vars, connVars, channelVars, requestVars
    <2>2. TypeOK' /\ \A d \in Conns : Staged(d)'
        BY <2>1 DEF Inv, TypeOK, Staged
    <2> QED
        BY <2>1, <2>2, KeepsRecords DEF Inv
<1>4. ASSUME NEW c \in Conns, NEW r \in Requests, Request(c, r) PROVE Inv'
    BY <1>4, RequestInv
<1>5. ASSUME NEW c \in Conns, Listen(c) \/ ListenEnds(c) PROVE Inv'
    BY <1>5, ListenInv, ListenEndsInv
<1> QED
    BY <1>1, <1>2, <1>3, <1>4, <1>5, Steps

LEMMA SpecInv == Spec => []Inv
BY InitInv, NextInv, PTL DEF Spec

(* Every field has its type; no more has been heard than was sent, and no  *)
(* field comes from a request not yet heard.                               *)
THEOREM TypesAreKept == Spec => []TypeOK
<1>1. Inv => TypeOK
    BY DEF Inv
<1> QED
    BY <1>1, SpecInv, PTL

(* A terminal is only handed over after a shell was asked for, with every  *)
(* variable and the size requested before, in their order: listen.         *)
THEOREM AllIsHeardFirst == Spec => []HeardFirst
<1>1. Inv => HeardFirst
    BY DEF Inv, Staged, Recorded, HeardFirst
<1> QED
    BY <1>1, SpecInv, PTL

(* The deadline that handleConn sets never ends a session that has been    *)
(* handed over, whatever connection it is and however late the timers are. *)
THEOREM HandedOverIsSpared == Spec => DeadlineSpares
<1>1. ASSUME Inv, [Next]_vars, NEW c \in Conns, stage[c] = "handler", Up(c)
      PROVE  link'[c] # "expired"
    <2>1. ~deadline[c] /\ link \in [Conns -> Links] /\ link[c] = "up"
        BY <1>1 DEF Inv, Staged, TypeOK, Up
    <2>2. ASSUME NEW d \in Conns, Expire(d) PROVE link'[c] # "expired"
        <3>1. d # c
            BY <2>1, <2>2 DEF Expire
        <3> QED
            BY <2>1, <2>2, <3>1 DEF Expire, Down
    <2>3. ASSUME NEW d \in Conns, Quiet(d), ~Expire(d)
          PROVE  link'[c] # "expired"
        BY <2>1, <2>3 DEF Quiet, Server, Accept, Handshake, AuthFails, HandshakeFails,
           NoChannel, ShellAcquired, Aborted, TimedOut, NextChannel, HandOver,
           Drop, HandlerEnds, Quit, Kick, CloseChannel, HangUp, Answered, Tick,
           KeepaliveFails, KeepaliveDone, OpenChannel, connVars, Down, Close
    <2>4. ASSUME NEW d \in Conns, NEW r \in Requests, Request(d, r)
          PROVE  link'[c] # "expired"
        BY <2>1, <2>4 DEF Request, connVars
    <2>5. ASSUME NEW d \in Conns, Listen(d) \/ ListenEnds(d)
          PROVE  link'[c] # "expired"
        BY <2>1, <2>5 DEF Listen, ListenEnds, connVars
    <2>6. CASE AcceptFails \/ UNCHANGED vars
        BY <2>1, <2>6 DEF AcceptFails, vars, connVars
    <2>7. CASE \E d \in Conns :
                   \/ Quiet(d) \/ Listen(d) \/ ListenEnds(d)
                   \/ \E r \in Requests : Request(d, r)
        <3>1. PICK d \in Conns :
                  \/ Quiet(d) \/ Listen(d) \/ ListenEnds(d)
                  \/ \E r \in Requests : Request(d, r)
            BY <2>7
        <3> QED
            BY <2>2, <2>3, <2>4, <2>5, <3>1
    <2> QED
        BY <1>1, <2>6, <2>7, Steps
<1>2. ASSUME Inv, [Next]_vars
      PROVE  \A c \in Conns :
                 stage[c] = "handler" /\ Up(c) => link'[c] # "expired"
    <2>1. TAKE c \in Conns
    <2>2. HAVE stage[c] = "handler" /\ Up(c)
    <2> QED
        BY <1>1, <1>2, <2>2
<1> QED
    BY <1>2, SpecInv, PTL DEF Spec, DeadlineSpares
=============================================================================
