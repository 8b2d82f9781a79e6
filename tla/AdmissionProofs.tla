--------------------------- MODULE AdmissionProofs ---------------------------
(***************************************************************************)
(* What Admission promises, for any connections, keys, files and commands. *)
(***************************************************************************)
EXTENDS Admission, TLAPS

Inside == {"checkop", "grantop", "ready"} \cup Handlers
Targeting == {"ban", "banaddr", "close", "opkey"}
Looking == {"allowlist", "mode", "ops"}

(* What a goroutine has at hand in each step, and when it has joined.      *)
Fits(c, s) ==
    /\ c \in member <=>
           s.step \in Inside \/ (s.step \in Handshake /\ s.target # Nobody)
    /\ s.target # Nobody => s.step \in Targeting \cup Looking
    /\ s.step \in Targeting => s.target # Nobody
    /\ s.step \in Handshake /\ s.target = Nobody => s.tries < MaxTries
    /\ s.step = "interactive" => s.key = NoKey
    /\ s.step = "reverify" => s.rest \subseteq member
    /\ s.step \in Looking /\ s.target # Nobody =>
           s.target \in member /\ s.rest \subseteq member

Base == TypeOK /\ \A c \in Conns : Fits(c, session[c])

(* The steps the promises are about; all others begin and end outside a    *)
(* check, or end a loop that has come to its end.                          *)
CheckStep(c) ==
    \/ Admission(c)
    \/ LockMembers(c)
    \/ \E u \in session[c].rest : ReverifyVisit(c, u)

Elsewhere(c) ==
    /\ session[c].step \notin Handshake
    /\ session'[c].step \notin Handshake \cup {"reverify"}
    /\ session[c].step = "reverify" => session[c].rest = {}

Frame ==
    /\ closed \subseteq closed'
    /\ \A c \in Conns : Iterates(c) => member' = member
    /\ \A c \in Conns : session'[c] = session[c] \/ CheckStep(c) \/ Elsewhere(c)
    /\ \A c \in member : session'[c].key = session[c].key

-----------------------------------------------------------------------------
LEMMA InitBase == Init => Base
  BY AuthAssumption
  DEF Init, Base, TypeOK, Fits, Session, Steps, Handshake, Handlers,
      Inside, Targeting, Looking, Durations

LEMMA PutType ==
    ASSUME TypeOK, NEW s, NEW k, NEW d \in Durations, Put(s, k, d)
    PROVE  entry' \in [Entries -> {"none"} \cup Durations]
  BY DEF Put, TypeOK

(* What a step may change besides the session of its goroutine, if nobody  *)
(* joins or leaves by it.                                                  *)
Effects ==
    /\ member' = member /\ passphrase' = passphrase
    /\ entry' \in [Entries -> {"none"} \cup Durations]
    /\ allowlistMode' \in BOOLEAN /\ left' \in 0..MaxCommands
    /\ isOp' \subseteq member /\ closed \subseteq closed' /\ closed' \subseteq Conns

LEMMA NoEffects ==
    ASSUME Base, UNCHANGED <<access, passphrase, people, left>>
    PROVE  Effects
  BY DEF Effects, access, people, Base, TypeOK

LEMMA Turn ==
    ASSUME Base, NEW c \in Conns, NEW s \in Session,
           session' = [session EXCEPT ![c] = s],
           Fits(c, s), s.key = session[c].key \/ c \notin member,
           CheckStep(c) \/ Elsewhere(c), Effects
    PROVE  Base' /\ Frame
  <1>1. /\ session' \in [Conns -> Session] /\ session'[c] = s
        /\ \A d \in Conns \ {c} : session'[d] = session[d]
    BY DEF Base, TypeOK
  <1>2. TypeOK'
    BY <1>1 DEF Base, TypeOK, Effects
  <1>3. \A d \in Conns : Fits(d, session[d])'
    BY <1>1 DEF Base, Fits, Effects
  <1>4. Frame
    BY <1>1 DEF Frame, Base, TypeOK, Effects
  <1>. QED  BY <1>2, <1>3, <1>4 DEF Base

LEMMA StillStep ==
    ASSUME Base, UNCHANGED session, Effects
    PROVE  Base' /\ Frame
  BY DEF Base, TypeOK, Fits, Frame, Effects

-----------------------------------------------------------------------------
(* The handshake.                                                          *)
LEMMA TryStep ==
    ASSUME Base, NEW c \in Conns, TryKey(c) \/ TryKeyboard(c)
    PROVE  Base' /\ Frame
  <1>. DEFINE Trying(k, step) == [session[c] EXCEPT !.step = step, !.key = k]
  <1>1. ASSUME At(c, "out"), session[c].tries < MaxTries,
               NEW k \in Keys \cup {NoKey}, NEW step \in {"banned", "bannedAddr"}
        PROVE  Trying(k, step) \in Session /\ Fits(c, Trying(k, step))
                   /\ c \notin member
    <2>1. session[c] \in Session /\ Fits(c, session[c])
      BY DEF Base, TypeOK
    <2>2. Trying(k, step) \in Session
      BY <2>1 DEF Session, Steps, Handshake
    <2>3. c \notin member /\ session[c].target = Nobody
      BY <1>1, <2>1 DEF At, Fits, Inside, Handlers, Handshake, Targeting, Looking
    <2>4. /\ Trying(k, step).step = step /\ Trying(k, step).target = Nobody
          /\ Trying(k, step).tries < MaxTries
      BY <1>1, <2>1, <2>3 DEF Session
    <2>5. Fits(c, Trying(k, step))
      BY <2>3, <2>4 DEF Fits, Inside, Handlers, Handshake, Targeting, Looking
    <2>. QED  BY <2>2, <2>3, <2>5
  <1>2. CASE TryKey(c)
    <2>. DEFINE s == [session[c] EXCEPT !.step = "banned", !.key = KeyOf[c]]
    <2>1. KeyOf[c] \in Keys \cup {NoKey}
      BY AuthAssumption
    <2>2. s \in Session /\ Fits(c, s) /\ c \notin member
      BY <1>1, <1>2, <2>1 DEF TryKey
    <2>3. session' = [session EXCEPT ![c] = s]
      BY <1>2 DEF TryKey, Base, TypeOK
    <2>. QED
      BY <1>2, <2>2, <2>3, Turn, NoEffects DEF TryKey, CheckStep, Admission
  <1>3. CASE TryKeyboard(c)
    <2>. DEFINE s == [session[c] EXCEPT !.step = "bannedAddr", !.key = NoKey]
    <2>1. s \in Session /\ Fits(c, s) /\ c \notin member
      BY <1>1, <1>3 DEF TryKeyboard
    <2>2. session' = [session EXCEPT ![c] = s]
      BY <1>3 DEF TryKeyboard, Base, TypeOK
    <2>. QED
      BY <1>3, <2>1, <2>2, Turn, NoEffects DEF TryKeyboard, CheckStep, Admission
  <1>. QED  BY <1>2, <1>3

(* On to the next look, in or back out.                                    *)
LEMMA PassTo ==
    ASSUME Base, NEW c \in Conns, session[c].step \in Handshake,
           session[c].target = Nobody, NEW step \in Handshake \cup {"accepted"},
           step = "interactive" => session[c].key = NoKey, Goto(c, step)
    PROVE  LET s == [session[c] EXCEPT !.step = step]
           IN  s \in Session /\ Fits(c, s) /\ session' = [session EXCEPT ![c] = s]
  BY DEF Base, TypeOK, Session, Steps, Handshake, Handlers, Inside, Targeting,
     Looking, Fits, Goto

LEMMA RefusedFits ==
    ASSUME Base, NEW c \in Conns, session[c].step \in Handshake,
           session[c].target = Nobody
    PROVE  Refused(c) \in Session /\ Fits(c, Refused(c))
               /\ Refused(c).key = session[c].key
  <1>1. session[c] \in Session /\ Fits(c, session[c])
    BY DEF Base, TypeOK
  <1>2. session[c].tries + 1 \in 0..MaxTries
    BY <1>1, AuthAssumption DEF Fits, Session
  <1>3. Refused(c) \in Session
    BY <1>1, <1>2 DEF Refused, Session, Steps
  <1>4. /\ Refused(c).step = "out" /\ Refused(c).target = Nobody
        /\ Refused(c).key = session[c].key
    BY <1>1 DEF Refused, Session
  <1>5. c \notin member
    BY <1>1 DEF Fits, Inside, Handlers, Handshake
  <1>6. Fits(c, Refused(c))
    BY <1>4, <1>5 DEF Fits, Inside, Handlers, Handshake, Targeting, Looking
  <1>. QED  BY <1>3, <1>4, <1>6

LEMMA PassStep ==
    ASSUME Base, NEW c \in Conns, session[c].step \in Handshake,
           session[c].target = Nobody, NEW step \in Handshake \cup {"accepted"},
           step = "interactive" => session[c].key = NoKey,
           Goto(c, step), CheckStep(c),
           Effects
    PROVE  Base' /\ Frame
  <1>. DEFINE s == [session[c] EXCEPT !.step = step]
  <1>1. s \in Session /\ Fits(c, s) /\ session' = [session EXCEPT ![c] = s]
    BY PassTo
  <1>2. s.key = session[c].key
    BY DEF Base, TypeOK, Session
  <1>. HIDE DEF s
  <1>. QED  BY <1>1, <1>2, Turn

LEMMA RefuseStep ==
    ASSUME Base, NEW c \in Conns, session[c].step \in Handshake,
           session[c].target = Nobody, Refuse(c), CheckStep(c),
           Effects
    PROVE  Base' /\ Frame
  <1>1. Refused(c) \in Session /\ Fits(c, Refused(c))
            /\ Refused(c).key = session[c].key
    BY RefusedFits
  <1>. QED  BY <1>1, Turn DEF Refuse

LEMMA CheckBanStep ==
    ASSUME Base, NEW c \in Conns,
           NEW n \in {"banned", "bannedAddr", "bannedClient"}, CheckBan(c, n)
    PROVE  Base' /\ Frame
  <1>. DEFINE step == IF In(n, Subject(c)[n]) THEN "bypass" ELSE After(c)[n]
  <1>1. /\ step \in Handshake
        /\ step = "interactive" => session[c].key = NoKey
    BY DEF After, Unbanned, Handshake
  <1>2. session[c].step \in Handshake /\ session[c].target = Nobody
    BY DEF CheckBan, At, Handshake, Base, Fits, Targeting, Looking
  <1>3. Goto(c, step) /\ CheckStep(c)
    BY DEF CheckBan, CheckStep, Admission
  <1>4. Effects
    BY NoEffects DEF CheckBan
  <1>. HIDE DEF step
  <1>. QED  BY <1>1, <1>2, <1>3, <1>4, PassStep

LEMMA BypassStep ==
    ASSUME Base, NEW c \in Conns, Bypass(c)
    PROVE  Base' /\ Frame
  <1>1. session[c].step \in Handshake /\ session[c].target = Nobody
    BY DEF Bypass, At, Handshake, Base, Fits, Targeting, Looking
  <1>2. Effects /\ CheckStep(c)
    BY NoEffects DEF Bypass, CheckStep, Admission
  <1>3. CASE Refuse(c)
    BY <1>1, <1>2, <1>3, RefuseStep
  <1>4. CASE Goto(c, Unbanned(c))
    <2>1. /\ Unbanned(c) \in Handshake
          /\ Unbanned(c) = "interactive" => session[c].key = NoKey
      BY DEF Unbanned, Handshake
    <2>. QED  BY <1>1, <1>2, <1>4, <2>1, PassStep
  <1>. QED  BY <1>3, <1>4 DEF Bypass

LEMMA InteractiveStep ==
    ASSUME Base, NEW c \in Conns, Interactive(c)
    PROVE  Base' /\ Frame
  <1>1. session[c].step \in Handshake /\ session[c].target = Nobody
    BY DEF Interactive, At, Handshake, Base, Fits, Targeting, Looking
  <1>2. CheckStep(c) /\ (Goto(c, "accepted") \/ Refuse(c))
    BY DEF Interactive, CheckStep, Admission
  <1>3. entry' \in [Entries -> {"none"} \cup Durations]
    BY PutType DEF Interactive, Base, TypeOK, Durations
  <1>4. Effects
    BY <1>3 DEF Interactive, people, Base, TypeOK, Effects
  <1>. QED  BY <1>1, <1>2, <1>4, PassStep, RefuseStep

-----------------------------------------------------------------------------
(* CheckPublicKey, for the handshake of c or for the member it verifies.   *)
LEMMA LookingFits ==
    ASSUME Base, NEW c \in Conns, session[c].step \in Looking,
           NEW listed \in BOOLEAN, NEW step \in Looking
    PROVE  LET s == [session[c] EXCEPT !.listed = listed, !.step = step]
           IN  s \in Session /\ Fits(c, s) /\ s.key = session[c].key
  <1>. DEFINE s == [session[c] EXCEPT !.listed = listed, !.step = step]
  <1>1. session[c] \in Session /\ Fits(c, session[c])
    BY DEF Base, TypeOK
  <1>2. s \in Session
    BY <1>1 DEF Session, Steps, Handshake, Looking
  <1>3. /\ s.step = step /\ s.target = session[c].target
        /\ s.tries = session[c].tries /\ s.key = session[c].key
        /\ s.rest = session[c].rest
    BY <1>1 DEF Session
  <1>4. Fits(c, s)
    BY <1>1, <1>3 DEF Fits, Inside, Handlers, Handshake, Targeting, Looking
  <1>. QED  BY <1>2, <1>3, <1>4

LEMMA CheckAllowlistStep ==
    ASSUME Base, NEW c \in Conns, CheckAllowlist(c)
    PROVE  Base' /\ Frame
  <1>. DEFINE s == [session[c] EXCEPT !.listed = In("allowlist", Checked(c)),
                                      !.step = "mode"]
  <1>1. session[c].step \in Looking /\ "mode" \in Looking
    BY DEF CheckAllowlist, At, Looking
  <1>2. In("allowlist", Checked(c)) \in BOOLEAN
    BY DEF In
  <1>3. s \in Session /\ Fits(c, s) /\ s.key = session[c].key
    BY <1>1, <1>2, LookingFits
  <1>4. session' = [session EXCEPT ![c] = s]
    BY DEF CheckAllowlist, Base, TypeOK
  <1>5. Effects /\ CheckStep(c)
    BY NoEffects DEF CheckAllowlist, CheckStep, Admission
  <1>. HIDE DEF s
  <1>. QED  BY <1>3, <1>4, <1>5, Turn

(* The check says yes, or the member has been dealt with.                  *)
LEMMA AllowStep ==
    ASSUME Base, NEW c \in Conns, session[c].step \in Looking, Allow(c),
           CheckStep(c), Effects
    PROVE  Base' /\ Frame
  <1>2. session[c] \in Session /\ Fits(c, session[c])
    BY DEF Base, TypeOK
  <1>3. CASE session[c].target = Nobody
    <2>. DEFINE s == [session[c] EXCEPT !.step = "accepted"]
    <2>1. session' = [session EXCEPT ![c] = s]
      BY <1>3 DEF Allow, Goto, Base, TypeOK
    <2>2. s \in Session
      BY <1>2 DEF Session, Steps
    <2>3. /\ s.step = "accepted" /\ s.target = Nobody
          /\ s.key = session[c].key
      BY <1>2, <1>3 DEF Session
    <2>4. Fits(c, s)
      BY <1>2, <1>3, <2>3 DEF Fits, Inside, Handlers, Handshake, Targeting, Looking
    <2>. HIDE DEF s
    <2>. QED  BY <2>1, <2>2, <2>3, <2>4, Turn
  <1>4. CASE session[c].target # Nobody
    <2>. DEFINE s == [session[c] EXCEPT !.step = "reverify", !.target = Nobody]
    <2>1. session' = [session EXCEPT ![c] = s]
      BY <1>4 DEF Allow, Base, TypeOK
    <2>2. s \in Session
      BY <1>2 DEF Session, Steps, Handlers
    <2>3. /\ s.step = "reverify" /\ s.target = Nobody
          /\ s.key = session[c].key /\ s.rest = session[c].rest
      BY <1>2 DEF Session
    <2>4. Fits(c, s)
      BY <1>2, <1>4, <2>3 DEF Fits, Inside, Handlers, Handshake, Targeting, Looking
    <2>. HIDE DEF s
    <2>. QED  BY <2>1, <2>2, <2>3, <2>4, Turn
  <1>. QED  BY <1>3, <1>4

LEMMA CheckModeStep ==
    ASSUME Base, NEW c \in Conns, CheckMode(c)
    PROVE  Base' /\ Frame
  <1>1. session[c].step \in Looking /\ CheckStep(c) /\ Effects
    BY NoEffects DEF CheckMode, At, Looking, CheckStep, Admission
  <1>2. CASE Allow(c)
    BY <1>1, <1>2, AllowStep
  <1>3. CASE Goto(c, "ops")
    <2>. DEFINE s == [session[c] EXCEPT !.listed = session[c].listed,
                                        !.step = "ops"]
    <2>1. session[c].listed \in BOOLEAN /\ "ops" \in Looking
      BY DEF Base, TypeOK, Session, Looking
    <2>2. s \in Session /\ Fits(c, s) /\ s.key = session[c].key
      BY <1>1, <2>1, LookingFits
    <2>3. session' = [session EXCEPT ![c] = s]
      BY <1>3 DEF Goto, Base, TypeOK, Session
    <2>. HIDE DEF s
    <2>. QED  BY <1>1, <2>2, <2>3, Turn
  <1>. QED  BY <1>2, <1>3 DEF CheckMode

LEMMA CheckOpsStep ==
    ASSUME Base, NEW c \in Conns, CheckOps(c)
    PROVE  Base' /\ Frame
  <1>1. /\ session[c].step \in Looking /\ session[c].step \in Handshake
        /\ CheckStep(c)
    BY DEF CheckOps, At, Looking, Handshake, CheckStep, Admission
  <1>2. Effects
    <2>1. session[c].target # Nobody => session[c].target \in Conns
      BY DEF Base, TypeOK, Session
    <2>2. closed \subseteq closed' /\ closed' \subseteq Conns
      BY <2>1 DEF CheckOps, Deny, Base, TypeOK
    <2>. QED  BY <2>2 DEF CheckOps, access, Base, TypeOK, Effects
  <1>3. CASE Allow(c)
    BY <1>1, <1>2, <1>3, AllowStep
  <1>4. CASE Refuse(c) /\ session[c].target = Nobody
    BY <1>1, <1>2, <1>4, RefuseStep
  <1>. QED  BY <1>3, <1>4 DEF CheckOps, Deny

LEMMA AdmissionStep ==
    ASSUME Base, NEW c \in Conns, Admission(c)
    PROVE  Base' /\ Frame
  BY TryStep, CheckBanStep, BypassStep, InteractiveStep, CheckAllowlistStep,
     CheckModeStep, CheckOpsStep DEF Admission

LEMMA ReverifyVisitStep ==
    ASSUME Base, NEW c \in Conns, NEW u \in session[c].rest, ReverifyVisit(c, u)
    PROVE  Base' /\ Frame
  <1>. DEFINE s == [session[c] EXCEPT !.step = "allowlist", !.target = u,
                        !.rest = session[c].rest \ {u}, !.length = "ever"]
  <1>1. session[c] \in Session /\ Fits(c, session[c]) /\ At(c, "reverify")
    BY DEF Base, TypeOK, ReverifyVisit
  <1>2. u \in member /\ u \in Conns /\ u # Nobody
    BY <1>1, AuthAssumption DEF Fits, At, Base, TypeOK
  <1>3. s \in Session
    BY <1>1, <1>2 DEF Session, Steps, Handshake, Durations
  <1>4. /\ s.step = "allowlist" /\ s.target = u
        /\ s.key = session[c].key /\ s.rest \subseteq session[c].rest
    BY <1>1 DEF Session
  <1>5. Fits(c, s)
    BY <1>1, <1>2, <1>4
    DEF At, Fits, Inside, Handlers, Handshake, Targeting, Looking
  <1>6. session' = [session EXCEPT ![c] = s]
    BY DEF ReverifyVisit, Set, Base, TypeOK
  <1>7. Effects /\ CheckStep(c)
    BY NoEffects DEF ReverifyVisit, CheckStep
  <1>. HIDE DEF s
  <1>. QED  BY <1>3, <1>4, <1>5, <1>6, <1>7, Turn

LEMMA LockMembersStep ==
    ASSUME Base, NEW c \in Conns, LockMembers(c)
    PROVE  Base' /\ Frame
  <1>. DEFINE s == [session[c] EXCEPT !.step = "reverify", !.target = Nobody,
                        !.rest = member, !.length = "ever"]
  <1>1. session[c] \in Session /\ Fits(c, session[c]) /\ At(c, "verify")
    BY DEF Base, TypeOK, LockMembers
  <1>2. s \in Session
    BY <1>1 DEF Session, Steps, Handlers, Durations, Base, TypeOK
  <1>3. /\ s.step = "reverify" /\ s.target = Nobody
        /\ s.key = session[c].key /\ s.rest = member
    BY <1>1 DEF Session
  <1>4. Fits(c, s)
    BY <1>1, <1>3 DEF At, Fits, Inside, Handlers, Handshake, Targeting, Looking
  <1>5. session' = [session EXCEPT ![c] = s]
    BY DEF LockMembers, Set, Base, TypeOK
  <1>6. Effects /\ CheckStep(c)
    BY NoEffects DEF LockMembers, CheckStep
  <1>. HIDE DEF s
  <1>. QED  BY <1>2, <1>3, <1>4, <1>5, <1>6, Turn

-----------------------------------------------------------------------------
(* The handlers of an operator: from one step inside to the next.          *)
Restable == SUBSET (Conns \cup Keys \cup BanEntries)
Between(c) == session[c].step \in Inside
                  /\ (session[c].step = "reverify" => session[c].rest = {})

LEMMA InsideStep ==
    ASSUME Base, NEW c \in Conns, NEW s \in Session, Between(c),
           session' = [session EXCEPT ![c] = s], s.key = session[c].key,
           s.step \in Inside, s.step # "reverify",
           s.target # Nobody <=> s.step \in Targeting, Effects
    PROVE  Base' /\ Frame
  <1>1. c \in member
    BY DEF Between, Base, Fits
  <1>2. Fits(c, s)
    BY <1>1 DEF Fits, Inside, Handlers, Handshake, Targeting, Looking
  <1>3. session'[c] = s
    BY DEF Base, TypeOK
  <1>4. Elsewhere(c)
    BY <1>3 DEF Elsewhere, Between, Inside, Handlers, Handshake
  <1>. QED  BY <1>2, <1>4, Turn

LEMMA SetStep ==
    ASSUME Base, NEW c \in Conns, Between(c),
           NEW step \in Inside, step # "reverify",
           NEW target \in Conns \cup {Nobody},
           target # Nobody <=> step \in Targeting,
           NEW rest \in Restable, NEW d \in Durations,
           Set(c, step, target, rest, d), Effects
    PROVE  Base' /\ Frame
  <1>. DEFINE s == [session[c] EXCEPT !.step = step, !.target = target,
                        !.rest = rest, !.length = d]
  <1>1. session[c] \in Session
    BY DEF Base, TypeOK
  <1>2. s \in Session
    BY <1>1 DEF Session, Steps, Inside, Restable
  <1>3. s.step = step /\ s.target = target /\ s.key = session[c].key
    BY <1>1 DEF Session
  <1>4. session' = [session EXCEPT ![c] = s]
    BY DEF Set, Base, TypeOK
  <1>. HIDE DEF s
  <1>. QED  BY <1>2, <1>3, <1>4, InsideStep

LEMMA GotoStep ==
    ASSUME Base, NEW c \in Conns, Between(c),
           NEW step \in Inside, step # "reverify",
           session[c].target # Nobody <=> step \in Targeting,
           Goto(c, step), Effects
    PROVE  Base' /\ Frame
  <1>. DEFINE s == [session[c] EXCEPT !.step = step]
  <1>1. session[c] \in Session
    BY DEF Base, TypeOK
  <1>2. s \in Session
    BY <1>1 DEF Session, Steps, Inside
  <1>3. /\ s.step = step /\ s.target = session[c].target
        /\ s.key = session[c].key
    BY <1>1 DEF Session
  <1>4. session' = [session EXCEPT ![c] = s]
    BY DEF Goto, Base, TypeOK
  <1>. HIDE DEF s
  <1>. QED  BY <1>2, <1>3, <1>4, InsideStep

Strike(c, e) == session' = [session EXCEPT ![c].rest = @ \ {e}]

LEMMA RestStep ==
    ASSUME Base, NEW c \in Conns, NEW e,
           session[c].step \in {"query", "import", "load"},
           Strike(c, e), Effects
    PROVE  Base' /\ Frame
  <1>. DEFINE s == [session[c] EXCEPT !.rest = session[c].rest \ {e}]
  <1>1. session[c] \in Session /\ Fits(c, session[c])
    BY DEF Base, TypeOK
  <1>2. s \in Session
    BY <1>1 DEF Session
  <1>3. /\ s.step = session[c].step /\ s.target = session[c].target
        /\ s.key = session[c].key
    BY <1>1 DEF Session
  <1>4. session' = [session EXCEPT ![c] = s]
    BY DEF Strike, Base, TypeOK
  <1>5. /\ Between(c) /\ s.step \in Inside /\ s.step # "reverify"
        /\ s.target = Nobody /\ s.step \notin Targeting
    BY <1>1, <1>3 DEF Between, Inside, Handlers, Fits, Targeting, Looking
  <1>. HIDE DEF s
  <1>. QED  BY <1>2, <1>3, <1>4, <1>5, InsideStep

LEMMA PutEffects ==
    ASSUME Base, NEW n, NEW k, NEW d \in Durations, Put(n, k, d),
           UNCHANGED <<allowlistMode, passphrase, people, left>>
    PROVE  Effects
  <1>1. entry' \in [Entries -> {"none"} \cup Durations]
    BY PutType DEF Base
  <1>. QED  BY <1>1 DEF Effects, people, Base, TypeOK

LEMMA Lengths ==
    ASSUME Base, NEW c \in Conns
    PROVE  session[c].length \in Durations
  BY DEF Base, TypeOK, Session

(* One step of a handler after the other.                                  *)
LEMMA HandleStep ==
    ASSUME Base, NEW c \in Conns, Handle(c)
    PROVE  Base' /\ Frame
  <1>1. CASE BanKey(c)
    <2>1. Effects
      BY <1>1, PutEffects, Lengths DEF BanKey
    <2>2. /\ Between(c) /\ "banaddr" \in Inside /\ "banaddr" \in Targeting
          /\ session[c].target # Nobody
      BY <1>1 DEF BanKey, At, Between, Inside, Handlers, Targeting, Base, Fits
    <2>. QED  BY <1>1, <2>1, <2>2, GotoStep DEF BanKey
  <1>2. CASE BanAddr(c)
    <2>1. Effects
      BY <1>2, PutEffects, Lengths DEF BanAddr
    <2>2. /\ Between(c) /\ "close" \in Inside /\ "close" \in Targeting
          /\ session[c].target # Nobody
      BY <1>2 DEF BanAddr, At, Between, Inside, Handlers, Targeting, Base, Fits
    <2>. QED  BY <1>2, <2>1, <2>2, GotoStep DEF BanAddr
  <1>3. /\ {} \in Restable /\ "ready" \in Inside /\ "ready" # "reverify"
        /\ Nobody \in Conns \cup {Nobody} /\ "ready" \notin Targeting
        /\ "ever" \in Durations
    BY DEF Restable, Inside, Targeting, Durations
  <1>4. CASE CloseTarget(c)
    <2>1. Between(c) /\ session[c].target \in Conns
      BY <1>4 DEF CloseTarget, At, Between, Inside, Handlers, Targeting, Base,
         TypeOK, Fits, Session
    <2>2. Effects
      BY <1>4, <2>1 DEF CloseTarget, access, Base, TypeOK, Effects
    <2>. QED  BY <1>3, <1>4, <2>1, <2>2, SetStep DEF CloseTarget, Done
  <1>5. CASE OpKey(c)
    <2>1. Effects
      BY <1>5, PutEffects, Lengths DEF OpKey
    <2>2. Between(c)
      BY <1>5 DEF OpKey, At, Between, Inside, Handlers
    <2>. QED  BY <1>3, <1>5, <2>1, <2>2, SetStep DEF OpKey, Done
  <1>6. ASSUME NEW e \in session[c].rest, BanField(c, e)
        PROVE  Base' /\ Frame
    <2>1. Effects
      BY <1>6, PutEffects, Lengths DEF BanField
    <2>2. /\ session[c].step \in {"query", "import", "load"}
          /\ Strike(c, e)
      BY <1>6 DEF BanField, At, Strike
    <2>. QED  BY <2>1, <2>2, RestStep
  <1>7. CASE QueryEnd(c)
    <2>1. Between(c) /\ Effects
      BY <1>7, NoEffects DEF QueryEnd, At, Between, Inside, Handlers
    <2>. QED  BY <1>3, <1>7, <2>1, SetStep DEF QueryEnd, Done
  <1>8. ASSUME NEW keys \in {Listed, {}}, ReadFile(c, keys)
        PROVE  Base' /\ Frame
    <2>1. /\ keys \in Restable /\ "load" \in Inside /\ "load" # "reverify"
          /\ "load" \notin Targeting
      BY AuthAssumption DEF Restable, Inside, Handlers, Targeting
    <2>2. Between(c) /\ Effects
      BY <1>8, NoEffects DEF ReadFile, At, Between, Inside, Handlers
    <2>. QED  BY <1>3, <1>8, <2>1, <2>2, SetStep DEF ReadFile
  <1>9. ASSUME NEW k \in session[c].rest, LoadKey(c, k)
        PROVE  Base' /\ Frame
    <2>1. Effects
      BY <1>9, PutEffects DEF LoadKey, Durations
    <2>2. /\ session[c].step \in {"query", "import", "load"}
          /\ Strike(c, k)
      BY <1>9 DEF LoadKey, At, Strike
    <2>. QED  BY <2>1, <2>2, RestStep
  <1>10. ASSUME NEW u \in session[c].rest, ImportVisit(c, u)
         PROVE  Base' /\ Frame
    <2>1. Effects
      <3>1. CASE Put("allowlist", session[u].key, "ever")
        BY <1>10, <3>1, PutEffects DEF ImportVisit, Durations
      <3>2. CASE UNCHANGED entry
        BY <1>10, <3>2, NoEffects DEF ImportVisit, access
      <3>. QED  BY <1>10, <3>1, <3>2 DEF ImportVisit
    <2>2. /\ session[c].step \in {"query", "import", "load"}
          /\ Strike(c, u)
      BY <1>10 DEF ImportVisit, At, Strike
    <2>. QED  BY <2>1, <2>2, RestStep
  <1>11. CASE LoopEnd(c)
    <2>1. Between(c) /\ Effects
      BY <1>11, NoEffects DEF LoopEnd, At, Between, Inside, Handlers
    <2>. QED  BY <1>3, <1>11, <2>1, SetStep DEF LoopEnd, Done
  <1>. QED
    BY <1>1, <1>2, <1>4, <1>5, <1>6, <1>7, <1>8, <1>9, <1>10, <1>11,
       LockMembersStep, ReverifyVisitStep DEF Handle

(* The commands.                                                           *)
LEMMA IssuingStep ==
    ASSUME Base, NEW c \in Conns, NEW name, Issuing(c, name)
    PROVE  /\ Between(c) /\ left' \in 0..MaxCommands
           /\ session[c].target = Nobody
  BY DEF Issuing, At, Between, Inside, Handlers, Base, TypeOK, Fits, Targeting,
     Looking

LEMMA IssueStep ==
    ASSUME Base, NEW c \in Conns, Issue(c)
    PROVE  Base' /\ Frame
  <1>1. Between(c) /\ session[c].target = Nobody
    BY DEF Issue, At, Between, Inside, Base, Fits, Targeting, Looking
  <1>2. Effects
    BY AuthAssumption DEF Issue, access, people, Base, TypeOK, Effects
  <1>3. "command" \in Inside \ ({"reverify"} \cup Targeting)
    BY DEF Inside, Handlers, Targeting
  <1>. QED  BY <1>1, <1>2, <1>3, GotoStep DEF Issue

LEMMA CommandStep ==
    ASSUME Base, NEW c \in Conns, Command(c)
    PROVE  Base' /\ Frame
  <1>1. /\ {} \in Restable /\ member \in Restable /\ Queries \subseteq Restable
        /\ {"ban", "opkey", "query", "import", "reload", "verify"}
               \subseteq Inside \ {"reverify"}
        /\ {"ban", "opkey"} \subseteq Targeting
        /\ {"query", "import", "reload", "verify"} \cap Targeting = {}
        /\ Durations = {"for", "ever"} /\ Nobody \notin Conns
        /\ member \subseteq Conns
        /\ "ready" \in Inside \ ({"reverify"} \cup Targeting)
    BY QueryAssumption, AuthAssumption
    DEF Restable, Inside, Handlers, Targeting, Durations, Base, TypeOK
  <1>2. ASSUME NEW t \in member, NEW d \in Durations, Ban(c, t, d)
        PROVE  Base' /\ Frame
    <2>1. Between(c) /\ Effects
      BY <1>2, IssuingStep DEF Ban, access, people, Base, TypeOK, Effects
    <2>. QED  BY <1>1, <1>2, <2>1, SetStep DEF Ban
  <1>3. ASSUME NEW t \in member, NEW value \in BOOLEAN, NEW d \in Durations,
               Op(c, t, value, d)
        PROVE  Base' /\ Frame
    <2>1. Between(c) /\ Effects
      BY <1>1, <1>3, IssuingStep DEF Op, access, Base, TypeOK, Effects
    <2>2. (IF value THEN d ELSE "for") \in Durations
      BY <1>1
    <2>. QED  BY <1>1, <1>3, <2>1, <2>2, SetStep DEF Op
  <1>4. ASSUME NEW es \in Queries, NEW d \in Durations, BanQuery(c, es, d)
        PROVE  Base' /\ Frame
    <2>1. Between(c) /\ Effects
      BY <1>4, IssuingStep DEF BanQuery, access, people, Base, TypeOK, Effects
    <2>. QED  BY <1>1, <1>4, <2>1, SetStep DEF BanQuery
  <1>5. ASSUME NEW value \in BOOLEAN, SetAllowlistMode(c, value)
        PROVE  Base' /\ Frame
    <2>1. Between(c) /\ Effects
      BY <1>5, IssuingStep DEF SetAllowlistMode, people, Base, TypeOK, Effects
    <2>. QED  BY <1>1, <1>5, <2>1, SetStep DEF SetAllowlistMode, Done
  <1>6. ASSUME NEW value \in BOOLEAN, Reload(c, value)
        PROVE  Base' /\ Frame
    <2>1. entry' \in [Entries -> {"none"} \cup Durations]
      BY <1>6 DEF Reload, Base, TypeOK
    <2>2. Between(c) /\ session[c].target = Nobody /\ Effects
      BY <1>6, <2>1, IssuingStep DEF Reload, people, Base, TypeOK, Effects
    <2>. QED  BY <1>1, <1>6, <2>2, GotoStep DEF Reload
  <1>7. ASSUME NEW k \in Keys, NEW d \in Durations, Allowlist(c, k, d)
        PROVE  Base' /\ Frame
    <2>1. entry' \in [Entries -> {"none"} \cup Durations]
      BY <1>7, PutType DEF Allowlist, Base
    <2>2. Between(c) /\ Effects
      BY <1>7, <2>1, IssuingStep DEF Allowlist, people, Base, TypeOK, Effects
    <2>. QED  BY <1>1, <1>7, <2>2, SetStep DEF Allowlist, Done
  <1>8. CASE Import(c)
    <2>1. Between(c) /\ Effects
      BY <1>8, IssuingStep DEF Import, access, people, Base, TypeOK, Effects
    <2>. QED  BY <1>1, <1>8, <2>1, SetStep DEF Import
  <1>9. CASE Reverify(c)
    <2>1. Between(c) /\ session[c].target = Nobody /\ Effects
      BY <1>9, IssuingStep DEF Reverify, access, people, Base, TypeOK, Effects
    <2>2. CASE Goto(c, "verify")
      BY <1>1, <2>1, <2>2, GotoStep
    <2>3. CASE Done(c)
      BY <1>1, <2>1, <2>3, SetStep DEF Done
    <2>. QED  BY <1>9, <2>2, <2>3 DEF Reverify
  <1>10. CASE GiveUp(c)
    <2>1. Between(c) /\ Effects
      BY <1>10, NoEffects DEF GiveUp, At, Between, Inside, Handlers
    <2>. QED  BY <1>1, <1>10, <2>1, SetStep DEF GiveUp, Done
  <1>. QED
    BY <1>2, <1>3, <1>4, <1>5, <1>6, <1>7, <1>8, <1>9, <1>10, IssueStep
    DEF Command

-----------------------------------------------------------------------------
(* Host.Connect.                                                           *)
LEMMA EnterStep ==
    ASSUME Base, NEW c \in Conns, Enter(c)
    PROVE  Base' /\ Frame
  <1>. DEFINE s(step) == [session[c] EXCEPT !.step = step]
  <1>1. session[c] \in Session /\ Fits(c, session[c])
    BY DEF Base, TypeOK
  <1>2. session[c].target = Nobody /\ c \notin member /\ At(c, "accepted")
    BY <1>1 DEF Enter, At, Fits, Inside, Handlers, Handshake, Targeting, Looking
  <1>3. \A step \in {"gone", "checkop"} :
            /\ s(step) \in Session /\ s(step).step = step
            /\ s(step).target = Nobody /\ s(step).key = session[c].key
    BY <1>1, <1>2 DEF Session, Steps
  <1>4. CASE Goto(c, "gone") /\ UNCHANGED member
    <2>1. session' = [session EXCEPT ![c] = s("gone")] /\ session'[c] = s("gone")
      BY <1>4 DEF Goto, Base, TypeOK
    <2>2. Fits(c, s("gone"))
      BY <1>2, <1>3 DEF Fits, Inside, Handlers, Handshake, Targeting, Looking
    <2>3. Effects
      BY <1>4 DEF Enter, access, Base, TypeOK, Effects
    <2>4. Elsewhere(c)
      BY <1>2, <1>3, <2>1 DEF Elsewhere, At, Handshake
    <2>. HIDE DEF s
    <2>. QED  BY <1>3, <2>1, <2>2, <2>3, <2>4, Turn
  <1>5. CASE WriteFree /\ member' = member \cup {c} /\ Goto(c, "checkop")
    <2>1. /\ session' \in [Conns -> Session] /\ session'[c] = s("checkop")
          /\ \A d \in Conns \ {c} : session'[d] = session[d]
      BY <1>3, <1>5 DEF Goto, Base, TypeOK
    <2>2. TypeOK'
      BY <1>5, <2>1 DEF Enter, access, Base, TypeOK
    <2>3. Fits(c, session[c])'
      BY <1>3, <1>5, <2>1 DEF Fits, Inside, Handshake, Targeting, Looking
    <2>4. \A d \in Conns \ {c} : Fits(d, session[d])'
      BY <1>5, <2>1 DEF Base, Fits
    <2>5. Elsewhere(c)
      BY <1>2, <1>3, <2>1 DEF Elsewhere, At, Handshake
    <2>6. Frame
      BY <1>3, <1>5, <2>1, <2>5 DEF Frame, WriteFree, Enter, Base, TypeOK
    <2>. QED  BY <2>2, <2>3, <2>4, <2>6 DEF Base
  <1>. QED  BY <1>4, <1>5 DEF Enter

LEMMA LeaveStep ==
    ASSUME Base, NEW c \in Conns, Leave(c)
    PROVE  Base' /\ Frame
  <1>. DEFINE s == [session[c] EXCEPT !.step = "gone"]
  <1>1. session[c] \in Session /\ Fits(c, session[c])
    BY DEF Base, TypeOK
  <1>2. /\ session[c].target = Nobody /\ At(c, "ready") /\ WriteFree
        /\ member' = member \ {c}
    BY <1>1 DEF Leave, At, Fits, Targeting, Looking
  <1>3. /\ s \in Session /\ s.step = "gone"
        /\ s.target = Nobody /\ s.key = session[c].key
    BY <1>1, <1>2 DEF Session, Steps
  <1>4. /\ session' \in [Conns -> Session] /\ session'[c] = s
        /\ \A d \in Conns \ {c} : session'[d] = session[d]
    BY <1>3 DEF Leave, Goto, Base, TypeOK
  <1>. HIDE DEF s
  <1>5. TypeOK'
    BY <1>4 DEF Leave, access, Base, TypeOK
  <1>6. Fits(c, session[c])'
    BY <1>2, <1>3, <1>4 DEF Fits, Inside, Handlers, Handshake, Targeting, Looking
  <1>7. ASSUME NEW d \in Conns \ {c}
        PROVE  Fits(d, session[d])'
    <2>1. session'[d] = session[d] /\ Fits(d, session[d]) /\ ~Iterates(d)
      BY <1>2, <1>4 DEF WriteFree, Base
    <2>2. Looking \subseteq Handshake
      BY DEF Looking, Handshake
    <2>. QED  BY <1>2, <2>1, <2>2 DEF Fits, Iterates, At
  <1>8. Elsewhere(c)
    BY <1>2, <1>3, <1>4 DEF Elsewhere, At, Handshake
  <1>9. Frame
    BY <1>2, <1>3, <1>4, <1>8 DEF Frame, WriteFree, Leave, Base, TypeOK
  <1>. QED  BY <1>5, <1>6, <1>7, <1>9 DEF Base

LEMMA ConnectStep ==
    ASSUME Base, NEW c \in Conns, Connect(c)
    PROVE  Base' /\ Frame
  <1>1. {"grantop", "ready"} \subseteq Inside \ ({"reverify"} \cup Targeting)
    BY DEF Inside, Targeting
  <1>2. CASE CheckOp(c)
    <2>1. Between(c) /\ session[c].target = Nobody /\ Effects
      BY <1>2, NoEffects
      DEF CheckOp, At, Between, Inside, Base, Fits, Targeting, Looking
    <2>2. Goto(c, "grantop") \/ Goto(c, "ready")
      BY <1>2 DEF CheckOp
    <2>. QED  BY <1>1, <2>1, <2>2, GotoStep
  <1>3. CASE GrantOp(c)
    <2>1. Between(c) /\ session[c].target = Nobody /\ c \in member
      BY <1>3 DEF GrantOp, At, Between, Inside, Base, Fits, Targeting, Looking
    <2>2. Effects
      BY <1>3, <2>1 DEF GrantOp, access, Base, TypeOK, Effects
    <2>. QED  BY <1>1, <1>3, <2>1, <2>2, GotoStep DEF GrantOp
  <1>. QED  BY <1>2, <1>3, EnterStep, LeaveStep DEF Connect

LEMMA BaseStep ==
    ASSUME Base, [Next]_vars
    PROVE  Base' /\ Frame
  <1>1. ASSUME NEW e \in Entries, Expire(e)
        PROVE  Base' /\ Frame
    <2>1. Effects /\ UNCHANGED session
      BY <1>1 DEF Expire, people, Base, TypeOK, Effects
    <2>. QED  BY <2>1, StillStep
  <1>2. CASE UNCHANGED vars
    <2>1. Effects /\ UNCHANGED session
      BY <1>2, NoEffects DEF vars
    <2>. QED  BY <2>1, StillStep
  <1>. QED
    BY <1>1, <1>2, AdmissionStep, ConnectStep, CommandStep, HandleStep DEF Next

(* The state of Auth has its types whatever happens.                       *)
THEOREM AuthTypes == Spec => []TypeOK
  <1>1. Base => TypeOK
    BY DEF Base
  <1>. QED  BY InitBase, BaseStep, <1>1, PTL DEF Spec

-----------------------------------------------------------------------------
(* What the observers know in each step: all that is the case now;         *)
Seen(c) ==
    Checking(c) => Facts \subseteq once[c] /\ always[c] \subseteq Forever

(* that a key found on the allowlist was there;                            *)
Heard(c) ==
    session[c].step = "mode" /\ session[c].listed =>
        <<"allowlist", Checked(c)>> \in once[c]

(* that no lasting ban has been passed, or by an operator;                 *)
Passed(c) ==
    session[c].step \in Handshake /\ session[c].target = Nobody =>
        \/ OpKeyOf(c) \in once[c]
        \/ /\ session[c].step \notin {"banned", "bypass"} =>
                  <<"banned", session[c].key>> \notin always[c]
           /\ session[c].step \notin {"banned", "bannedAddr", "bypass"} =>
                  <<"bannedAddr", AddrOf[c]>> \notin always[c]
           /\ session[c].step \notin {"banned", "bannedAddr", "bannedClient",
                                      "bypass"} =>
                  <<"bannedClient", ClientOf[c]>> \notin always[c]

(* that every member that has been verified may stay or has been closed.   *)
Settled(c, u) ==
    \/ u \in closed
    \/ Allowing(session[u].key) \cap once[c] # {}
    \/ <<"IsOp", u>> \in once[c]

Swept(c) ==
    \A u \in member :
        /\ session[c].step = "reverify" =>
               u \in session[c].rest \/ Settled(c, u)
        /\ session[c].step \in Looking /\ session[c].target # Nobody =>
               u \in session[c].rest \cup {session[c].target} \/ Settled(c, u)

Tracked(c) == Heard(c) /\ Passed(c) /\ Swept(c)
Inv == Base /\ \A c \in Conns : Seen(c) /\ Tracked(c)

LEMMA Observation ==
    ASSUME Inv, AdmissionNext, NEW c \in Conns, Checking(c)'
    PROVE  /\ Facts \subseteq once'[c] /\ Facts' \subseteq once'[c]
           /\ always'[c] \subseteq Forever /\ always'[c] \subseteq Forever'
           /\ Checking(c) => once[c] \subseteq once'[c]
                                 /\ always'[c] \subseteq always[c]
  <1>1. /\ once'[c] = Facts' \cup IF Checking(c) THEN once[c] ELSE Facts
        /\ always'[c] = Forever' \cap IF Checking(c) THEN always[c] ELSE Forever
    BY DEF AdmissionNext
  <1>2. Checking(c) => Facts \subseteq once[c] /\ always[c] \subseteq Forever
    BY DEF Inv, Seen
  <1>. QED  BY <1>1, <1>2

(* What a look at a set shows.                                             *)
LEMMA Look ==
    ASSUME NEW n, NEW k
    PROVE  /\ In(n, k) => <<n, k>> \in Facts
           /\ ~In(n, k) => <<n, k>> \notin Forever
  BY DEF In, Facts, Forever

LEMMA NoSuchEntry ==
    <<"banned", NoKey>> \notin Entries /\ <<"ops", NoKey>> \notin Entries
  BY AuthAssumption DEF Entries, BanEntries

LEMMA TrackedSame ==
    ASSUME Inv, AdmissionNext, Frame, NEW c \in Conns, session'[c] = session[c]
    PROVE  Tracked(c)'
  <1>1. Checking(c)' <=> Checking(c)
    BY DEF Checking
  <1>2. Checking(c) => once[c] \subseteq once'[c] /\ always'[c] \subseteq always[c]
    BY <1>1, Observation
  <1>3. Tracked(c) /\ Fits(c, session[c])
    BY DEF Inv, Base
  <1>4. Heard(c)'
    <2>1. session[c].step = "mode" => Checking(c)
      BY DEF Checking, Handshake
    <2>2. session[c].step = "mode" => Checked(c)' = Checked(c)
      BY <1>3 DEF Fits, Looking, Checked, Frame
    <2>. QED  BY <1>2, <1>3, <2>1, <2>2 DEF Tracked, Heard
  <1>5. Passed(c)'
    <2>1. session[c].step \in Handshake => Checking(c)
      BY DEF Checking
    <2>. QED  BY <1>2, <1>3, <2>1 DEF Tracked, Passed, OpKeyOf
  <1>6. Swept(c)'
    <2>. SUFFICES ASSUME NEW u \in member',
                         \/ session[c].step = "reverify"
                         \/ session[c].step \in Looking /\ session[c].target # Nobody
                  PROVE  /\ session[c].step = "reverify" =>
                                u \in session[c].rest \/ Settled(c, u)'
                         /\ session[c].step \in Looking
                                /\ session[c].target # Nobody =>
                                u \in session[c].rest \cup {session[c].target}
                                    \/ Settled(c, u)'
      BY DEF Swept
    <2>1. Checking(c) /\ Iterates(c)
      BY DEF Checking, Iterates, At, Looking, Handshake
    <2>2. u \in member /\ closed \subseteq closed' /\ session'[u].key = session[u].key
      BY <2>1 DEF Frame
    <2>3. Settled(c, u) => Settled(c, u)'
      BY <1>2, <2>1, <2>2 DEF Settled, Allowing
    <2>. QED  BY <1>3, <2>2, <2>3 DEF Tracked, Swept
  <1>. QED  BY <1>4, <1>5, <1>6 DEF Tracked

LEMMA TrackedElsewhere ==
    ASSUME NEW c \in Conns, Elsewhere(c)
    PROVE  Tracked(c)'
  <1>1. Heard(c)' /\ Passed(c)'
    BY DEF Elsewhere, Heard, Passed, Handshake
  <1>2. Swept(c)'
    BY DEF Elsewhere, Swept, Looking, Handshake
  <1>. QED  BY <1>1, <1>2 DEF Tracked

LEMMA TrackedOut ==
    ASSUME NEW c \in Conns, session'[c].step \in {"accepted", "out"}
    PROVE  Tracked(c)'
  BY DEF Tracked, Heard, Passed, Swept, Handshake, Looking

LEMMA RefusedOut ==
    ASSUME Base, NEW c \in Conns, Refuse(c)
    PROVE  session'[c].step = "out"
  BY DEF Refuse, Refused, Base, TypeOK, Session

LEMMA GotoIs ==
    ASSUME Base, NEW c \in Conns, NEW step, Goto(c, step)
    PROVE  /\ session'[c].step = step /\ session'[c].key = session[c].key
           /\ session'[c].target = session[c].target
           /\ session'[c].rest = session[c].rest
           /\ \A d \in Conns : session'[d].key = session[d].key
  BY DEF Goto, Base, TypeOK, Session

(* One step of a check after the other.                                    *)
LEMMA TrackedTry ==
    ASSUME Inv, AdmissionNext, NEW c \in Conns, TryKey(c) \/ TryKeyboard(c)
    PROVE  Tracked(c)'
  <1>1. \/ session'[c].step = "banned"
        \/ session'[c].step = "bannedAddr" /\ session'[c].key = NoKey
    BY DEF TryKey, TryKeyboard, Inv, Base, TypeOK, Session
  <1>2. session'[c].target = Nobody
    BY DEF TryKey, TryKeyboard, At, Inv, Base, Fits, TypeOK, Session,
       Targeting, Looking
  <1>3. Heard(c)' /\ Swept(c)'
    BY <1>1, <1>2 DEF Heard, Swept, Looking
  <1>4. always'[c] \subseteq Entries
    <2>1. Checking(c)'
      BY <1>1 DEF Checking, Handshake
    <2>. QED  BY <2>1, Observation DEF Forever
  <1>5. Passed(c)'
    BY <1>1, <1>4, NoSuchEntry DEF Passed
  <1>. QED  BY <1>3, <1>5 DEF Tracked

LEMMA TrackedBan ==
    ASSUME Inv, AdmissionNext, NEW c \in Conns,
           NEW n \in {"banned", "bannedAddr", "bannedClient"}, CheckBan(c, n)
    PROVE  Tracked(c)'
  <1>. DEFINE step == IF In(n, Subject(c)[n]) THEN "bypass" ELSE After(c)[n]
  <1>1. /\ session[c].step = n /\ session[c].target = Nobody
        /\ n \in Handshake /\ step \in Handshake /\ Checking(c)
        /\ step \notin {"mode", "reverify"}
    BY DEF CheckBan, At, Inv, Base, Fits, Targeting, Looking, After, Unbanned,
       Handshake, Checking
  <1>2. /\ session'[c].step = step /\ session'[c].key = session[c].key
        /\ session'[c].target = Nobody
    BY <1>1, GotoIs DEF CheckBan, Inv
  <1>3. /\ always'[c] \subseteq Forever
        /\ once[c] \subseteq once'[c] /\ always'[c] \subseteq always[c]
    <2>1. Checking(c)'
      BY <1>1, <1>2 DEF Checking
    <2>. QED  BY <1>1, <2>1, Observation
  <1>4. Heard(c)' /\ Swept(c)'
    BY <1>1, <1>2 DEF Heard, Swept
  <1>5. Passed(c)
    BY DEF Inv, Tracked
  <1>6. CASE In(n, Subject(c)[n])
    BY <1>2, <1>3, <1>5, <1>1, <1>6, <1>4 DEF Passed, OpKeyOf, Tracked
  <1>7. CASE ~In(n, Subject(c)[n])
    <2>1. <<n, Subject(c)[n]>> \notin always'[c]
      BY <1>3, <1>7, Look
    <2>2. step = After(c)[n]
      BY <1>7
    <2>3. CASE n = "banned"
      BY <1>1, <1>2, <1>3, <1>4, <1>5, <2>1, <2>2, <2>3
      DEF Passed, OpKeyOf, Tracked, Subject, After
    <2>4. CASE n = "bannedAddr"
      BY <1>1, <1>2, <1>3, <1>4, <1>5, <2>1, <2>2, <2>4
      DEF Passed, OpKeyOf, Tracked, Subject, After
    <2>5. CASE n = "bannedClient"
      BY <1>1, <1>2, <1>3, <1>4, <1>5, <2>1, <2>2, <2>5
      DEF Passed, OpKeyOf, Tracked, Subject, After
    <2>. QED  BY <2>3, <2>4, <2>5
  <1>. QED  BY <1>6, <1>7

LEMMA TrackedBypass ==
    ASSUME Inv, AdmissionNext, NEW c \in Conns, Bypass(c)
    PROVE  Tracked(c)'
  <1>1. CASE Refuse(c)
    BY <1>1, RefusedOut, TrackedOut DEF Inv
  <1>2. CASE In("ops", session[c].key) /\ Goto(c, Unbanned(c))
    <2>1. /\ session'[c].step \in {"interactive", "allowlist"}
          /\ session'[c].key = session[c].key /\ session'[c].target = Nobody
      BY <1>2, GotoIs
      DEF Bypass, At, Inv, Base, Fits, Targeting, Looking, Unbanned
    <2>2. OpKeyOf(c) \in once'[c]
      <3>1. Checking(c)'
        BY <2>1 DEF Checking, Handshake
      <3>. QED  BY <1>2, <3>1, Observation, Look DEF OpKeyOf
    <2>. QED  BY <2>1, <2>2 DEF Tracked, Heard, Passed, Swept, OpKeyOf
  <1>. QED  BY <1>1, <1>2 DEF Bypass

LEMMA TrackedInteractive ==
    ASSUME Inv, AdmissionNext, NEW c \in Conns, Interactive(c)
    PROVE  Tracked(c)'
  <1>1. Goto(c, "accepted") \/ Refuse(c)
    BY DEF Interactive
  <1>2. session'[c].step \in {"accepted", "out"}
    BY <1>1, RefusedOut, GotoIs DEF Inv
  <1>. QED  BY <1>2, TrackedOut

(* From one look of CheckPublicKey to the next.                            *)
LEMMA TrackedLooking ==
    ASSUME Inv, AdmissionNext, Frame, NEW c \in Conns,
           session[c].step \in Looking, session'[c].step \in Looking,
           session'[c].target = session[c].target,
           session'[c].rest = session[c].rest,
           session'[c].key = session[c].key, member' = member
    PROVE  Passed(c)' /\ Swept(c)'
  <1>1. /\ Checking(c) /\ Checking(c)' /\ "reverify" \notin Looking
        /\ Looking \cap {"banned", "bannedAddr", "bannedClient", "bypass"} = {}
        /\ Looking \subseteq Handshake
    BY DEF Checking, Looking, Handshake
  <1>2. once[c] \subseteq once'[c] /\ always'[c] \subseteq always[c]
    BY <1>1, Observation
  <1>3. Passed(c) /\ Swept(c)
    BY DEF Inv, Tracked
  <1>4. Passed(c)'
    BY <1>1, <1>2, <1>3 DEF Passed, OpKeyOf
  <1>5. \A u \in member : Settled(c, u) => Settled(c, u)'
    BY <1>2 DEF Settled, Allowing, Frame
  <1>6. Swept(c)'
    BY <1>1, <1>3, <1>5 DEF Swept
  <1>. QED  BY <1>4, <1>6

LEMMA TrackedAllowlist ==
    ASSUME Inv, AdmissionNext, Frame, NEW c \in Conns, CheckAllowlist(c)
    PROVE  Tracked(c)'
  <1>1. session[c].step \in Looking /\ member' = member
    BY DEF CheckAllowlist, At, Looking, people
  <1>2. /\ session'[c].step = "mode" /\ "mode" \in Looking
        /\ session'[c].target = session[c].target
        /\ session'[c].rest = session[c].rest
        /\ session'[c].listed = In("allowlist", Checked(c))
        /\ session'[c].key = session[c].key
        /\ \A d \in Conns \ {c} : session'[d] = session[d]
    BY DEF CheckAllowlist, Inv, Base, TypeOK, Session, Looking
  <1>3. Checked(c)' = Checked(c)
    BY <1>2 DEF Checked, Inv, Base, TypeOK, Session
  <1>4. Facts \subseteq once'[c]
    <2>1. Checking(c)'
      BY <1>2 DEF Checking, Handshake
    <2>. QED  BY <2>1, Observation
  <1>5. Heard(c)'
    BY <1>2, <1>3, <1>4, Look DEF Heard
  <1>. QED  BY <1>1, <1>2, <1>5, TrackedLooking DEF Tracked

(* The check of a member has said yes, or no with its consequences.        *)
LEMMA TrackedAllow ==
    ASSUME Inv, AdmissionNext, Frame, NEW c \in Conns,
           session[c].step \in Looking, Allow(c), member' = member,
           \A u \in Conns :
               session[c].target = u /\ Checking(c)' => Settled(c, u)'
    PROVE  Tracked(c)'
  <1>1. CASE session[c].target = Nobody
    <2>1. session'[c].step = "accepted"
      BY <1>1, GotoIs DEF Allow, Inv
    <2>. QED  BY <2>1, TrackedOut
  <1>2. CASE session[c].target # Nobody
    <2>1. /\ session'[c].step = "reverify"
          /\ session'[c].rest = session[c].rest
      BY <1>2 DEF Allow, Inv, Base, TypeOK, Session
    <2>2. Checking(c) /\ Checking(c)'
      BY <2>1 DEF Checking, Looking, Handshake
    <2>3. once[c] \subseteq once'[c]
      BY <2>2, Observation
    <2>4. \A u \in member : Settled(c, u) => Settled(c, u)'
      BY <2>3 DEF Settled, Allowing, Frame
    <2>5. /\ member \subseteq Conns
          /\ \A u \in member : \/ u \in session[c].rest \/ Settled(c, u)
                               \/ u = session[c].target
      BY <1>2 DEF Inv, Base, TypeOK, Tracked, Swept
    <2>6. \A u \in member : u \in session[c].rest \/ Settled(c, u)'
      BY <2>2, <2>4, <2>5
    <2>8. Swept(c)'
      BY <2>1, <2>6 DEF Swept, Looking
    <2>7. Heard(c)' /\ Passed(c)'
      BY <2>1 DEF Heard, Passed, Handshake
    <2>. QED  BY <2>7, <2>8 DEF Tracked
  <1>. QED  BY <1>1, <1>2

(* The key of the member that is verified stays the same.                  *)
LEMMA TargetKey ==
    ASSUME Inv, Frame, NEW c \in Conns, session[c].step \in Looking,
           NEW u \in Conns, session[c].target = u
    PROVE  session'[u].key = Checked(c)
  BY AuthAssumption DEF Inv, Base, TypeOK, Fits, Frame, Checked

LEMMA TrackedMode ==
    ASSUME Inv, AdmissionNext, Frame, NEW c \in Conns, CheckMode(c)
    PROVE  Tracked(c)'
  <1>1. /\ session[c].step = "mode" /\ "mode" \in Looking /\ "ops" \in Looking
        /\ member' = member /\ Checking(c)
    BY DEF CheckMode, At, Looking, people, Checking, Handshake
  <1>2. CASE Goto(c, "ops")
    <2>1. /\ session'[c].step = "ops" /\ session'[c].key = session[c].key
          /\ session'[c].target = session[c].target
          /\ session'[c].rest = session[c].rest
      BY <1>2, GotoIs DEF Inv
    <2>2. Heard(c)'
      BY <2>1 DEF Heard
    <2>. QED  BY <1>1, <2>1, <2>2, TrackedLooking DEF Tracked
  <1>3. CASE Allow(c) /\ (AllowAnonymous \/ session[c].listed)
    <2>1. ASSUME NEW u \in Conns, session[c].target = u, Checking(c)'
          PROVE  Settled(c, u)'
      <3>1. Facts \subseteq once'[c] /\ once[c] \subseteq once'[c]
        BY <1>1, <2>1, Observation
      <3>2. session'[u].key = Checked(c)
        BY <1>1, <2>1, TargetKey
      <3>3. CASE AllowAnonymous
        <4>1. Anonymous \in Facts
          BY <3>3 DEF AllowAnonymous, Facts
        <4>. QED  BY <3>1, <4>1 DEF Settled, Allowing
      <3>4. CASE session[c].listed
        <4>1. <<"allowlist", Checked(c)>> \in once[c]
          BY <1>1, <3>4 DEF Inv, Tracked, Heard
        <4>. QED  BY <3>1, <3>2, <4>1 DEF Settled, Allowing
      <3>. QED  BY <1>3, <3>3, <3>4
    <2>. QED  BY <1>1, <1>3, <2>1, TrackedAllow
  <1>. QED  BY <1>2, <1>3 DEF CheckMode

LEMMA TrackedOps ==
    ASSUME Inv, AdmissionNext, Frame, NEW c \in Conns, CheckOps(c)
    PROVE  Tracked(c)'
  <1>1. /\ session[c].step \in Looking /\ member' = member /\ Checking(c)
    BY DEF CheckOps, At, Looking, Checking, Handshake
  <1>2. CASE Refuse(c)
    BY <1>2, RefusedOut, TrackedOut DEF Inv
  <1>3. CASE Allow(c) /\ \/ session[c].target \notin Conns
                         \/ In("ops", Checked(c))
                         \/ session[c].target \in isOp
                         \/ session[c].target \in closed'
    <2>1. ASSUME NEW u \in Conns, session[c].target = u, Checking(c)'
          PROVE  Settled(c, u)'
      <3>1. Facts \subseteq once'[c]
        BY <2>1, Observation
      <3>2. session'[u].key = Checked(c)
        BY <1>1, <2>1, TargetKey
      <3>3. CASE In("ops", Checked(c))
        BY <3>1, <3>2, <3>3, Look DEF Settled, Allowing
      <3>4. CASE u \in isOp
        <4>1. <<"IsOp", u>> \in Facts
          BY <3>4 DEF Facts
        <4>. QED  BY <3>1, <4>1 DEF Settled
      <3>5. CASE u \in closed'
        BY <3>5 DEF Settled
      <3>. QED  BY <1>3, <2>1, <3>3, <3>4, <3>5
    <2>. QED  BY <1>1, <1>3, <2>1, TrackedAllow
  <1>4. session[c].target = Nobody => session[c].target \notin Conns
    BY AuthAssumption
  <1>. QED  BY <1>2, <1>3, <1>4 DEF CheckOps, Deny

LEMMA TrackedLoop ==
    ASSUME Inv, AdmissionNext, Frame, NEW c \in Conns,
           \/ LockMembers(c)
           \/ \E u \in session[c].rest : ReverifyVisit(c, u)
    PROVE  Tracked(c)'
  <1>1. CASE LockMembers(c)
    <2>1. /\ session'[c].step = "reverify" /\ session'[c].rest = member
          /\ member' = member
      BY <1>1 DEF LockMembers, Set, Inv, Base, TypeOK, Session, people
    <2>. QED  BY <2>1 DEF Tracked, Heard, Passed, Swept, Handshake, Looking
  <1>2. ASSUME NEW u \in session[c].rest, ReverifyVisit(c, u)
        PROVE  Tracked(c)'
    <2>1. /\ session[c].step = "reverify" /\ session'[c].step = "allowlist"
          /\ session'[c].target = u /\ member' = member
          /\ session'[c].rest = session[c].rest \ {u}
      <3>1. session \in [Conns -> Session] /\ session[c] \in Session
        BY DEF Inv, Base, TypeOK
      <3>2. session'[c] = [session[c] EXCEPT !.step = "allowlist", !.target = u,
                               !.rest = session[c].rest \ {u}, !.length = "ever"]
        BY <1>2, <3>1 DEF ReverifyVisit, Set
      <3>. QED  BY <1>2, <3>1, <3>2 DEF ReverifyVisit, At, Session, people
    <2>2. u # Nobody
      BY <2>1, AuthAssumption DEF Inv, Base, TypeOK, Fits
    <2>3. Checking(c) /\ Checking(c)'
      BY <2>1 DEF Checking, Handshake
    <2>4. \A v \in member : Settled(c, v) => Settled(c, v)'
      BY <2>3, Observation DEF Settled, Allowing, Frame
    <2>5. \A v \in member : v \in session[c].rest \/ Settled(c, v)
      BY <2>1 DEF Inv, Tracked, Swept
    <2>6. Swept(c)'
      BY <2>1, <2>4, <2>5 DEF Swept
    <2>7. Heard(c)' /\ Passed(c)'
      BY <2>1, <2>2 DEF Heard, Passed
    <2>. QED  BY <2>6, <2>7 DEF Tracked
  <1>. QED  BY <1>1, <1>2

-----------------------------------------------------------------------------
LEMMA InitInv == AdmissionInit => Inv
  <1>. SUFFICES ASSUME AdmissionInit
                PROVE  Inv
    OBVIOUS
  <1>1. Base /\ \A c \in Conns : session[c].step = "out"
    BY InitBase DEF AdmissionInit, Init
  <1>2. ASSUME NEW c \in Conns
        PROVE  Seen(c) /\ Tracked(c)
    BY <1>1 DEF Seen, Tracked, Heard, Passed, Swept, Checking, Handshake, Looking
  <1>. QED  BY <1>1, <1>2 DEF Inv

LEMMA TrackedStep ==
    ASSUME Inv, AdmissionNext, Frame, NEW c \in Conns, CheckStep(c)
    PROVE  Tracked(c)'
  BY TrackedTry, TrackedBan, TrackedBypass, TrackedInteractive, TrackedAllowlist,
     TrackedMode, TrackedOps, TrackedLoop DEF CheckStep, Admission

LEMMA InvStep == Inv /\ [AdmissionNext]_<<vars, observers>> => Inv'
  <1>1. ASSUME Inv, AdmissionNext
        PROVE  Inv'
    <2>1. Base' /\ Frame
      BY <1>1, BaseStep DEF Inv, AdmissionNext
    <2>2. ASSUME NEW c \in Conns
          PROVE  Seen(c)' /\ Tracked(c)'
      <3>1. Seen(c)'
        BY <1>1, Observation DEF Seen
      <3>2. Tracked(c)'
        BY <1>1, <2>1, TrackedSame, TrackedElsewhere, TrackedStep DEF Frame
      <3>. QED  BY <3>1, <3>2
    <2>. QED  BY <2>1, <2>2 DEF Inv
  <1>2. ASSUME Inv, UNCHANGED <<vars, observers>>
        PROVE  Inv'
    <2>1. Base'
      BY <1>2, BaseStep DEF Inv, vars
    <2>2. ASSUME NEW c \in Conns
          PROVE  Seen(c)' /\ Tracked(c)'
      <3>1. Seen(c) /\ Tracked(c)
        BY <1>2 DEF Inv
      <3>. QED
        BY <1>2, <3>1
        DEF vars, observers, access, people, Seen, Tracked, Heard, Passed, Swept,
            Settled, Checking, Checked, Facts, Forever, OpKeyOf, Anonymous
    <2>. QED  BY <2>1, <2>2 DEF Inv
  <1>. QED  BY <1>1, <1>2

LEMMA Invariance == AdmissionSpec => []Inv
  BY InitInv, InvStep, PTL DEF AdmissionSpec

(* How a handshake ends.                                                   *)
LEMMA Admitting ==
    ASSUME Base, NEW c \in Conns, Frame, Ends(c, "accepted")
    PROVE  \/ session[c].step = "interactive" /\ (passphrase \/ AllowAnonymous)
           \/ session[c].step = "mode" /\ (AllowAnonymous \/ session[c].listed)
           \/ session[c].step = "ops" /\ In("ops", session[c].key)
  <1>1. /\ session[c].step \in Handshake /\ session[c].target = Nobody
        /\ session'[c].step = "accepted" /\ "accepted" \notin Handshake
    BY DEF Ends, Handshake
  <1>2. CheckStep(c)
    BY <1>1 DEF Frame, Elsewhere
  <1>3. ASSUME NEW step, Goto(c, step)
        PROVE  step = "accepted"
    BY <1>1, <1>3, GotoIs
  <1>4. ~Refuse(c)
    BY <1>1, RefusedOut
  <1>5. ~TryKey(c) /\ ~TryKeyboard(c) /\ ~LockMembers(c)
            /\ ~(\E u \in session[c].rest : ReverifyVisit(c, u))
    BY <1>1 DEF TryKey, TryKeyboard, LockMembers, ReverifyVisit, At, Handshake
  <1>6. ASSUME NEW n \in {"banned", "bannedAddr", "bannedClient"}, CheckBan(c, n)
        PROVE  FALSE
    <2>1. /\ n \in {"banned", "bannedAddr", "bannedClient"}
          /\ Goto(c, IF In(n, Subject(c)[n]) THEN "bypass" ELSE After(c)[n])
      BY <1>6 DEF CheckBan
    <2>2. (IF In(n, Subject(c)[n]) THEN "bypass" ELSE After(c)[n]) # "accepted"
      BY DEF After, Unbanned
    <2>. QED  BY <1>3, <2>1, <2>2
  <1>7. ~Bypass(c)
    BY <1>3, <1>4 DEF Bypass, Unbanned
  <1>8. ~CheckAllowlist(c)
    BY <1>1 DEF CheckAllowlist, Base, TypeOK, Session
  <1>9. CASE Interactive(c)
    BY <1>4, <1>9 DEF Interactive, At
  <1>10. CASE CheckMode(c)
    BY <1>3, <1>10 DEF CheckMode, At
  <1>11. CASE CheckOps(c)
    BY <1>1, <1>4, <1>11 DEF CheckOps, At, Deny, Checked
  <1>. QED
    BY <1>2, <1>5, <1>6, <1>7, <1>8, <1>9, <1>10, <1>11 DEF CheckStep, Admission

LEMMA Refusing ==
    ASSUME Base, NEW c \in Conns, Frame, Ends(c, "out")
    PROVE  session[c].step = "interactive" \/ ~In("ops", session[c].key)
  <1>1. /\ session[c].step \in Handshake /\ session[c].target = Nobody
        /\ session'[c].step = "out" /\ "out" \notin Handshake
    BY DEF Ends, Handshake
  <1>2. CheckStep(c)
    BY <1>1 DEF Frame, Elsewhere
  <1>3. ASSUME NEW step, Goto(c, step)
        PROVE  step = "out"
    BY <1>1, <1>3, GotoIs
  <1>4. ~TryKey(c) /\ ~TryKeyboard(c) /\ ~LockMembers(c)
            /\ ~(\E u \in session[c].rest : ReverifyVisit(c, u))
    BY <1>1 DEF TryKey, TryKeyboard, LockMembers, ReverifyVisit, At, Handshake
  <1>5. ASSUME NEW n \in {"banned", "bannedAddr", "bannedClient"}, CheckBan(c, n)
        PROVE  FALSE
    <2>1. Goto(c, IF In(n, Subject(c)[n]) THEN "bypass" ELSE After(c)[n])
      BY <1>5 DEF CheckBan
    <2>2. (IF In(n, Subject(c)[n]) THEN "bypass" ELSE After(c)[n]) # "out"
      BY DEF After, Unbanned
    <2>. QED  BY <1>3, <2>1, <2>2
  <1>6. ~CheckAllowlist(c)
    BY <1>1 DEF CheckAllowlist, Base, TypeOK, Session
  <1>7. ~CheckMode(c)
    BY <1>1, <1>3 DEF CheckMode, Allow
  <1>8. CASE Bypass(c)
    BY <1>3, <1>8 DEF Bypass, Unbanned
  <1>9. CASE Interactive(c)
    BY <1>9 DEF Interactive, At
  <1>10. CASE CheckOps(c)
    BY <1>1, <1>3, <1>10 DEF CheckOps, Allow, Checked
  <1>. QED
    BY <1>2, <1>4, <1>5, <1>6, <1>7, <1>8, <1>9, <1>10 DEF CheckStep, Admission

LEMMA FrameStep ==
    ASSUME Inv, AdmissionNext
    PROVE  Frame
  BY BaseStep DEF Inv, AdmissionNext

LEMMA OnlyEntries ==
    ASSUME Inv, NEW c \in Conns, session[c].step \in Handshake
    PROVE  always[c] \subseteq Entries /\ Facts \subseteq once[c]
  BY DEF Inv, Seen, Checking, Forever

-----------------------------------------------------------------------------
(* Whatever is banned and unbanned, and by whom, and however often clients *)
(* try: a ban that stands through a handshake is found (Auth.CheckBans).   *)
THEOREM NoBanIsMissed == AdmissionSpec => NoBanMissed
  <1>1. ASSUME Inv, [AdmissionNext]_<<vars, observers>>
        PROVE  [\A c \in Conns : Ends(c, "accepted") /\ Bans(c) \cap always[c] # {} =>
                    OpKeyOf(c) \in once[c]]_<<vars, observers>>
    <2>. SUFFICES ASSUME AdmissionNext, NEW c \in Conns, Ends(c, "accepted"),
                         Bans(c) \cap always[c] # {}
                  PROVE  OpKeyOf(c) \in once[c]
      BY <1>1
    <2>1. session[c].step \in {"interactive", "mode", "ops"}
      BY <1>1, FrameStep, Admitting DEF Inv
    <2>2. Passed(c)
      BY <1>1 DEF Inv, Tracked
    <2>. QED  BY <2>1, <2>2 DEF Passed, Ends, Bans
  <1>. QED  BY <1>1, Invariance, PTL DEF AdmissionSpec, NoBanMissed

(* Whatever happens to the allowlist, its mode and the operators: who gets *)
(* in was allowed at some moment of the handshake (Auth.CheckPublicKey).   *)
THEOREM OnlyAllowedAdmitted == AdmissionSpec => AdmittedWasAllowed
  <1>1. ASSUME Inv, [AdmissionNext]_<<vars, observers>>
        PROVE  [\A c \in Conns : Ends(c, "accepted") =>
                    \/ Allowing(session[c].key) \cap once[c] # {}
                    \/ session[c].key = NoKey /\ passphrase]_<<vars, observers>>
    <2>. SUFFICES ASSUME AdmissionNext, NEW c \in Conns, Ends(c, "accepted")
                  PROVE  \/ Allowing(session[c].key) \cap once[c] # {}
                         \/ session[c].key = NoKey /\ passphrase
      BY <1>1
    <2>1. session[c].step \in Handshake /\ session[c].target = Nobody
      BY DEF Ends
    <2>2. Facts \subseteq once[c]
      BY <1>1, <2>1, OnlyEntries
    <2>3. CASE AllowAnonymous
      <3>1. Anonymous \in Facts
        BY <2>3 DEF AllowAnonymous, Facts
      <3>. QED  BY <2>2, <3>1 DEF Allowing
    <2>4. CASE session[c].step = "interactive" /\ passphrase
      BY <1>1, <2>4 DEF Inv, Base, Fits
    <2>5. CASE session[c].step = "mode" /\ session[c].listed
      <3>1. <<"allowlist", session[c].key>> \in once[c]
        BY <1>1, <2>1, <2>5 DEF Inv, Tracked, Heard, Checked
      <3>. QED  BY <3>1 DEF Allowing
    <2>6. CASE In("ops", session[c].key)
      BY <2>2, <2>6, Look DEF Allowing
    <2>. QED
      BY <1>1, <2>3, <2>4, <2>5, <2>6, FrameStep, Admitting DEF Inv
  <1>. QED  BY <1>1, Invariance, PTL DEF AdmissionSpec, AdmittedWasAllowed

(* No ban, and no change of the allowlist, locks a lasting operator out    *)
(* ("Ops can bypass bans, just in case we ban ourselves").                 *)
THEOREM OperatorsGetIn == AdmissionSpec => OpsGetIn
  <1>1. ASSUME Inv, [AdmissionNext]_<<vars, observers>>
        PROVE  [\A c \in Conns : Ends(c, "out") => OpKeyOf(c) \notin always[c]
               ]_<<vars, observers>>
    <2>. SUFFICES ASSUME AdmissionNext, NEW c \in Conns, Ends(c, "out")
                  PROVE  OpKeyOf(c) \notin always[c]
      BY <1>1
    <2>1. /\ session[c].step \in Handshake
          /\ always[c] \subseteq Entries /\ always[c] \subseteq Forever
      BY <1>1, OnlyEntries DEF Ends, Inv, Seen, Checking
    <2>2. CASE session[c].step = "interactive"
      BY <1>1, <2>1, <2>2, NoSuchEntry DEF Inv, Base, Fits, OpKeyOf
    <2>3. CASE ~In("ops", session[c].key)
      BY <2>1, <2>3, Look DEF OpKeyOf
    <2>. QED  BY <1>1, <2>2, <2>3, FrameStep, Refusing DEF Inv
  <1>. QED  BY <1>1, Invariance, PTL DEF AdmissionSpec, OpsGetIn

(* A reverification misses nobody, whoever joins, leaves or changes the    *)
(* sets meanwhile.                                                         *)
THEOREM NobodySlipsThrough == AdmissionSpec => Reverified
  <1>1. ASSUME Inv, [AdmissionNext]_<<vars, observers>>
        PROVE  [\A c \in Conns : At(c, "reverify") /\ At(c, "ready")' =>
                    \A u \in member :
                        \/ u \in closed
                        \/ Allowing(session[u].key) \cap once[c] # {}
                        \/ <<"IsOp", u>> \in once[c]]_<<vars, observers>>
    <2>. SUFFICES ASSUME AdmissionNext, NEW c \in Conns,
                         At(c, "reverify"), At(c, "ready")'
                  PROVE  \A u \in member : Settled(c, u)
      BY <1>1 DEF Settled
    <2>1. session[c].step = "reverify" /\ session'[c].step = "ready"
      BY DEF At
    <2>2. ~CheckStep(c)
      <3>1. ~Admission(c) /\ ~LockMembers(c)
        BY <2>1
        DEF At, LockMembers, Admission, TryKey, TryKeyboard, CheckBan, Bypass,
            Interactive, CheckAllowlist, CheckMode, CheckOps
      <3>2. ASSUME NEW u \in session[c].rest, ReverifyVisit(c, u)
            PROVE  FALSE
        <4>1. session[c] \in Session /\ session \in [Conns -> Session]
          BY <1>1 DEF Inv, Base, TypeOK
        <4>. QED  BY <2>1, <3>2, <4>1 DEF ReverifyVisit, Set, Session
      <3>. QED  BY <3>1, <3>2 DEF CheckStep
    <2>3. session[c].rest = {}
      BY <1>1, <2>1, <2>2, FrameStep DEF Frame, Elsewhere
    <2>4. Swept(c)
      BY <1>1 DEF Inv, Tracked
    <2>. QED  BY <2>1, <2>3, <2>4 DEF Swept
  <1>. QED  BY <1>1, Invariance, PTL DEF AdmissionSpec, Reverified

=============================================================================
