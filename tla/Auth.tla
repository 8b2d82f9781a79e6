-------------------------------- MODULE Auth --------------------------------
(***************************************************************************)
(* Who may enter: the sets of auth.go, the callbacks of the handshake      *)
(* (sshd/auth.go) that consult them one by one, the part of Host.Connect   *)
(* that turns a connection into a member, and the operator commands that   *)
(* change the sets meanwhile.  A look at a set is one step (ExpiringSet    *)
(* has its details), what lies between two looks is open to everybody.     *)
(***************************************************************************)
EXTENDS Integers, FiniteSets

CONSTANTS Conns, Keys, Addrs, Clients,
          NoKey, Nobody,
          KeyOf, AddrOf, ClientOf,  \* what a connection comes with
          Admins, Listed,           \* the keys in the files of the program
          Issued,                   \* the commands in use
          Queries,                  \* what /ban QUERY may name
          MaxTries, MaxCommands     \* bounds of the model

ASSUME AuthAssumption ==
    /\ NoKey \notin Keys /\ Nobody \notin Conns
    /\ KeyOf \in [Conns -> Keys \cup {NoKey}]
    /\ AddrOf \in [Conns -> Addrs] /\ ClientOf \in [Conns -> Clients]
    /\ Admins \subseteq Keys /\ Listed \subseteq Keys
    /\ MaxTries \in Nat /\ MaxCommands \in Nat

BanEntries == ({"banned"} \X Keys) \cup ({"bannedAddr"} \X Addrs)
                  \cup ({"bannedClient"} \X Clients)
Entries == BanEntries \cup ({"allowlist", "ops"} \X Keys)

ASSUME QueryAssumption == Queries \subseteq SUBSET BanEntries

VARIABLES
    entry,          \* the sets of Auth: absent, for a time, for ever
    allowlistMode,
    passphrase,     \* passphraseHash is set, once and for all
    session,        \* the goroutine of each connection
    member, isOp,   \* Room.Members, and those with Member.IsOp
    closed,         \* the users that have been closed
    left            \* how many commands are still to come

access == <<entry, allowlistMode>>
people == <<member, isOp, closed>>
vars == <<access, passphrase, session, people, left>>

Durations == {"for", "ever"}
Handshake == {"banned", "bannedAddr", "bannedClient", "bypass", "interactive",
              "allowlist", "mode", "ops"}
Handlers == {"command", "ban", "banaddr", "close", "query", "opkey", "import",
             "reload", "load", "verify", "reverify"}
Steps == {"out", "accepted", "checkop", "grantop", "ready", "gone"}
             \cup Handshake \cup Handlers

(* key is Identity.PublicKey, before that the key that is being tried.     *)
Session == [step : Steps, key : Keys \cup {NoKey}, tries : 0..MaxTries,
            listed : BOOLEAN, target : Conns \cup {Nobody},
            rest : SUBSET (Conns \cup Keys \cup BanEntries),
            length : Durations]

TypeOK ==
    /\ entry \in [Entries -> {"none"} \cup Durations]
    /\ allowlistMode \in BOOLEAN /\ passphrase \in BOOLEAN
    /\ session \in [Conns -> Session]
    /\ member \subseteq Conns /\ isOp \subseteq member /\ closed \subseteq Conns
    /\ left \in 0..MaxCommands

Init ==
    /\ entry = [e \in Entries |->
                   IF e \in ({"ops"} \X Admins) \cup ({"allowlist"} \X Listed)
                   THEN "ever" ELSE "none"]
    /\ allowlistMode \in BOOLEAN /\ (Listed # {} => allowlistMode)
    /\ passphrase \in BOOLEAN
    /\ session = [c \in Conns |->
                     [step |-> "out", key |-> NoKey, tries |-> 0,
                      listed |-> FALSE, target |-> Nobody, rest |-> {},
                      length |-> "ever"]]
    /\ member = {} /\ isOp = {} /\ closed = {}
    /\ left = MaxCommands

At(c, s) == session[c].step = s
Goto(c, s) == session' = [session EXCEPT ![c].step = s]

(* No key is in no set: whatever would put it there returns early.         *)
In(s, k) == <<s, k>> \in Entries /\ entry[<<s, k>>] # "none"
Put(s, k, d) ==
    entry' = [e \in Entries |-> IF e = <<s, k>> THEN d ELSE entry[e]]

(* Time passes.                                                            *)
Expire(e) ==
    /\ entry[e] = "for"
    /\ entry' = [entry EXCEPT ![e] = "none"]
    /\ UNCHANGED <<allowlistMode, passphrase, session, people, left>>

(* A plausible bug: the passphrase is forgotten.                           *)
ModeOff == ~allowlistMode
AllowAnonymous == ~allowlistMode /\ ~passphrase

-----------------------------------------------------------------------------
(* The handshake: a client tries its key or the keyboard, again if it is   *)
(* refused.                                                                *)
Refused(c) == [session[c] EXCEPT !.step = "out", !.tries = @ + 1]
Refuse(c) == session' = [session EXCEPT ![c] = Refused(c)]

TryKey(c) ==
    /\ At(c, "out") /\ session[c].tries < MaxTries
    /\ KeyOf[c] # NoKey
    /\ session' = [session EXCEPT ![c].step = "banned", ![c].key = KeyOf[c]]
    /\ UNCHANGED <<access, passphrase, people, left>>

TryKeyboard(c) ==
    /\ At(c, "out") /\ session[c].tries < MaxTries
    /\ session' = [session EXCEPT ![c].step = "bannedAddr", ![c].key = NoKey]
    /\ UNCHANGED <<access, passphrase, people, left>>

Unbanned(c) == IF session[c].key = NoKey THEN "interactive" ELSE "allowlist"

(* Auth.CheckBans looks at one set after the other and at none after the   *)
(* first that says yes.                                                    *)
Subject(c) == [banned |-> session[c].key, bannedAddr |-> AddrOf[c],
               bannedClient |-> ClientOf[c]]
(* A plausible bug: whoever has a key is only looked up by the key.        *)
KeyOnly(c) == [banned |-> "allowlist", bannedAddr |-> "bannedClient",
               bannedClient |-> Unbanned(c)]
After(c) == [banned |-> "bannedAddr", bannedAddr |-> "bannedClient",
             bannedClient |-> Unbanned(c)]

CheckBan(c, s) ==
    /\ At(c, s)
    /\ Goto(c, IF In(s, Subject(c)[s]) THEN "bypass" ELSE After(c)[s])
    /\ UNCHANGED <<access, passphrase, people, left>>

(* A plausible bug: operators are banned like everybody else.              *)
NoBypass(c) == At(c, "bypass") /\ Refuse(c)
                   /\ UNCHANGED <<access, passphrase, people, left>>

(* Operators can bypass bans.                                              *)
Bypass(c) ==
    /\ At(c, "bypass")
    /\ IF In("ops", session[c].key) THEN Goto(c, Unbanned(c)) ELSE Refuse(c)
    /\ UNCHANGED <<access, passphrase, people, left>>

(* The keyboard: a passphrase if there is one, else anonymous or nothing.  *)
Interactive(c) ==
    /\ At(c, "interactive")
    /\ UNCHANGED <<allowlistMode, passphrase, people, left>>
    /\ IF passphrase
       THEN \/ Goto(c, "accepted") /\ UNCHANGED entry
            \/ Refuse(c) /\ UNCHANGED entry                  \* no answer
            \/ Refuse(c) /\ Put("bannedAddr", AddrOf[c], "for")
       ELSE /\ IF AllowAnonymous THEN Goto(c, "accepted") ELSE Refuse(c)
            /\ UNCHANGED entry

-----------------------------------------------------------------------------
(* Auth.CheckPublicKey, for the handshake of c or, in /allowlist reverify, *)
(* for the member it is at.                                                *)
Checked(c) == IF session[c].target = Nobody THEN session[c].key
              ELSE session[session[c].target].key

Allow(c) == IF session[c].target = Nobody THEN Goto(c, "accepted")
            ELSE session' = [session EXCEPT ![c].step = "reverify",
                                            ![c].target = Nobody]

(* A member that is not allowed is closed, unless it is an operator.       *)
Deny(c) ==
    LET u == session[c].target
    IN  IF u = Nobody THEN Refuse(c) /\ UNCHANGED closed
        ELSE Allow(c) /\ closed' = IF u \in isOp THEN closed ELSE closed \cup {u}

CheckAllowlist(c) ==
    /\ At(c, "allowlist")
    /\ session' = [session EXCEPT ![c].listed = In("allowlist", Checked(c)),
                                  ![c].step = "mode"]
    /\ UNCHANGED <<access, passphrase, people, left>>

CheckMode(c) ==
    /\ At(c, "mode")
    /\ IF AllowAnonymous \/ session[c].listed THEN Allow(c) ELSE Goto(c, "ops")
    /\ UNCHANGED <<access, passphrase, people, left>>

CheckOps(c) ==
    /\ At(c, "ops")
    /\ IF In("ops", Checked(c)) THEN Allow(c) /\ UNCHANGED closed ELSE Deny(c)
    /\ UNCHANGED <<access, passphrase, member, isOp, left>>

Admission(c) ==
    \/ TryKey(c) \/ TryKeyboard(c)
    \/ \E s \in {"banned", "bannedAddr", "bannedClient"} : CheckBan(c, s)
    \/ Bypass(c) \/ Interactive(c)
    \/ CheckAllowlist(c) \/ CheckMode(c) \/ CheckOps(c)

-----------------------------------------------------------------------------
(* Host.Connect.  The loops over the members hold their read lock.         *)
Iterates(c) == \/ At(c, "import") \/ At(c, "reverify")
               \/ session[c].step \in Handshake /\ session[c].target # Nobody
(* A plausible bug: a writer that does not take the lock.                  *)
NoLock == TRUE
WriteFree == \A c \in Conns : ~Iterates(c)

(* The session may come to nothing or the name be taken.                   *)
Enter(c) ==
    /\ At(c, "accepted")
    /\ \/ WriteFree /\ member' = member \cup {c} /\ Goto(c, "checkop")
       \/ Goto(c, "gone") /\ UNCHANGED member
    /\ UNCHANGED <<access, passphrase, isOp, closed, left>>

CheckOp(c) ==
    /\ At(c, "checkop")
    /\ Goto(c, IF In("ops", session[c].key) THEN "grantop" ELSE "ready")
    /\ UNCHANGED <<access, passphrase, people, left>>

GrantOp(c) ==
    /\ At(c, "grantop")
    /\ isOp' = isOp \cup {c}
    /\ Goto(c, "ready")
    /\ UNCHANGED <<access, passphrase, member, closed, left>>

Leave(c) ==
    /\ At(c, "ready") /\ WriteFree
    /\ member' = member \ {c} /\ isOp' = isOp \ {c} /\ closed' = closed \cup {c}
    /\ Goto(c, "gone")
    /\ UNCHANGED <<access, passphrase, left>>

Connect(c) == Enter(c) \/ CheckOp(c) \/ GrantOp(c) \/ Leave(c)

-----------------------------------------------------------------------------
(* The commands of an operator, in its own goroutine.                      *)
Set(c, step, target, rest, d) ==
    session' = [session EXCEPT ![c] = [@ EXCEPT !.step = step,
                    !.target = target, !.rest = rest, !.length = d]]
Done(c) == Set(c, "ready", Nobody, {}, "ever")

(* Every handler looks at room.IsOp first; what it does then, it does even *)
(* if somebody takes the flag away meanwhile.                              *)
Issue(c) ==
    /\ At(c, "ready") /\ c \in isOp
    /\ left > 0 /\ left' = left - 1
    /\ Goto(c, "command")
    /\ UNCHANGED <<access, passphrase, people>>

Issuing(c, name) == name \in Issued /\ At(c, "command") /\ UNCHANGED left

(* No such user, no such time, a query or a key that cannot be read.       *)
GiveUp(c) ==
    /\ At(c, "command")
    /\ Done(c)
    /\ UNCHANGED <<access, passphrase, people, left>>

(* /ban USER: the key, then the address, then the connection.              *)
Ban(c, t, d) ==
    /\ Issuing(c, "ban")
    /\ t \in member
    /\ Set(c, "ban", t, {}, d)
    /\ UNCHANGED <<access, passphrase, people>>

BanKey(c) ==
    /\ At(c, "ban")
    /\ Put("banned", session[session[c].target].key, session[c].length)
    /\ Goto(c, "banaddr")
    /\ UNCHANGED <<allowlistMode, passphrase, people, left>>

BanAddr(c) ==
    /\ At(c, "banaddr")
    /\ Put("bannedAddr", AddrOf[session[c].target], session[c].length)
    /\ Goto(c, "close")
    /\ UNCHANGED <<allowlistMode, passphrase, people, left>>

CloseTarget(c) ==
    /\ At(c, "close")
    /\ closed' = closed \cup {session[c].target}
    /\ Done(c)
    /\ UNCHANGED <<access, passphrase, member, isOp, left>>

(* /ban QUERY: one condition after the other, until one cannot be read.    *)
BanQuery(c, es, d) ==
    /\ Issuing(c, "query")
    /\ Set(c, "query", Nobody, es, d)
    /\ UNCHANGED <<access, passphrase, people>>

BanField(c, e) ==
    /\ At(c, "query") /\ e \in session[c].rest
    /\ Put(e[1], e[2], session[c].length)
    /\ session' = [session EXCEPT ![c].rest = @ \ {e}]
    /\ UNCHANGED <<allowlistMode, passphrase, people, left>>

QueryEnd(c) ==
    /\ At(c, "query")
    /\ Done(c)
    /\ UNCHANGED <<access, passphrase, people, left>>

(* /op: the flag of the member, then the key; removing is for no time.     *)
Op(c, t, value, d) ==
    /\ Issuing(c, "op")
    /\ t \in member
    /\ isOp' = IF value THEN isOp \cup {t} ELSE isOp \ {t}
    /\ Set(c, "opkey", t, {}, IF value THEN d ELSE "for")
    /\ UNCHANGED <<access, passphrase, member, closed>>

OpKey(c) ==
    /\ At(c, "opkey")
    /\ Put("ops", session[session[c].target].key, session[c].length)
    /\ Done(c)
    /\ UNCHANGED <<allowlistMode, passphrase, people, left>>

-----------------------------------------------------------------------------
(* The subcommands of /allowlist.  ReloadAllowlist keeps the settings      *)
(* locked while it adds key after key.                                     *)
SettingsFree == \A c \in Conns : ~At(c, "load")

SetAllowlistMode(c, value) ==
    /\ Issuing(c, "mode") /\ SettingsFree
    /\ allowlistMode' = value
    /\ Done(c)
    /\ UNCHANGED <<entry, passphrase, people>>

(* add, remove                                                             *)
Allowlist(c, k, d) ==
    /\ Issuing(c, "allow")
    /\ Put("allowlist", k, d)
    /\ Done(c)
    /\ UNCHANGED <<allowlistMode, passphrase, people>>

Import(c) ==
    /\ Issuing(c, "import")
    /\ Set(c, "import", Nobody, member, "ever")
    /\ UNCHANGED <<access, passphrase, people>>

(* Whoever joined after the cutoff is passed over.                         *)
ImportVisit(c, u) ==
    /\ At(c, "import") /\ u \in session[c].rest
    /\ \/ Put("allowlist", session[u].key, "ever")
       \/ UNCHANGED entry
    /\ session' = [session EXCEPT ![c].rest = @ \ {u}]
    /\ UNCHANGED <<allowlistMode, passphrase, people, left>>

Reload(c, flush) ==
    /\ Issuing(c, "reload")
    /\ entry' = [e \in Entries |->
                    IF flush /\ e[1] = "allowlist" THEN "none" ELSE entry[e]]
    /\ Goto(c, "reload")
    /\ UNCHANGED <<allowlistMode, passphrase, people>>

(* The loader reads the file, or fails and has no keys.                    *)
ReadFile(c, keys) ==
    /\ At(c, "reload")
    /\ Set(c, "load", Nobody, keys, "ever")
    /\ UNCHANGED <<access, passphrase, people, left>>

LoadKey(c, k) ==
    /\ At(c, "load") /\ k \in session[c].rest
    /\ Put("allowlist", k, "ever")
    /\ session' = [session EXCEPT ![c].rest = @ \ {k}]
    /\ UNCHANGED <<allowlistMode, passphrase, people, left>>

Reverify(c) ==
    /\ Issuing(c, "reverify")
    /\ IF allowlistMode THEN Goto(c, "verify") ELSE Done(c)
    /\ UNCHANGED <<access, passphrase, people>>

LockMembers(c) ==
    /\ At(c, "verify")
    /\ Set(c, "reverify", Nobody, member, "ever")
    /\ UNCHANGED <<access, passphrase, people, left>>

ReverifyVisit(c, u) ==
    /\ At(c, "reverify") /\ u \in session[c].rest
    /\ Set(c, "allowlist", u, session[c].rest \ {u}, "ever")
    /\ UNCHANGED <<access, passphrase, people, left>>

LoopEnd(c) ==
    /\ At(c, "import") \/ At(c, "load") \/ At(c, "reverify")
    /\ session[c].rest = {}
    /\ Done(c)
    /\ UNCHANGED <<access, passphrase, people, left>>

Command(c) ==
    \/ \E t \in member, d \in Durations :
           Ban(c, t, d) \/ (\E value \in BOOLEAN : Op(c, t, value, d))
    \/ \E es \in Queries, d \in Durations : BanQuery(c, es, d)
    \/ \E value \in BOOLEAN : SetAllowlistMode(c, value) \/ Reload(c, value)
    \/ \E k \in Keys, d \in Durations : Allowlist(c, k, d)
    \/ Import(c) \/ Reverify(c) \/ Issue(c) \/ GiveUp(c)

Handle(c) ==
    \/ BanKey(c) \/ BanAddr(c) \/ CloseTarget(c) \/ OpKey(c)
    \/ (\E e \in session[c].rest : BanField(c, e)) \/ QueryEnd(c)
    \/ \E keys \in {Listed, {}} : ReadFile(c, keys)
    \/ \E k \in session[c].rest : LoadKey(c, k)
    \/ LockMembers(c)
    \/ (\E u \in session[c].rest : ImportVisit(c, u) \/ ReverifyVisit(c, u))
    \/ LoopEnd(c)

Next ==
    \/ \E e \in Entries : Expire(e)
    \/ \E c \in Conns : Admission(c) \/ Connect(c) \/ Command(c) \/ Handle(c)

Spec == Init /\ [][Next]_vars
=============================================================================
