------------------------------- MODULE Silence -------------------------------
(***************************************************************************)
(* What should not be heard: Host with two variables that observe which    *)
(* messages HandleMsg began on while their author was muted, or while a    *)
(* user ignored the name they came under, for as long as that lasts.       *)
(***************************************************************************)
EXTENDS Host

VARIABLES
    hushed,     \* messages whose author has been muted since
    shunned     \* <<message, name, user>>: the user has ignored the name since

silenceVars == <<hushed, shunned>>

Begun == {t \in Threads : /\ At(t, "idle")
                          /\ job'[t].step # "idle"
                          /\ HasFrom(job'[t].msg)}

SilenceInit == Init /\ hushed = {} /\ shunned = {}

SilenceNext ==
    /\ Next
    /\ hushed' = {m \in hushed \cup {job'[t].msg : t \in Begun} :
                      m.by \in muted'}
    /\ shunned' = {s \in shunned \cup
                       {<<job'[t].msg, job'[t].from, u>> :
                            t \in Begun, u \in Users} :
                      Key(s[2]) \in ignored'[s[3]]}

SilenceSpec == SilenceInit /\ [][SilenceNext]_<<vars, silenceVars>>

Buffered(u, m) == \E i \in DOMAIN inbox[u] : inbox[u][i] = m

(* A message HandleMsg takes up after its author was muted is, while the   *)
(* mute lasts, neither recorded in the history nor buffered for anybody    *)
(* else (Member.isMuted: "When true, messages should not be broadcasted"), *)
(* even if it was posted before the mute.                                  *)
MutedStaysSilent ==
    \A m \in hushed :
        /\ \A i \in DOMAIN history : history[i] # m
        /\ \A u \in Users \ {m.by} : ~Buffered(u, m)

(* /ignore takes effect on every message handled after it, public, private *)
(* or emote, however the handler waits between its check and its send: the *)
(* user that typed it is not sent what comes under that name any more.     *)
IgnoredStaysHidden ==
    \A s \in shunned : s[3] # s[1].by => ~Buffered(s[3], s[1])
=============================================================================
