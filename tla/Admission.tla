------------------------------ MODULE Admission ------------------------------
(***************************************************************************)
(* Auth with variables that observe, for each goroutine that checks keys,  *)
(* what has been true at some moment and what has been true all along      *)
(* since it began.                                                         *)
(***************************************************************************)
EXTENDS Auth

VARIABLES once,     \* what was in force at some moment of the check
          always    \* the entries in force for ever, all through it

observers == <<once, always>>

(* What there is to be said of a moment.                                   *)
Anonymous == <<"anonymous", NoKey>>
Facts == {e \in Entries : entry[e] # "none"}
             \cup (IF ~allowlistMode /\ ~passphrase THEN {Anonymous} ELSE {})
             \cup ({"IsOp"} \X isOp)
Forever == {e \in Entries : entry[e] = "ever"}
Allowing(k) == {Anonymous, <<"allowlist", k>>, <<"ops", k>>}

Checking(c) == session[c].step \in Handshake \cup {"verify", "reverify"}

AdmissionInit ==
    /\ Init
    /\ once = [c \in Conns |-> {}]
    /\ always = [c \in Conns |-> {}]

AdmissionNext ==
    /\ Next
    /\ once' = [c \in Conns |->
           IF Checking(c)' THEN Facts' \cup IF Checking(c) THEN once[c] ELSE Facts
                           ELSE {}]
    /\ always' = [c \in Conns |->
           IF Checking(c)' THEN Forever' \cap IF Checking(c) THEN always[c] ELSE Forever
                           ELSE {}]

AdmissionSpec == AdmissionInit /\ [][AdmissionNext]_<<vars, observers>>

-----------------------------------------------------------------------------
Ends(c, step) ==
    /\ session[c].step \in Handshake /\ session[c].target = Nobody
    /\ session'[c].step = step

Bans(c) == {<<"banned", session[c].key>>, <<"bannedAddr", AddrOf[c]>>,
            <<"bannedClient", ClientOf[c]>>}
OpKeyOf(c) == <<"ops", session[c].key>>

(* Nobody passes a handshake through which a ban of its key, its address   *)
(* or its client was in force all the time, unless the key was an          *)
(* operator's at some moment of it (Auth.CheckBans).                       *)
NoBanMissed ==
    [][\A c \in Conns : Ends(c, "accepted") /\ Bans(c) \cap always[c] # {} =>
           OpKeyOf(c) \in once[c]]_<<vars, observers>>

(* A key that passes was on the allowlist, an operator's, or not needed at *)
(* all at some moment of the handshake (Auth.CheckPublicKey); without a    *)
(* key one passes by the passphrase or when keys were not needed.          *)
AdmittedWasAllowed ==
    [][\A c \in Conns : Ends(c, "accepted") =>
           \/ Allowing(session[c].key) \cap once[c] # {}
           \/ session[c].key = NoKey /\ passphrase]_<<vars, observers>>

(* A permanent operator is never refused with its key, whatever is banned  *)
(* and whoever else is allowed ("Ops can bypass bans, just in case we ban  *)
(* ourselves").                                                            *)
OpsGetIn ==
    [][\A c \in Conns : Ends(c, "out") => OpKeyOf(c) \notin always[c]
      ]_<<vars, observers>>

(* When /allowlist reverify ends, every member has been closed, or was     *)
(* allowed at some moment since it began, or an operator: nobody joins     *)
(* behind its back.                                                        *)
Reverified ==
    [][\A c \in Conns : At(c, "reverify") /\ At(c, "ready")' =>
           \A u \in member :
               \/ u \in closed
               \/ Allowing(session[u].key) \cap once[c] # {}
               \/ <<"IsOp", u>> \in once[c]]_<<vars, observers>>
=============================================================================
