------------------------------ MODULE UpToDate ------------------------------
(***************************************************************************)
(* Settings with variables that observe what the user has asked for, and   *)
(* which changes of the user overlap.                                      *)
(***************************************************************************)
EXTENDS Settings

VARIABLES
    asked,      \* the preferences the user has asked for
    crossed,    \* the goroutines whose change has overlapped another's
    fresh       \* whether the last change to end was alone all the time

followVars == <<asked, crossed, fresh>>

(* The join counts as a change of the user until Connect has greeted it.   *)
Changing(t) == errand[t].wrote \/ (t = Self /\ ~greeted)
Changes == {t \in Goroutines : Changing(t)}

Preferences(cfg) ==
    [theme |-> cfg.theme, quiet |-> cfg.quiet, stamp |-> cfg.stamp]

FollowInit ==
    /\ SettingsInit
    /\ asked = Preferences(config)
    /\ crossed = {}
    /\ fresh = FALSE

Follow ==
    /\ asked' = IF errand'[Self].step = "save" /\ ~At(Self, "save")
                THEN Preferences(errand'[Self].copy) ELSE asked
    /\ LET open == Changes'
           overlap == {t \in open : open # {t}}
           ended == Changes \ open
       IN  /\ crossed' = (crossed \cap open) \cup overlap
           /\ fresh' = (overlap = {} /\ (ended = {} => fresh)
                                   /\ ended \cap crossed = {})

FollowNext == SettingsNext /\ Follow
FollowSpec == FollowInit /\ [][FollowNext]_<<setVars, followVars>>

-----------------------------------------------------------------------------
(* What the user asked for is what it has: no change by an operator comes  *)
(* between the copy of the configuration a command works on and SetConfig  *)
(* and is undone, or undoes it (user.Config, SetConfig, SetHighlight).     *)
NothingLost ==
    ~At(Self, "save") => Preferences(config) = asked

(* Once every change has ended, the last of them without having met        *)
(* another, the prompt shows the name and the theme the user has, and the  *)
(* name is what is highlighted: after a refused rename, a new symbol and   *)
(* the name given up at the join as well (OnChange in host.go).            *)
PromptFollows ==
    Changes = {} /\ fresh =>
        /\ prompt = [name |-> name, theme |-> config.theme]
        /\ config.highlight = Plain(name.id)
=============================================================================
