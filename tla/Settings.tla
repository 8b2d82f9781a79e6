------------------------------ MODULE Settings ------------------------------
(***************************************************************************)
(* What one user has set, and what is derived from it: the goroutine of    *)
(* the user changes its preferences and its name, operators change its     *)
(* name and symbol, and after each change User.OnChange brings the prompt  *)
(* and the highlight up to date, in the goroutine that made the change     *)
(* (chat/message/user.go, chat/command.go, host.go).                       *)
(***************************************************************************)
CONSTANTS Ids,          \* the names
          Symbols,      \* the prefixes /rename can give
          Broken,       \* those of them that are no regular expression
          None,         \* no symbol; a local that holds nothing
          Themes,       \* message.Themes
          HostTheme,    \* the theme of the host, among them
          Self,         \* the goroutine of the user
          Operators,    \* the goroutines of the others that rename it
          Uses          \* the preferences the user makes use of

ASSUME SettingsAssumption ==
    /\ None \notin Ids \cup Symbols \cup Themes
    /\ HostTheme \in Themes
    /\ Broken \subseteq Symbols
    /\ Self \notin Operators
    /\ Uses \subseteq {"/theme", "/quiet", "/timestamp"}

VARIABLES
    name,       \* Identity.id and Identity.symbol
    config,     \* User.config
    prompt,     \* the prompt of the terminal: a name in some theme
    greeted,    \* whether Connect has set the prompt after Join
    errand      \* what each goroutine is doing to the user

setVars == <<name, config, prompt, greeted, errand>>

Goroutines == Operators \cup {Self}
Plain(i) == [id |-> i, symbol |-> None]

(* copy: the configuration to be saved; new, old: the names of a rename;   *)
(* theme, shown: what OnChange has read; then: what follows OnChange;      *)
(* wrote: whether something has been changed that OnChange must follow.    *)
Resting == [step |-> "idle", copy |-> None, new |-> None, old |-> None,
            theme |-> None, shown |-> None, then |-> "idle", wrote |-> FALSE]

(* The user has just joined.  Connect has called SetConfig before Join; if *)
(* the name was taken it has changed it since, without OnChange.           *)
SettingsInit ==
    /\ name \in {Plain(i) : i \in Ids}
    /\ \E before \in Ids :
           /\ config = [theme |-> HostTheme, quiet |-> FALSE, stamp |-> "off",
                        highlight |-> Plain(before)]
           /\ prompt = [name |-> Plain(before), theme |-> HostTheme]
    /\ greeted = FALSE
    /\ errand = [t \in Goroutines |-> Resting]

At(t, s) == errand[t].step = s

(* OnChange begins in goroutine t; what follows it is s.                   *)
Refreshing(s, old) ==
    [step |-> "theme", copy |-> None, new |-> None, old |-> old,
     theme |-> None, shown |-> None, then |-> s, wrote |-> TRUE]

Refresh(t, s) ==
    errand' = [errand EXCEPT ![t] =
        Refreshing(s, IF s = "rename" THEN errand[t].old ELSE None)]

-----------------------------------------------------------------------------
(* GetPrompt reads the configuration and then the name,                    *)
ReadTheme(t) ==
    /\ At(t, "theme")
    /\ errand' = [errand EXCEPT ![t].step = "name", ![t].theme = config.theme]
    /\ UNCHANGED <<name, config, prompt, greeted>>

ReadName(t) ==
    /\ At(t, "name")
    /\ errand' = [errand EXCEPT ![t].step = "prompt", ![t].shown = name]
    /\ UNCHANGED <<name, config, prompt, greeted>>

(* the terminal gets the prompt,                                           *)
SetPrompt(t) ==
    /\ At(t, "prompt")
    /\ prompt' = [name |-> errand[t].shown, theme |-> errand[t].theme]
    /\ errand' = [errand EXCEPT ![t].step = "id", ![t].shown = None]
    /\ UNCHANGED <<name, config, greeted>>

(* and the name is what is highlighted from now on: its id, but all of it  *)
(* when Connect greets the user.                                           *)
ReadID(t) ==
    /\ At(t, "id")
    /\ errand' = [errand EXCEPT ![t].step = "highlight",
           ![t].shown = IF errand[t].then = "greet" THEN name
                                                    ELSE Plain(name.id)]
    /\ UNCHANGED <<name, config, prompt, greeted>>

Done(t) ==
    errand' = [errand EXCEPT ![t] =
        IF @.then = "rename" THEN [@ EXCEPT !.step = "rename", !.shown = None,
                                            !.theme = None]
                             ELSE Resting]

(* A plausible bug: the configuration GetPrompt has read is saved again,   *)
(* with the new highlight.                                                 *)
SaveHighlight(t) ==
    /\ At(t, "highlight")
    /\ config' = [config EXCEPT !.highlight = errand[t].shown,
                                !.theme = errand[t].theme]
    /\ Done(t)
    /\ greeted' = (greeted \/ errand[t].then = "greet")
    /\ UNCHANGED <<name, prompt>>

(* A name that does not compile leaves the highlight as it is; Connect and *)
(* OnChange ignore the error.                                              *)
SetHighlight(t) ==
    /\ At(t, "highlight")
    /\ config' = IF errand[t].shown.symbol \in Broken THEN config
                 ELSE [config EXCEPT !.highlight = errand[t].shown]
    /\ Done(t)
    /\ greeted' = (greeted \/ errand[t].then = "greet")
    /\ UNCHANGED <<name, prompt>>

OnChange(t) ==
    ReadTheme(t) \/ ReadName(t) \/ SetPrompt(t) \/ ReadID(t) \/ SetHighlight(t)

(* Connect sets prompt and highlight once more after it has obeyed the     *)
(* environment; /quiet and /nick have to wait until it reads lines.        *)
Greet ==
    /\ ~greeted
    /\ At(Self, "idle")
    /\ Refresh(Self, "greet")
    /\ UNCHANGED <<name, config, prompt, greeted>>

-----------------------------------------------------------------------------
(* /theme, /quiet and /timestamp work on a copy of the configuration,      *)
Toggled(stamp) == IF stamp = "off" THEN "time" ELSE "off"

Theme(cfg) == {[cfg EXCEPT !.theme = th] : th \in Themes}
Quiet(cfg) == {[cfg EXCEPT !.quiet = ~@]}
Timestamp(cfg) == {[cfg EXCEPT !.stamp = s] :
                      s \in {Toggled(cfg.stamp), "off", "time", "datetime"}}

Wanted(use, cfg) == CASE use = "/theme" -> Theme(cfg)
                      [] use = "/quiet" -> Quiet(cfg)
                      [] use = "/timestamp" -> Timestamp(cfg)

Prefer(use) ==
    /\ At(Self, "idle")
    /\ use = "/quiet" => greeted
    /\ \E cfg \in Wanted(use, config) :
           errand' = [errand EXCEPT ![Self].step = "save", ![Self].copy = cfg]
    /\ UNCHANGED <<name, config, prompt, greeted>>

(* which SetConfig puts in place as a whole.                               *)
SetConfig ==
    /\ At(Self, "save")
    /\ config' = errand[Self].copy
    /\ Refresh(Self, "idle")
    /\ UNCHANGED <<name, prompt, greeted>>

-----------------------------------------------------------------------------
(* /nick of the user and /rename of an operator, who may be the user.  A   *)
(* symbol, if given, is set first and stays whatever becomes of the name   *)
(* (with a symbol, a name that sanitises to nothing counts as the old      *)
(* one);                                                                   *)
Call(t, new, symbol) ==
    /\ At(t, "idle")
    /\ t = Self => greeted
    /\ name' = IF symbol = None THEN name
                                    ELSE [name EXCEPT !.symbol = symbol]
    /\ errand' = [errand EXCEPT ![t].step = "compare", ![t].new = new,
                                ![t].wrote = symbol # None]
    /\ UNCHANGED <<config, prompt, greeted>>

(* with the same name only the symbol has to be shown, if there is one;    *)
Compare(t) ==
    /\ At(t, "compare")
    /\ IF name.id = errand[t].new /\ errand[t].wrote
       THEN Refresh(t, "idle")
       ELSE errand' = [errand EXCEPT ![t] =
                IF name.id = @.new THEN Resting
                ELSE [@ EXCEPT !.step = "set", !.old = name.id]]
    /\ UNCHANGED <<name, config, prompt, greeted>>

(* User.SetID.                                                             *)
SetID(t, i, then) ==
    /\ name' = [name EXCEPT !.id = i]
    /\ Refresh(t, then)
    /\ UNCHANGED <<config, prompt, greeted>>

SetNew(t) == At(t, "set") /\ SetID(t, errand[t].new, "rename")

(* Room.Rename moves the member in the registry, or finds the name taken.  *)
Rename(t) ==
    /\ At(t, "rename")
    /\ \/ errand' = [errand EXCEPT ![t] = Resting]
       \/ errand' = [errand EXCEPT ![t].step = "restore"]
    /\ UNCHANGED <<name, config, prompt, greeted>>

(* A plausible bug: the identity gets its name back, but not the user.     *)
RestoreIdentity(t) ==
    /\ At(t, "restore")
    /\ name' = [name EXCEPT !.id = errand[t].old]
    /\ errand' = [errand EXCEPT ![t] = Resting]
    /\ UNCHANGED <<config, prompt, greeted>>

Restore(t) == At(t, "restore") /\ SetID(t, errand[t].old, "idle")

SettingsNext ==
    \/ \E use \in Uses : Prefer(use)
    \/ Greet \/ SetConfig
    \/ \E t \in Goroutines :
           \/ \E i \in Ids, s \in Symbols \cup {None} : Call(t, i, s)
           \/ Compare(t) \/ SetNew(t) \/ Rename(t) \/ Restore(t) \/ OnChange(t)

SettingsSpec == SettingsInit /\ [][SettingsNext]_setVars
=============================================================================
