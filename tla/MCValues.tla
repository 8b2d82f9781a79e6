------------------------------ MODULE MCValues ------------------------------
(***************************************************************************)
(* Values for the small instances: three connections, the names they go    *)
(* by, and the lines each client may type in each run.                     *)
(***************************************************************************)
EXTENDS Messages, Sequences, Functions, TLC

CONSTANTS ann, bob, cat,    \* the connections
          t1, t2            \* the HandleMsg goroutines

MCNames == {"", "ann", "Ann", "bob", "cat", "guestA", "guestB",
            "guestC"}
MCLower == [n \in MCNames |-> IF n = "Ann" THEN "ann" ELSE n]

MCDial == Restrict(ann :> "ann" @@ bob :> "bob" @@ cat :> "cat", Users)
(* cat asks for a name that only differs in case from ann's.               *)
Namesakes == Restrict(ann :> "ann" @@ bob :> "bob" @@ cat :> "Ann", Users)
(* cat asks for bob's name.                                                *)
SameName == Restrict(ann :> "ann" @@ bob :> "bob" @@ cat :> "bob", Users)
MCGuest == Restrict(ann :> "guestA" @@ bob :> "guestB" @@ cat :> "guestA", Users)
OwnGuests == Restrict(ann :> "guestA" @@ bob :> "guestB" @@ cat :> "guestC", Users)

OnlyAnn == <<ann>>
OnlyBob == <<bob>>
AnnBob == <<ann, bob>>
AnnBobCat == <<ann, bob, cat>>

Do(c) == [NoLine EXCEPT !.cmd = c]
On(c, n) == [NoLine EXCEPT !.cmd = c, !.arg = n]
NickTo(n) == [NoLine EXCEPT !.cmd = "nick", !.new = n]
RenameTo(n, new, s) ==
    [NoLine EXCEPT !.cmd = "rename", !.arg = n, !.new = new, !.sym = s]

OneEach == [u \in Users |-> 1]
AnnTwo == Restrict(ann :> 2 @@ bob :> 1 @@ cat :> 1, Users)
BobTwo == Restrict(ann :> 1 @@ bob :> 2 @@ cat :> 1, Users)

-----------------------------------------------------------------------------
(* Renames: ann and bob change names, also to one taken and by case only,  *)
(* and bob, as an operator, takes away its own, while cat joins under      *)
(* ann's name.                                                             *)
NickLines ==
    Restrict(
        ann :> {NickTo("Ann"), NickTo("bob"), NickTo("ann")} @@
        bob :> {NickTo("ann"), RenameTo("bob", "", FALSE), NickTo("guestA")} @@
        cat :> {},
        Users)

(* bob mutes and unmutes ann while ann talks in every way a message can be *)
(* posted; cat listens, answers or ignores ann, or uses a command that     *)
(* concerns itself or fails.                                               *)
MuteLines ==
    Restrict(
        ann :> {Do("say"), Do("emote"), On("msg", "cat")} @@
        bob :> {On("mute", "ann")} @@
        cat :> {Do(c) : c \in {"reply", "bad", "info", "reject", "quiet"}}
               \cup {On("ignore", "ann"), On("ignore", "cat"),
                     On("unignore", "bob"), On("kick", "bob"),
                     On("msg", "guestA")},
        Users)

(* ann, an operator, talks and makes bob one while bob joins; bob may       *)
(* then ignore ann.                                                        *)
TalkLines ==
    Restrict(
        ann :> {Do("say"), Do("emote"), On("op", "bob")} @@
        bob :> {On("ignore", "ann")} @@
        cat :> {Do("say")},
        Users)

(* cat, whose connection is unreliable and whose key is an operator's,     *)
(* joins while bob, another operator, kicks it, takes that away or takes   *)
(* the last name it could have had.                                        *)
SessionLines ==
    Restrict(
        ann :> {} @@
        bob :> {On("kick", "guestA"), On("deop", "guestA"), NickTo("guestA")} @@
        cat :> {Do("exit")},
        Users)

(* An operator renames ann, to another name or by case only, while ann     *)
(* leaves.                                                                 *)
RenameLines ==
    Restrict(
        ann :> {} @@
        bob :> {RenameTo("ann", "guestA", FALSE), RenameTo("ann", "Ann", FALSE)} @@
        cat :> {},
        Users)
=============================================================================
