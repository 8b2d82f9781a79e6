------------------------------- MODULE MCParts -------------------------------
(* Three parts of the program that share nothing, each in behaviours of    *)
(* its own: the history of a room, the settings of a user and the limiter  *)
(* of a connection.                                                        *)
EXTENDS History, UpToDate, InputLimiter

MCAsks == 0..(Capacity + 1)

VARIABLE part       \* the part that takes the steps

partVars == <<part, vars, setVars, followVars, limiterVars>>

MCInit ==
    /\ part \in {"history", "settings", "limiter"}
    /\ Init
    /\ FollowInit
    /\ LimiterInit

HistoryStep ==
    /\ part = "history"
    /\ Next
    /\ UNCHANGED <<part, setVars, followVars, limiterVars>>

SettingsStep ==
    /\ part = "settings"
    /\ FollowNext
    /\ UNCHANGED <<part, vars, limiterVars>>

LimiterStep ==
    /\ part = "limiter"
    /\ LimiterNext
    /\ UNCHANGED <<part, vars, setVars, followVars>>

MCNext == HistoryStep \/ SettingsStep \/ LimiterStep

MCSpec == MCInit /\ [][MCNext]_partVars
=============================================================================
