---------------------------- MODULE InputLimiter ----------------------------
(***************************************************************************)
(* sshd/ratelimit.go: the limiter in front of every read of a connection,  *)
(* with two variables that observe what was read when.  A read that        *)
(* exceeds the limit fails, and the connection ends with it.               *)
(***************************************************************************)
EXTENDS Integers

CONSTANTS Amount,       \* inputLimiter.Amount
          Frequency,    \* inputLimiter.Frequency
          Grace,        \* how long the first window lasts
          GraceReads,   \* what may be read in it for nothing
          ReadCap,      \* inputLimiter.readCap
          ReadSizes,    \* the numbers of bytes a read returns
          MaxTime       \* bound: the clock stops there

ASSUME LimiterAssumption ==
    /\ {Amount, Frequency, Grace, GraceReads, ReadCap, MaxTime} \subseteq Nat
    /\ Frequency > 0 /\ Grace <= Frequency
    /\ ReadSizes \subseteq Nat

VARIABLES
    now,        \* the clock
    numRead,    \* inputLimiter.numRead
    timeRead,   \* inputLimiter.timeRead, the end of the window
    cut,        \* whether a read has failed
    total,      \* observer: the cost of all that was read
    before      \* observer: the part of it that was read before each time

limiterVars == <<now, numRead, timeRead, cut, total, before>>

(* NewInputLimiter.                                                        *)
LimiterInit ==
    /\ now = 0
    /\ numRead = -GraceReads
    /\ timeRead = Grace
    /\ cut = FALSE
    /\ total = 0
    /\ before = [i \in 0..MaxTime |-> 0]

(* A small read costs 1, as one key typed does.                            *)
Cost(n) == IF n <= ReadCap THEN 1 ELSE n

Record(n) == total' = total + Cost(n)

Verdict == cut' = (numRead' > Amount)

(* A plausible bug: a new window goes on with the count of the last.       *)
KeepCount(n) ==
    /\ ~cut
    /\ numRead' = numRead + Cost(n)
    /\ timeRead' = IF now > timeRead THEN now + Frequency ELSE timeRead
    /\ Verdict
    /\ Record(n)
    /\ UNCHANGED <<now, before>>

(* A plausible bug: a new window ends at once.                             *)
ShortWindow(n) ==
    /\ ~cut
    /\ numRead' = Cost(n) + IF now > timeRead THEN 0 ELSE numRead
    /\ timeRead' = IF now > timeRead THEN now ELSE timeRead
    /\ Verdict
    /\ Record(n)
    /\ UNCHANGED <<now, before>>

(* A window begins with the first read after the end of the last one.      *)
Count(n) ==
    /\ ~cut
    /\ numRead' = Cost(n) + IF now > timeRead THEN 0 ELSE numRead
    /\ timeRead' = IF now > timeRead THEN now + Frequency ELSE timeRead
    /\ Verdict
    /\ Record(n)
    /\ UNCHANGED <<now, before>>

(* Time passes.                                                            *)
Tick ==
    /\ ~cut
    /\ now < MaxTime
    /\ now' = now + 1
    /\ before' = [before EXCEPT ![now'] = total]
    /\ UNCHANGED <<numRead, timeRead, cut, total>>

LimiterNext == Tick \/ \E n \in ReadSizes : Count(n)

LimiterSpec == LimiterInit /\ [][LimiterNext]_limiterVars

-----------------------------------------------------------------------------
(* What was read from time i on within one Frequency.                      *)
Window(i) ==
    (IF i + Frequency < now THEN before[i + Frequency + 1] ELSE total)
        - before[i]

(* Only who reads more than Amount within some Frequency is cut off, not   *)
(* who types steadily for a long time or pauses: whatever the windows of   *)
(* the limiter, none of them adds up reads that lie further apart (Count   *)
(* in sshd/ratelimit.go).                                                  *)
PoliteStays ==
    cut => \E i \in 0..now : Window(i) > Amount

(* However the reads are timed against the windows of the limiter, once    *)
(* the grace is over nobody reads more than twice the Amount within a      *)
(* Frequency and goes on.                                                  *)
FloodEnds ==
    ~cut => \A i \in (Grace + 1)..now : Window(i) <= 2 * Amount
=============================================================================
