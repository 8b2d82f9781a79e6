----------------------------- MODULE PartsProofs -----------------------------
(***************************************************************************)
(* Proofs about the three parts that share nothing: the history of a room, *)
(* the limiter of a connection and the settings of a user.                 *)
(*                                                                         *)
(* The ring buffer implements the log of recent messages.  The limiter     *)
(* ends floods and nothing else.  What the user asked for is kept, and the *)
(* prompt and the highlight follow the name and the theme.                 *)
(***************************************************************************)
EXTENDS History, UpToDate, InputLimiter, SequenceTheorems, TLAPS

-----------------------------------------------------------------------------
(* The history.                                                            *)
RingTypes ==
    /\ entries \in [Slots -> Entries \cup {Nothing}]
    /\ head \in Slots
    /\ size \in 0..Capacity

(* The slots counted back from head are the ones in use.                   *)
NoHole == \A i \in 0..(size - 1) : entries[Index(head, i)] \in Entries

RingInv == RingTypes /\ NoHole

Held == Newest(size)

-----------------------------------------------------------------------------
(* Arithmetic: what the remainders come to within the ring.                *)
LEMMA Successor ==
    ASSUME NEW n \in Slots
    PROVE  (n + 1) % Capacity = IF n + 1 = Capacity THEN 0 ELSE n + 1
  <1>1. CASE n + 1 = Capacity
    BY <1>1, HistoryAssumption DEF Slots
  <1>2. CASE n + 1 < Capacity
    BY <1>2, HistoryAssumption DEF Slots
  <1>. QED  BY <1>1, <1>2, HistoryAssumption DEF Slots

LEMMA IndexValue ==
    ASSUME NEW h \in Slots, NEW i \in Slots
    PROVE  /\ Index(h, i) = IF i <= h THEN h - i ELSE h - i + Capacity
           /\ Index(h, i) \in Slots
  <1>. DEFINE d == h - i
  <1>1. /\ d \in Int /\ Capacity \in Nat \ {0}
        /\ d < Capacity /\ -d < Capacity
    BY HistoryAssumption DEF Slots
  <1>2. CASE d >= 0
    <2>1. d % Capacity = d
      BY <1>1, <1>2
    <2>. QED  BY <1>1, <1>2, <2>1, HistoryAssumption DEF Index, Rem, Slots
  <1>3. CASE d < 0
    <2>1. (-d) % Capacity = -d
      BY <1>1, <1>3
    <2>2. Rem(d, Capacity) = d
      BY <1>1, <1>3, <2>1 DEF Rem
    <2>. QED  BY <1>1, <1>3, <2>2, HistoryAssumption DEF Index, Slots
  <1>. QED  BY <1>1, <1>2, <1>3

(* Adding an entry puts it where counting starts and moves every other one *)
(* place back.                                                             *)
LEMMA AddShifts ==
    ASSUME RingTypes, NEW e \in Entries, Add(e)
    PROVE  /\ head' \in Slots
           /\ entries'[Index(head', 0)] = e
           /\ \A i \in 0..(Capacity - 2) :
                  entries'[Index(head', i + 1)] = entries[Index(head, i)]
  <1>1. /\ head \in Slots /\ Capacity \in Nat \ {0}
        /\ head' = IF head + 1 = Capacity THEN 0 ELSE head + 1
    BY Successor, HistoryAssumption DEF RingTypes, Add
  <1>2. head' \in Slots /\ 0 \in Slots
    BY <1>1 DEF Slots
  <1>3. Index(head', 0) = head'
    BY <1>2, IndexValue DEF Slots
  <1>4. entries' = [entries EXCEPT ![head'] = e]
    BY DEF Add
  <1>5. entries'[Index(head', 0)] = e
    BY <1>2, <1>3, <1>4 DEF RingTypes
  <1>6. ASSUME NEW i \in 0..(Capacity - 2)
        PROVE  entries'[Index(head', i + 1)] = entries[Index(head, i)]
    <2>1. i \in Slots /\ i + 1 \in Slots
      BY <1>1 DEF Slots
    <2>2. /\ Index(head', i + 1) = IF i + 1 <= head' THEN head' - (i + 1)
                                   ELSE head' - (i + 1) + Capacity
          /\ Index(head, i) = IF i <= head THEN head - i
                              ELSE head - i + Capacity
          /\ Index(head, i) \in Slots
      BY <1>1, <1>2, <2>1, IndexValue
    <2>3. Index(head', i + 1) = Index(head, i) /\ Index(head, i) # head'
      BY <1>1, <2>1, <2>2 DEF Slots
    <2>. QED  BY <1>4, <2>2, <2>3 DEF RingTypes
  <1>. QED  BY <1>2, <1>5, <1>6

-----------------------------------------------------------------------------
LEMMA RingStarts == ASSUME Init PROVE RingInv /\ Held = <<>>
  <1>1. RingInv
    BY HistoryAssumption DEF Init, RingInv, RingTypes, NoHole, Slots
  <1>2. Held = <<>>
    BY DEF Init, Held, Newest
  <1>. QED  BY <1>1, <1>2

LEMMA AddKeeps ==
    ASSUME RingInv, NEW e \in Entries, Add(e)
    PROVE  RingInv'
  <1>1. /\ head' \in Slots /\ entries'[Index(head', 0)] = e
        /\ \A i \in 0..(Capacity - 2) :
               entries'[Index(head', i + 1)] = entries[Index(head, i)]
    BY AddShifts DEF RingInv
  <1>2. RingTypes'
    BY <1>1, HistoryAssumption DEF RingInv, RingTypes, Add, Slots
  <1>3. NoHole'
    <2>. SUFFICES ASSUME NEW i \in 0..(size' - 1)
                  PROVE  entries'[Index(head', i)] \in Entries
      BY DEF NoHole
    <2>1. CASE i = 0
      BY <1>1, <2>1
    <2>2. CASE i > 0
      <3>1. i - 1 \in 0..(size - 1) /\ i - 1 \in 0..(Capacity - 2)
        BY <2>2, HistoryAssumption DEF RingInv, RingTypes, Add
      <3>2. entries'[Index(head', (i - 1) + 1)] = entries[Index(head, i - 1)]
        BY <1>1, <3>1
      <3>3. (i - 1) + 1 = i
        BY <3>1
      <3>. QED  BY <3>1, <3>2, <3>3 DEF RingInv, NoHole
    <2>. QED  BY <2>1, <2>2
  <1>. QED  BY <1>2, <1>3 DEF RingInv

LEMMA HeldIsSeq ==
    ASSUME RingInv, NEW n \in 0..size
    PROVE  Newest(n) \in Seq(Entries) /\ Len(Newest(n)) = n
  <1>1. n \in Nat /\ \A k \in 1..n : n - k \in 0..(size - 1)
    BY HistoryAssumption DEF RingInv, RingTypes
  <1>2. \A k \in 1..n : entries[Index(head, n - k)] \in Entries
    BY <1>1 DEF RingInv, NoHole
  <1>. QED  BY <1>1, <1>2 DEF Newest

-----------------------------------------------------------------------------
(* The steps of the ring, as steps of the log.                             *)
LEMMA HeldAdd ==
    ASSUME RingInv, NEW e \in Entries, Add(e)
    PROVE  Held' = Append(IF Len(Held) < Capacity THEN Held ELSE Tail(Held), e)
  <1>1. /\ entries'[Index(head', 0)] = e
        /\ \A i \in 0..(Capacity - 2) :
               entries'[Index(head', i + 1)] = entries[Index(head, i)]
    BY AddShifts DEF RingInv
  <1>2. /\ size \in 0..Capacity /\ Capacity \in Nat \ {0}
        /\ size' = IF size < Capacity THEN size + 1 ELSE size
    BY HistoryAssumption DEF RingInv, RingTypes, Add
  <1>3. Held \in Seq(Entries) /\ Len(Held) = size
    BY <1>2, HeldIsSeq DEF Held
  <1>4. Held' = [k \in 1..size' |-> entries'[Index(head', size' - k)]]
    BY DEF Held, Newest
  <1>5. \A k \in 1..size : Held[k] = entries[Index(head, size - k)]
    BY DEF Held, Newest
  <1>6. Held'[size'] = e
    <2>1. size' \in 1..size' /\ size' - size' = 0
      BY <1>2
    <2>. QED  BY <1>1, <1>4, <2>1
  <1>7. \A k \in 1..(size' - 1) : Held'[k] = entries[Index(head, size' - 1 - k)]
    <2>. TAKE k \in 1..(size' - 1)
    <2>1. /\ size' - 1 - k \in 0..(Capacity - 2)
          /\ (size' - 1 - k) + 1 = size' - k
          /\ k \in 1..size'
      BY <1>2
    <2>2. entries'[Index(head', (size' - 1 - k) + 1)]
              = entries[Index(head, size' - 1 - k)]
      BY <1>1, <2>1
    <2>. QED  BY <1>4, <2>1, <2>2
  <1>8. Held' \in Seq(Entries) /\ Len(Held') = size'
    <2>1. \A k \in 1..size' : size' - k \in 0..(size' - 1)
      BY <1>2
    <2>2. \A k \in 1..size' : entries'[Index(head', size' - k)] \in Entries
      BY <2>1, AddKeeps DEF RingInv, NoHole
    <2>. QED  BY <1>2, <1>4, <2>2
  <1>9. CASE size < Capacity
    <2>. DEFINE more == Append(Held, e)
    <2>1. /\ more \in Seq(Entries) /\ Len(more) = size + 1
          /\ \A k \in 1..size : more[k] = Held[k]
          /\ more[size + 1] = e
      BY <1>3, AppendProperties
    <2>2. size' = size + 1
      BY <1>2, <1>9
    <2>3. \A k \in 1..size : Held'[k] = more[k]
      <3>. TAKE k \in 1..size
      <3>1. k \in 1..(size' - 1) /\ size' - 1 - k = size - k
        BY <1>2, <2>2
      <3>2. Held'[k] = entries[Index(head, size' - 1 - k)]
        BY <1>7, <3>1
      <3>. QED  BY <1>5, <2>1, <3>1, <3>2
    <2>4. \A k \in 1..Len(Held') : Held'[k] = more[k]
      BY <1>2, <1>6, <1>8, <2>1, <2>2, <2>3
    <2>. HIDE DEF more
    <2>5. Held' = more
      BY <1>8, <2>1, <2>2, <2>4, SeqEqual
    <2>. QED  BY <1>3, <1>9, <2>5 DEF more
  <1>10. CASE size = Capacity
    <2>. DEFINE tail == Tail(Held)
                more == Append(tail, e)
    <2>1. Held # <<>>
      BY <1>2, <1>3, <1>10, EmptySeq
    <2>2. /\ tail \in Seq(Entries) /\ Len(tail) = size - 1
          /\ \A k \in 1..(size - 1) : tail[k] = Held[k + 1]
      BY <1>2, <1>3, <2>1, HeadTailProperties
    <2>3. \A k \in 1..(size - 1) : Held'[k] = tail[k]
      <3>. TAKE k \in 1..(size - 1)
      <3>1. /\ k + 1 \in 1..size /\ k \in 1..(size' - 1)
            /\ size' - 1 - k = size - (k + 1)
        BY <1>2, <1>10
      <3>2. Held[k + 1] = entries[Index(head, size - (k + 1))]
        BY <1>5, <3>1
      <3>3. Held'[k] = entries[Index(head, size' - 1 - k)]
        BY <1>7, <3>1
      <3>. QED  BY <2>2, <3>1, <3>2, <3>3
    <2>. HIDE DEF tail
    <2>4. /\ more \in Seq(Entries) /\ Len(more) = size
          /\ \A k \in 1..(size - 1) : more[k] = tail[k]
          /\ more[size] = e
      BY <1>2, <2>2, AppendProperties
    <2>5. size' = size
      BY <1>2, <1>10
    <2>6. \A k \in 1..Len(Held') : Held'[k] = more[k]
      BY <1>2, <1>6, <1>8, <2>3, <2>4, <2>5
    <2>. HIDE DEF more
    <2>7. Held' = more
      BY <1>8, <2>4, <2>5, <2>6, SeqEqual
    <2>. QED  BY <1>3, <1>10, <2>7 DEF more, tail
  <1>. QED  BY <1>2, <1>9, <1>10

LEMMA HeldGet ==
    ASSUME RingInv, NEW num \in Asks, Get(num)
    PROVE  /\ answer' = IF num >= Len(Held) THEN Held
                        ELSE SubSeq(Held, Len(Held) - num + 1, Len(Held))
           /\ Held' = Held
           /\ RingInv'
  <1>1. /\ size \in 0..Capacity /\ Capacity \in Nat \ {0} /\ num \in Nat
        /\ Held \in Seq(Entries) /\ Len(Held) = size
    BY HistoryAssumption, HeldIsSeq DEF RingInv, RingTypes, Held
  <1>2. Held' = Held /\ RingInv'
    BY DEF Get, Held, Newest, Index, Rem, RingInv, RingTypes, NoHole
  <1>3. CASE num >= size
    BY <1>1, <1>2, <1>3 DEF Get, Least, Held
  <1>4. CASE num < size
    <2>1. /\ answer' = Newest(num) /\ num \in 0..size
      BY <1>1, <1>4 DEF Get, Least
    <2>2. Newest(num) \in Seq(Entries) /\ Len(Newest(num)) = num
      BY <2>1, HeldIsSeq
    <2>3. \A k \in 1..num : Newest(num)[k] = Held[size - num + k]
      <3>. TAKE k \in 1..num
      <3>1. size - num + k \in 1..size /\ size - (size - num + k) = num - k
        BY <1>1, <2>1
      <3>. QED  BY <3>1 DEF Newest, Held
    <2>. DEFINE part == SubSeq(Held, size - num + 1, size)
    <2>4. \A i \in (size - num + 1)..size : Held[i] \in Entries
      <3>1. (size - num + 1)..size \subseteq 1..Len(Held)
        BY <1>1, <2>1
      <3>. QED  BY <1>1, <3>1
    <2>5. /\ part \in Seq(Entries) /\ Len(part) = num
          /\ \A k \in 1..num : part[k] = Held[size - num + k]
      <3>1. /\ size - num + 1 \in Int /\ size \in Int
            /\ size - (size - num + 1) + 1 = num
            /\ (size - num + 1 <= size) \/ num = 0
            /\ \A k \in 1..num : (size - num + 1) + k - 1 = size - num + k
        BY <1>1, <2>1
      <3>. QED  BY <1>1, <2>4, <3>1, SubSeqProperties
    <2>. HIDE DEF part
    <2>6. Newest(num) = part
      BY <2>2, <2>3, <2>5, SeqEqual
    <2>. QED  BY <1>1, <1>2, <1>4, <2>1, <2>6 DEF part
  <1>. QED  BY <1>1, <1>2, <1>3, <1>4

(* The ring of history.go is a log of the most recent messages: Add keeps  *)
(* the newest Capacity of them in order, Get answers with the newest num,  *)
(* whatever the capacity, and however often head has gone round.           *)
THEOREM RingImplementsLog == Spec => Implements
  <1>1. Init => RingInv /\ Log!Init
    BY RingStarts DEF Init, Log!Init, Held
  <1>2. RingInv /\ [Next]_vars => RingInv' /\ [Log!Next]_<<Newest(size), answer>>
    <2>. SUFFICES ASSUME RingInv, [Next]_vars
                  PROVE  RingInv' /\ [Log!Next]_<<Newest(size), answer>>
      OBVIOUS
    <2>1. ASSUME NEW e \in Entries, Add(e)
          PROVE  RingInv' /\ Log!Next
      BY <2>1, AddKeeps, HeldAdd DEF Add, Log!Next, Log!Add, Held
    <2>2. ASSUME NEW num \in Asks, Get(num)
          PROVE  RingInv' /\ Log!Next
      BY <2>2, HeldGet DEF Log!Next, Log!Get, Held
    <2>3. CASE UNCHANGED vars
      BY <2>3
         DEF vars, RingInv, RingTypes, NoHole, Newest, Index, Rem
    <2>. QED  BY <2>1, <2>2, <2>3 DEF Next
  <1>. QED  BY <1>1, <1>2, PTL DEF Spec, Implements, Log!Spec

-----------------------------------------------------------------------------
(* The limiter.                                                            *)
LimiterTypes ==
    /\ now \in 0..MaxTime
    /\ total \in Nat /\ timeRead \in Nat /\ numRead \in Int
    /\ cut \in BOOLEAN
    /\ before \in [0..MaxTime -> Nat]
    /\ before[0] = 0

(* What was read before a time was read before every later time.           *)
Growing ==
    /\ \A i \in 0..now : before[i] <= total
    /\ \A i \in 0..now : \A j \in i..now : before[i] <= before[j]

(* Nothing has been read since the end of the window.                      *)
Idle == \A i \in 0..now : i > timeRead => before[i] = total

(* The verdict is about the window it was given in.                        *)
Judged ==
    /\ ~cut => numRead <= Amount
    /\ cut => numRead > Amount /\ now <= timeRead

(* numRead counts everything but what is free,                             *)
InFirst == timeRead = Grace /\ numRead = total - GraceReads

(* or what was read since the window began.  Whatever came within a        *)
(* Frequency of its beginning had to pass the limit of the window before.  *)
Begun == timeRead - Frequency

InLater ==
    /\ Begun \in (Grace + 1)..now
    /\ numRead = total - before[Begun]
    /\ \A i \in (Grace + 1)..Begun :
           i >= Begun - Frequency => before[Begun] - before[i] <= Amount

LimiterInv ==
    /\ LimiterTypes
    /\ Growing
    /\ Idle
    /\ Judged
    /\ InFirst \/ InLater
    /\ FloodEnds

LEMMA Limits ==
    /\ Amount \in Nat /\ Frequency \in Nat /\ Grace \in Nat
    /\ GraceReads \in Nat /\ MaxTime \in Nat
    /\ Frequency > 0 /\ Grace <= Frequency
BY LimiterAssumption

LEMMA LimiterStarts == LimiterInit => LimiterInv
<1> SUFFICES ASSUME LimiterInit PROVE LimiterInv
    OBVIOUS
<1>1. LimiterTypes
    <2>1. /\ now = 0 /\ total = 0 /\ timeRead = Grace /\ cut = FALSE
          /\ numRead = -GraceReads /\ 0 \in 0..MaxTime
          /\ before = [i \in 0..MaxTime |-> 0]
        BY Limits DEF LimiterInit
    <2>2. before \in [0..MaxTime -> Nat] /\ before[0] = 0
        BY <2>1
    <2>3. now \in 0..MaxTime /\ total \in Nat /\ timeRead \in Nat
        BY <2>1, Limits
    <2>4. numRead \in Int
        <3>1. -GraceReads \in Int
            BY Limits
        <3> QED
            BY <2>1, <3>1
    <2> QED
        BY <2>1, <2>2, <2>3, <2>4 DEF LimiterTypes
<1>2. Growing /\ Idle /\ Judged /\ InFirst /\ FloodEnds
    BY <1>1, LimiterAssumption
       DEF LimiterInit, Growing, Idle, Judged, InFirst, FloodEnds, LimiterTypes
<1> QED
    BY <1>1, <1>2 DEF LimiterInv

(* A window that no time has been added to keeps its sum.                  *)
LEMMA TickKeeps ==
    ASSUME LimiterInv, Tick
    PROVE  LimiterInv'
<1>1. /\ now \in 0..MaxTime /\ now < MaxTime /\ now' = now + 1 /\ ~cut
      /\ before' = [before EXCEPT ![now + 1] = total]
      /\ numRead' = numRead /\ timeRead' = timeRead /\ cut' = cut
      /\ total' = total
      /\ MaxTime \in Nat
    BY Limits DEF LimiterInv, LimiterTypes, Tick
<1>2. LimiterTypes'
    BY <1>1 DEF LimiterInv, LimiterTypes
<1>3. /\ before'[now + 1] = total
      /\ \A i \in 0..now : before'[i] = before[i]
    BY <1>1 DEF LimiterInv, LimiterTypes
<1>4. \A i \in 0..now' : i \in 0..now \/ i = now + 1
    BY <1>1
<1>5. \A i \in 0..now : before[i] \in Nat
    BY <1>1 DEF LimiterInv, LimiterTypes
<1>6. total \in Nat /\ timeRead \in Nat /\ numRead \in Int
    BY DEF LimiterInv, LimiterTypes
<1>7. Growing'
    <2>1. \A i \in 0..now' : before'[i] <= total'
        BY <1>1, <1>3, <1>4, <1>6 DEF LimiterInv, Growing
    <2>2. ASSUME NEW i \in 0..now', NEW j \in i..now'
          PROVE  before'[i] <= before'[j]
        <3>1. CASE j = now + 1
            BY <3>1, <2>1, <1>1, <1>3
        <3>2. CASE j # now + 1
            <4>1. i \in 0..now /\ j \in i..now /\ j \in 0..now
                BY <3>2, <1>1
            <4> QED
                BY <4>1, <1>3 DEF LimiterInv, Growing
        <3> QED
            BY <3>1, <3>2
    <2> QED
        BY <2>1, <2>2 DEF Growing
<1>8. Idle'
    BY <1>1, <1>3, <1>4 DEF LimiterInv, Idle
<1>9. Judged'
    BY <1>1 DEF LimiterInv, Judged
<1>10. InFirst' \/ InLater'
    <2>1. CASE InFirst
        BY <2>1, <1>1 DEF InFirst
    <2>2. CASE InLater
        <3>1. /\ Begun' = Begun /\ Begun \in (Grace + 1)..now
              /\ Grace \in Nat /\ Frequency \in Nat
            BY <2>2, <1>1, Limits DEF InLater, Begun
        <3>2. \A i \in (Grace + 1)..Begun : i \in 0..now
            BY <3>1, <1>1
        <3>3. Begun \in 0..now /\ before'[Begun] = before[Begun]
            BY <3>1, <1>1, <1>3
        <3>4. Begun \in (Grace + 1)..now'
            BY <3>1, <1>1
        <3>5. \A i \in (Grace + 1)..Begun :
                  i >= Begun - Frequency => before'[Begun] - before'[i] <= Amount
            BY <3>2, <3>3, <1>3, <2>2 DEF InLater
        <3> QED
            BY <2>2, <3>1, <3>3, <3>4, <3>5, <1>1 DEF InLater
    <2> QED
        BY <2>1, <2>2 DEF LimiterInv
<1>11. FloodEnds'
    <2> SUFFICES ASSUME NEW i \in (Grace + 1)..now'
                 PROVE  Window(i)' <= 2 * Amount
        BY <1>1 DEF FloodEnds
    <2>0. Grace \in Nat /\ Amount \in Nat /\ Frequency \in Nat \ {0}
        BY Limits
    <2>1. CASE i = now + 1
        BY <2>0, <2>1, <1>1, <1>3, <1>6 DEF Window
    <2>2. CASE i # now + 1
        <3>1. i \in (Grace + 1)..now /\ i \in 0..now
            BY <2>0, <2>2, <1>1
        <3>2. Window(i) <= 2 * Amount
            BY <3>1, <1>1 DEF LimiterInv, FloodEnds
        <3>3. Window(i)' = Window(i)
            <4>1. CASE i + Frequency < now
                <5>1. i + Frequency + 1 \in 0..now /\ i + Frequency < now + 1
                    BY <4>1, <3>1, <2>0, <1>1
                <5> QED
                    BY <5>1, <4>1, <3>1, <1>1, <1>3 DEF Window
            <4>2. CASE i + Frequency = now
                BY <4>2, <3>1, <2>0, <1>1, <1>3 DEF Window
            <4>3. CASE i + Frequency > now
                BY <4>3, <3>1, <2>0, <1>1, <1>3 DEF Window
            <4> QED
                BY <4>1, <4>2, <4>3, <3>1, <2>0, <1>1
        <3> QED
            BY <3>2, <3>3
    <2> QED
        BY <2>1, <2>2
<1> QED
    BY <1>2, <1>7, <1>8, <1>9, <1>10, <1>11 DEF LimiterInv

LEMMA CountFacts ==
    ASSUME LimiterInv, NEW n \in ReadSizes, Count(n)
    PROVE  /\ Cost(n) \in Nat
           /\ now' = now /\ before' = before /\ ~cut
           /\ total' = total + Cost(n)
           /\ numRead' = Cost(n) + IF now > timeRead THEN 0 ELSE numRead
           /\ timeRead' = IF now > timeRead THEN now + Frequency ELSE timeRead
           /\ (cut' => numRead' > Amount) /\ (~cut' => numRead' <= Amount)
           /\ now \in Nat /\ total \in Nat /\ timeRead \in Nat
           /\ numRead \in Int /\ numRead' \in Int /\ numRead <= Amount
           /\ \A i \in 0..now : before[i] \in Nat
           /\ LimiterTypes'
<1>0. /\ ReadSizes \subseteq Nat
      /\ LimiterTypes /\ (~cut => numRead <= Amount)
    BY LimiterAssumption DEF LimiterInv, Judged
<1>1. Cost(n) \in Nat
    BY <1>0 DEF Cost
<1>2. /\ now' = now /\ before' = before /\ ~cut
      /\ total' = total + Cost(n)
      /\ numRead' = Cost(n) + IF now > timeRead THEN 0 ELSE numRead
      /\ timeRead' = IF now > timeRead THEN now + Frequency ELSE timeRead
    BY DEF Count, Record
<1>3. cut' = (numRead' > Amount)
    BY DEF Count, Verdict
<1>4. /\ now \in Nat /\ total \in Nat /\ timeRead \in Nat /\ numRead \in Int
      /\ \A i \in 0..now : before[i] \in Nat
    BY <1>0, Limits DEF LimiterTypes
<1>5. total' \in Nat /\ numRead' \in Int /\ timeRead' \in Nat
    BY <1>1, <1>2, <1>4, Limits
<1>6. cut' \in BOOLEAN
    BY <1>3
<1>7. /\ cut' => numRead' > Amount
      /\ ~cut' => ~(numRead' > Amount)
    BY <1>3
<1>8. ~cut' => numRead' <= Amount
    BY <1>5, <1>7, Limits
<1>9. LimiterTypes'
    BY <1>0, <1>2, <1>5, <1>6 DEF LimiterTypes
<1> QED
    BY <1>0, <1>1, <1>2, <1>4, <1>5, <1>7, <1>8, <1>9

(* What a read does to everything but the windows.                         *)
LEMMA CountGrows ==
    ASSUME LimiterInv, NEW n \in ReadSizes, Count(n)
    PROVE  Growing' /\ Idle' /\ Judged'
<1>0. /\ Cost(n) \in Nat
      /\ now' = now /\ before' = before /\ total' = total + Cost(n)
      /\ (cut' => numRead' > Amount) /\ (~cut' => numRead' <= Amount)
      /\ total \in Nat /\ timeRead \in Nat /\ now \in Nat
      /\ \A i \in 0..now : before[i] \in Nat
    BY CountFacts
<1>1. Growing'
    BY <1>0 DEF LimiterInv, Growing
<1>2. now <= timeRead' /\ timeRead' \in Nat
    BY <1>0, CountFacts, Limits
<1>3. Idle'
    BY <1>0, <1>2 DEF Idle
<1>4. Judged'
    BY <1>0, <1>2 DEF Judged
<1> QED
    BY <1>1, <1>3, <1>4

(* A read in the window that is open.                                      *)
LEMMA CountsOn ==
    ASSUME LimiterInv, NEW n \in ReadSizes, Count(n), now <= timeRead
    PROVE  (InFirst' \/ InLater') /\ FloodEnds'
<1>0. /\ Cost(n) \in Nat
      /\ now' = now /\ before' = before /\ ~cut
      /\ total' = total + Cost(n)
      /\ (cut' => numRead' > Amount) /\ (~cut' => numRead' <= Amount)
      /\ numRead' \in Int /\ numRead \in Int /\ numRead <= Amount
      /\ total \in Nat /\ timeRead \in Nat /\ now \in Nat
      /\ \A i \in 0..now : before[i] \in Nat
    BY CountFacts
<1>1. numRead' = Cost(n) + numRead /\ timeRead' = timeRead
    BY <1>0, CountFacts
<1>2. /\ Amount \in Nat /\ Frequency \in Nat /\ Grace \in Nat
      /\ GraceReads \in Nat
    BY Limits
<1>3. CASE InFirst
    <2>1. InFirst'
        BY <1>0, <1>1, <1>2, <1>3 DEF InFirst
    <2>2. (Grace + 1)..now = {}
        BY <1>0, <1>2, <1>3 DEF InFirst
    <2> QED
        BY <1>0, <2>1, <2>2 DEF FloodEnds
<1>4. CASE InLater
    <2> DEFINE s == Begun
    <2>1. /\ s \in (Grace + 1)..now /\ s \in Nat /\ s \in 0..now
          /\ numRead = total - before[s]
          /\ now <= s + Frequency
          /\ Begun' = s
        BY <1>0, <1>1, <1>2, <1>4 DEF InLater, Begun
    <2>2. \A i \in (Grace + 1)..s :
              i >= s - Frequency => before[s] - before[i] <= Amount
        BY <1>4 DEF InLater
    <2> HIDE DEF s
    <2>3. InLater'
        BY <1>0, <1>1, <1>2, <2>1, <2>2 DEF InLater
    <2>4. ASSUME ~cut', NEW i \in (Grace + 1)..now
          PROVE  Window(i)' <= 2 * Amount
        <3>0. i \in 0..now /\ before[i] \in Nat /\ before[s] \in Nat
            BY <1>0, <1>2, <2>1
        <3>1. numRead' <= Amount /\ numRead' = total' - before[s]
            BY <1>0, <1>1, <2>1, <2>4
        <3>2. CASE i + Frequency < now
            <4>1. Window(i)' = Window(i)
                BY <1>0, <3>2 DEF Window
            <4> QED
                BY <1>0, <4>1 DEF LimiterInv, FloodEnds
        <3>3. CASE i + Frequency >= now /\ i >= s
            <4>1. Window(i)' = total' - before[i]
                BY <1>0, <1>2, <3>0, <3>3 DEF Window
            <4>2. before[s] <= before[i]
                <5>1. i \in s..now
                    BY <2>1, <3>0, <3>3
                <5> QED
                    BY <2>1, <5>1 DEF LimiterInv, Growing
            <4> QED
                BY <1>0, <1>2, <3>0, <3>1, <4>1, <4>2
        <3>4. CASE i + Frequency >= now /\ i < s
            <4>1. Window(i)' = total' - before[i]
                BY <1>0, <1>2, <3>0, <3>4 DEF Window
            <4>2. i \in (Grace + 1)..s /\ i >= s - Frequency
                BY <1>0, <1>2, <2>1, <3>0, <3>4
            <4>3. before[s] - before[i] <= Amount
                BY <2>2, <4>2
            <4> QED
                BY <1>0, <1>2, <3>0, <3>1, <4>1, <4>3
        <3> QED
            BY <1>0, <1>2, <2>1, <3>0, <3>2, <3>3, <3>4
    <2> QED
        BY <1>0, <2>3, <2>4 DEF FloodEnds
<1> QED
    BY <1>3, <1>4 DEF LimiterInv

(* A read that begins a window: what was read within a Frequency before it *)
(* was all read in the last window, or nothing.                            *)
LEMMA CountsAnew ==
    ASSUME LimiterInv, NEW n \in ReadSizes, Count(n), now > timeRead
    PROVE  InLater' /\ FloodEnds'
<1>0. /\ Cost(n) \in Nat
      /\ now' = now /\ before' = before /\ ~cut
      /\ total' = total + Cost(n)
      /\ (cut' => numRead' > Amount) /\ (~cut' => numRead' <= Amount)
      /\ numRead' \in Int /\ numRead \in Int /\ numRead <= Amount
      /\ total \in Nat /\ timeRead \in Nat /\ now \in Nat
      /\ \A i \in 0..now : before[i] \in Nat
    BY CountFacts
<1>1. numRead' = Cost(n) /\ timeRead' = now + Frequency
    BY <1>0, CountFacts
<1>2. /\ Amount \in Nat /\ Frequency \in Nat /\ Grace \in Nat
      /\ GraceReads \in Nat
    BY Limits
<1>3. before[now] = total
    BY <1>0 DEF LimiterInv, Idle
<1>4. now > Grace
    BY <1>0, <1>2 DEF LimiterInv, InFirst, InLater, Begun
<1>5. Begun' = now
    BY <1>0, <1>1, <1>2 DEF Begun
<1>6. ASSUME NEW i \in (Grace + 1)..now, i >= now - Frequency
      PROVE  total - before[i] <= Amount
    <2>0. i \in 0..now /\ before[i] \in Nat
        BY <1>0, <1>2
    <2>1. CASE i > timeRead
        BY <1>0, <1>2, <2>0, <2>1 DEF LimiterInv, Idle
    <2>2. CASE i <= timeRead
        <3>1. InLater
            BY <1>2, <2>2 DEF LimiterInv, InFirst
        <3>2. /\ Begun \in 0..now /\ numRead = total - before[Begun]
              /\ i \in Begun..now
            BY <1>0, <1>2, <1>6, <2>0, <3>1 DEF InLater, Begun
        <3>3. before[Begun] <= before[i]
            BY <3>2 DEF LimiterInv, Growing
        <3>4. before[Begun] \in Nat
            BY <1>0, <3>2
        <3> QED
            BY <1>0, <1>2, <2>0, <3>2, <3>3, <3>4
    <2> QED
        BY <1>0, <2>0, <2>1, <2>2
<1>7. InLater'
    <2>1. \A i \in (Grace + 1)..now :
              i >= now - Frequency => before[now] - before[i] <= Amount
        BY <1>3, <1>6
    <2>2. now \in (Grace + 1)..now
        BY <1>0, <1>2, <1>4
    <2>3. numRead' = total' - before[now]
        BY <1>0, <1>1, <1>3
    <2> QED
        BY <1>0, <1>5, <2>1, <2>2, <2>3 DEF InLater
<1>8. ASSUME ~cut', NEW i \in (Grace + 1)..now
      PROVE  Window(i)' <= 2 * Amount
    <2>0. i \in 0..now /\ before[i] \in Nat
        BY <1>0, <1>2
    <2>1. CASE i + Frequency < now
        <3>1. Window(i)' = Window(i)
            BY <1>0, <2>1 DEF Window
        <3> QED
            BY <1>0, <3>1 DEF LimiterInv, FloodEnds
    <2>2. CASE i + Frequency >= now
        <3>1. Window(i)' = total' - before[i]
            BY <1>0, <1>2, <2>0, <2>2 DEF Window
        <3>2. total - before[i] <= Amount
            BY <1>0, <1>2, <1>6, <2>0, <2>2
        <3>3. Cost(n) <= Amount
            BY <1>0, <1>1, <1>2, <1>8
        <3> QED
            BY <1>0, <1>2, <2>0, <3>1, <3>2, <3>3
    <2> QED
        BY <1>0, <1>2, <2>0, <2>1, <2>2
<1> QED
    BY <1>0, <1>7, <1>8 DEF FloodEnds

LEMMA LimiterKeeps == LimiterInv /\ [LimiterNext]_limiterVars => LimiterInv'
<1> SUFFICES ASSUME LimiterInv, [LimiterNext]_limiterVars
             PROVE  LimiterInv'
    OBVIOUS
<1>1. CASE Tick
    BY <1>1, TickKeeps
<1>2. ASSUME NEW n \in ReadSizes, Count(n)
      PROVE  LimiterInv'
    <2>1. LimiterTypes' /\ Growing' /\ Idle' /\ Judged'
        BY <1>2, CountFacts, CountGrows
    <2>2. now \in Int /\ timeRead \in Int
        BY DEF LimiterInv, LimiterTypes
    <2>3. (InFirst' \/ InLater') /\ FloodEnds'
        BY <1>2, <2>2, CountsOn, CountsAnew
    <2> QED
        BY <2>1, <2>3 DEF LimiterInv
<1>3. CASE UNCHANGED limiterVars
    BY <1>3
       DEF limiterVars, LimiterInv, LimiterTypes, Growing, Idle, Judged,
           InFirst, InLater, Begun, FloodEnds, Window
<1> QED
    BY <1>1, <1>2, <1>3 DEF LimiterNext

(* However the reads are timed against the windows of the limiter, once    *)
(* the grace is over nobody reads more than twice the Amount within a      *)
(* Frequency and goes on (Count in sshd/ratelimit.go), whatever the limits *)
(* and the sizes of the reads.                                             *)
THEOREM NoFloodGoesOn == LimiterSpec => []FloodEnds
<1>1. LimiterInv => FloodEnds
    BY DEF LimiterInv
<1> QED
    BY <1>1, LimiterStarts, LimiterKeeps, PTL DEF LimiterSpec

(* Only who reads more than Amount within some Frequency is cut off.       *)
THEOREM OnlyFloodsEnd == LimiterSpec => []PoliteStays
<1>1. LimiterInv => PoliteStays
    <2> SUFFICES ASSUME LimiterInv, cut
                 PROVE  \E i \in 0..now : Window(i) > Amount
        BY DEF PoliteStays
    <2>1. /\ numRead > Amount /\ now <= timeRead /\ now \in Nat
          /\ total \in Nat /\ before[0] = 0
        BY DEF LimiterInv, LimiterTypes, Judged
    <2>2. /\ Amount \in Nat /\ Frequency \in Nat /\ Grace \in Nat
          /\ GraceReads \in Nat /\ Grace <= Frequency
        BY Limits
    <2>3. CASE InFirst
        <3>1. Window(0) = total /\ 0 \in 0..now
            BY <2>1, <2>2, <2>3 DEF Window, InFirst
        <3> QED
            BY <2>1, <2>2, <2>3, <3>1 DEF InFirst
    <2>4. CASE InLater
        <3>1. Begun \in 0..now /\ ~(Begun + Frequency < now)
            BY <2>1, <2>2, <2>4 DEF InLater, Begun, LimiterInv, LimiterTypes
        <3>2. Window(Begun) = numRead
            BY <2>4, <3>1 DEF Window, InLater
        <3> QED
            BY <2>1, <3>1, <3>2
    <2> QED
        BY <2>3, <2>4 DEF LimiterInv
<1> QED
    BY <1>1, LimiterStarts, LimiterKeeps, PTL DEF LimiterSpec

-----------------------------------------------------------------------------
(* The settings.                                                           *)
Name == [id : Ids, symbol : Symbols \cup {None}]
Config == [theme : Themes, quiet : BOOLEAN, stamp : {"off", "time", "datetime"},
           highlight : Name]
Steps == {"idle", "save", "theme", "name", "prompt", "id", "highlight",
          "compare", "set", "rename", "restore"}
Errand == [step : Steps, copy : Config \cup {None}, new : Ids \cup {None},
           old : Ids \cup {None}, theme : Themes \cup {None},
           shown : Name \cup {None}, then : {"idle", "rename", "greet"},
           wrote : BOOLEAN]

(* The locals a step relies on have been read.                             *)
Equipped(e) ==
    /\ e.step = "save" => e.copy \in Config
    /\ e.step \in {"compare", "set"} => e.new \in Ids
    /\ e.step \in {"set", "rename", "restore"} \/ e.then = "rename"
           => e.old \in Ids
    /\ e.step \in {"name", "prompt", "id", "highlight"} => e.theme \in Themes
    /\ e.step \in {"prompt", "highlight"} => e.shown \in Name

Types ==
    /\ name \in Name
    /\ config \in Config
    /\ prompt \in [name : Name, theme : Themes]
    /\ greeted \in BOOLEAN
    /\ errand \in [Goroutines -> Errand]
    /\ \A t \in Goroutines : Equipped(errand[t])

-----------------------------------------------------------------------------
LEMMA RestingIsErrand == Resting \in Errand /\ Equipped(Resting)
BY DEF Resting, Errand, Steps, Equipped

LEMMA PlainIsName == \A i \in Ids : Plain(i) \in Name
BY DEF Plain, Name

(* Every step is taken by one goroutine.                                   *)
Step(t) ==
    \/ t = Self /\ (SetConfig \/ Greet \/ \E use \in Uses : Prefer(use))
    \/ \E i \in Ids, s \in Symbols \cup {None} : Call(t, i, s)
    \/ Compare(t) \/ SetNew(t) \/ Rename(t) \/ Restore(t) \/ OnChange(t)

LEMMA SomeoneSteps ==
    ASSUME SettingsNext PROVE \E t \in Goroutines : Step(t)
BY DEF SettingsNext, Step, Goroutines

(* What OnChange starts from.                                              *)
LEMMA RefreshTypes ==
    ASSUME Types, NEW t \in Goroutines, NEW s \in {"idle", "greet", "rename"},
           Refresh(t, s), s = "rename" => errand[t].old \in Ids
    PROVE  /\ errand' \in [Goroutines -> Errand]
           /\ \A u \in Goroutines : Equipped(errand[u])'
<1> DEFINE e == Refreshing(s, IF s = "rename" THEN errand[t].old ELSE None)
<1>1. e \in Errand /\ Equipped(e)
    BY DEF Refreshing, Errand, Steps, Equipped
<1>2. errand' = [errand EXCEPT ![t] = e]
    BY DEF Refresh
<1> HIDE DEF e
<1> QED
    BY <1>1, <1>2 DEF Types

LEMMA InitTypes == SettingsInit => Types
<1> SUFFICES ASSUME SettingsInit PROVE Types
    OBVIOUS
<1>1. name \in Name /\ prompt \in [name : Name, theme : Themes]
    BY PlainIsName, SettingsAssumption DEF SettingsInit
<1>2. config \in Config
    BY PlainIsName, SettingsAssumption DEF SettingsInit, Config
<1>3. errand \in [Goroutines -> Errand] /\ greeted \in BOOLEAN
      /\ \A t \in Goroutines : Equipped(errand[t])
    BY RestingIsErrand DEF SettingsInit
<1> QED
    BY <1>1, <1>2, <1>3 DEF Types

(* The commands ask for configurations.                                    *)
LEMMA WantedTypes ==
    ASSUME Types, NEW use \in Uses
    PROVE  Wanted(use, config) \subseteq Config
<1>1. use \in {"/theme", "/quiet", "/timestamp"}
    BY SettingsAssumption
<1>2. CASE use = "/theme"
    BY <1>2 DEF Wanted, Theme, Types, Config
<1>3. CASE use = "/quiet"
    BY <1>3 DEF Wanted, Quiet, Types, Config
<1>4. CASE use = "/timestamp"
    BY <1>4 DEF Wanted, Timestamp, Toggled, Types, Config
<1> QED
    BY <1>1, <1>2, <1>3, <1>4

(* A step that replaces one errand by another errand.                      *)
LEMMA OneErrand ==
    ASSUME Types, NEW t \in Goroutines, NEW e \in Errand, Equipped(e),
           errand' = [errand EXCEPT ![t] = e]
    PROVE  /\ errand' \in [Goroutines -> Errand]
           /\ \A u \in Goroutines : Equipped(errand[u])'
BY DEF Types

(* OnChange reads and writes what has the right type.                      *)
LEMMA OnChangeTypes ==
    ASSUME Types, NEW t \in Goroutines, OnChange(t)
    PROVE  Types'
<1> DEFINE e == errand[t]
<1>0. e \in Errand /\ Equipped(e)
    BY DEF Types
<1>1. CASE ReadTheme(t)
    <2> DEFINE f == [e EXCEPT !.step = "name", !.theme = config.theme]
    <2>1. f \in Errand /\ Equipped(f)
        BY <1>0, <1>1 DEF ReadTheme, At, Errand, Equipped, Steps, Types, Config
    <2>2. errand' = [errand EXCEPT ![t] = f]
        BY <1>1 DEF ReadTheme, Types, Errand
    <2> QED
        BY <1>1, <2>1, <2>2, OneErrand DEF ReadTheme, Types
<1>2. CASE ReadName(t)
    <2> DEFINE f == [e EXCEPT !.step = "prompt", !.shown = name]
    <2>1. f \in Errand /\ Equipped(f)
        BY <1>0, <1>2 DEF ReadName, At, Errand, Equipped, Steps, Types
    <2>2. errand' = [errand EXCEPT ![t] = f]
        BY <1>2 DEF ReadName, Types, Errand
    <2> QED
        BY <1>2, <2>1, <2>2, OneErrand DEF ReadName, Types
<1>3. CASE SetPrompt(t)
    <2> DEFINE f == [e EXCEPT !.step = "id", !.shown = None]
    <2>1. f \in Errand /\ Equipped(f)
        BY <1>0, <1>3 DEF SetPrompt, At, Errand, Equipped, Steps
    <2>2. errand' = [errand EXCEPT ![t] = f]
        BY <1>3 DEF SetPrompt, Types, Errand
    <2>3. prompt' \in [name : Name, theme : Themes]
        BY <1>0, <1>3 DEF SetPrompt, At, Equipped
    <2> QED
        BY <1>3, <2>1, <2>2, <2>3, OneErrand DEF SetPrompt, Types
<1>4. CASE ReadID(t)
    <2> DEFINE n == IF e.then = "greet" THEN name ELSE Plain(name.id)
               f == [e EXCEPT !.step = "highlight", !.shown = n]
    <2>0. n \in Name
        BY PlainIsName DEF Types, Name
    <2> HIDE DEF n
    <2>1. f \in Errand /\ Equipped(f)
        BY <1>0, <1>4, <2>0 DEF ReadID, At, Errand, Equipped, Steps
    <2>2. errand' = [errand EXCEPT ![t] = f]
        BY <1>4 DEF ReadID, Types, Errand, n
    <2> QED
        BY <1>4, <2>1, <2>2, OneErrand DEF ReadID, Types
<1>5. CASE SetHighlight(t)
    <2> DEFINE g == [e EXCEPT !.step = "rename", !.shown = None, !.theme = None]
               f == IF e.then = "rename" THEN g ELSE Resting
    <2>0. e.then = "rename" => g \in Errand /\ Equipped(g)
        BY <1>0, <1>5 DEF SetHighlight, At, Errand, Equipped, Steps
    <2>2. errand' = [errand EXCEPT ![t] = f]
        BY <1>5 DEF SetHighlight, Done, Types, Errand
    <2> HIDE DEF g
    <2>1. f \in Errand /\ Equipped(f)
        BY <2>0, RestingIsErrand
    <2>3. config' \in Config
        BY <1>0, <1>5 DEF SetHighlight, At, Equipped, Types, Config
    <2>4. greeted' \in BOOLEAN
        BY <1>5 DEF SetHighlight, Types
    <2> QED
        BY <1>5, <2>1, <2>2, <2>3, <2>4, OneErrand DEF SetHighlight, Types
<1> QED
    BY <1>1, <1>2, <1>3, <1>4, <1>5 DEF OnChange

(* So do the commands.                                                     *)
LEMMA StepTypes ==
    ASSUME Types, NEW t \in Goroutines, Step(t)
    PROVE  Types'
<1> DEFINE e == errand[t]
<1>0. e \in Errand /\ Equipped(e)
    BY DEF Types
<1>1. CASE t = Self /\ SetConfig
    <2>1. config' \in Config
        BY <1>0, <1>1 DEF SetConfig, At, Equipped
    <2> QED
        BY <1>1, <2>1, RefreshTypes DEF SetConfig, Types
<1>2. CASE t = Self /\ Greet
    BY <1>2, RefreshTypes DEF Greet, Types
<1>3. ASSUME t = Self, NEW use \in Uses, Prefer(use) PROVE Types'
    <2>1. PICK cfg \in Wanted(use, config) :
              errand' = [errand EXCEPT ![Self].step = "save",
                                       ![Self].copy = cfg]
        BY <1>3 DEF Prefer
    <2>2. cfg \in Config
        BY <2>1, WantedTypes
    <2> DEFINE f == [e EXCEPT !.step = "save", !.copy = cfg]
    <2>3. f \in Errand /\ Equipped(f)
        BY <1>0, <1>3, <2>2 DEF Prefer, At, Errand, Equipped, Steps
    <2>4. errand' = [errand EXCEPT ![t] = f]
        BY <1>3, <2>1 DEF Types, Errand
    <2> QED
        BY <1>3, <2>3, <2>4, OneErrand DEF Prefer, Types
<1>4. ASSUME NEW i \in Ids, NEW s \in Symbols \cup {None}, Call(t, i, s)
      PROVE  Types'
    <2> DEFINE w == s # None
               f == [e EXCEPT !.step = "compare", !.new = i, !.wrote = w]
    <2>0. w \in BOOLEAN
        OBVIOUS
    <2>2. errand' = [errand EXCEPT ![t] = f]
        BY <1>4 DEF Call, Types, Errand
    <2> HIDE DEF w
    <2>1. f \in Errand /\ Equipped(f)
        BY <1>0, <1>4, <2>0 DEF Call, At, Errand, Equipped, Steps
    <2>3. name' \in Name
        BY <1>4 DEF Call, Types, Name
    <2> QED
        BY <1>4, <2>1, <2>2, <2>3, OneErrand DEF Call, Types
<1>5. CASE Compare(t)
    <2>1. CASE Refresh(t, "idle")
        BY <1>5, <2>1, RefreshTypes DEF Compare, Types
    <2>2. CASE ~Refresh(t, "idle")
        <3> DEFINE g == [e EXCEPT !.step = "set", !.old = name.id]
                   f == IF name.id = e.new THEN Resting ELSE g
        <3>0. g \in Errand /\ Equipped(g)
            BY <1>0, <1>5 DEF Compare, At, Errand, Equipped, Steps, Types, Name
        <3>2. errand' = [errand EXCEPT ![t] = f]
            BY <1>5, <2>2 DEF Compare, Types, Errand
        <3> HIDE DEF g
        <3>1. f \in Errand /\ Equipped(f)
            BY <3>0, RestingIsErrand
        <3> QED
            BY <1>5, <3>1, <3>2, OneErrand DEF Compare, Types
    <2> QED
        BY <2>1, <2>2
<1>6. CASE SetNew(t)
    <2>1. name' \in Name
        BY <1>0, <1>6 DEF SetNew, SetID, At, Equipped, Types, Name
    <2>2. e.old \in Ids
        BY <1>0, <1>6 DEF SetNew, At, Equipped
    <2> QED
        BY <1>6, <2>1, <2>2, RefreshTypes DEF SetNew, SetID, Types
<1>7. CASE Restore(t)
    <2>1. name' \in Name
        BY <1>0, <1>7 DEF Restore, SetID, At, Equipped, Types, Name
    <2> QED
        BY <1>7, <2>1, RefreshTypes DEF Restore, SetID, Types
<1>8. CASE Rename(t)
    <2> DEFINE f == [e EXCEPT !.step = "restore"]
    <2>1. f \in Errand /\ Equipped(f)
        BY <1>0, <1>8 DEF Rename, At, Errand, Equipped, Steps
    <2>2. errand' = [errand EXCEPT ![t] = f] \/ errand' = [errand EXCEPT ![t] = Resting]
        BY <1>8 DEF Rename, Types, Errand
    <2> QED
        BY <1>8, <2>1, <2>2, OneErrand, RestingIsErrand DEF Rename, Types
<1> QED
    BY <1>1, <1>2, <1>3, <1>4, <1>5, <1>6, <1>7, <1>8, OnChangeTypes DEF Step

-----------------------------------------------------------------------------
(* Where a goroutine is in its errand: it has written something from the   *)
(* first change to the end of what OnChange does about it; only Connect    *)
(* greets, and nothing is renamed by the user before that.                 *)
Ordered(t) ==
    /\ errand[t].step \in {"theme", "name", "prompt", "id", "highlight",
                           "rename", "restore"} => errand[t].wrote
    /\ errand[t].step \in {"idle", "save"} => ~errand[t].wrote
    /\ errand[t].then = "greet" => t = Self /\ ~greeted
    /\ t = Self /\ ~greeted =>
           /\ errand[t].step \notin {"compare", "set", "rename", "restore"}
           /\ errand[t].then # "rename"

InOrder == \A t \in Goroutines : Ordered(t)

(* The configuration that is, or is about to be, what was asked for.       *)
Kept ==
    Preferences(IF At(Self, "save") THEN errand[Self].copy ELSE config) = asked

(* A change that has met no other is alone, and what it has read is true.  *)
Lone(t) == Changing(t) /\ t \notin crossed

Apart == \A t \in Goroutines : Lone(t) => Changes = {t}

PromptRight == prompt = [name |-> name, theme |-> config.theme]
HighlightRight == config.highlight = Plain(name.id)

Seen(t) ==
    /\ At(t, "name") \/ At(t, "prompt") => errand[t].theme = config.theme
    /\ At(t, "prompt") => errand[t].shown = name
    /\ At(t, "id") \/ At(t, "highlight") \/ At(t, "rename") => PromptRight
    /\ At(t, "highlight") => errand[t].shown = Plain(name.id)
    /\ At(t, "rename") => HighlightRight

SeenTruly == \A t \in Goroutines : Lone(t) => Seen(t)

(* Before the greeting only another's change can have set a symbol.        *)
NoSymbolYet == ~greeted /\ Self \notin crossed => name.symbol = None

Inv == Types /\ InOrder /\ Kept /\ Apart /\ SeenTruly /\ NoSymbolYet
       /\ PromptFollows

-----------------------------------------------------------------------------
(* The others wait while t takes its step.                                 *)
LEMMA OthersRest ==
    ASSUME Types, InOrder, NEW t \in Goroutines, Step(t),
           NEW u \in Goroutines, u # t
    PROVE  /\ errand'[u] = errand[u]
           /\ Changing(u)' <=> Changing(u)
<1>1. errand'[u] = errand[u]
    BY DEF Types, Step, SetConfig, Greet, Prefer, Call, Compare, SetNew, SetID,
           Rename, Restore, OnChange, ReadTheme, ReadName, SetPrompt, ReadID,
           SetHighlight, Done, Refresh
<1>2. greeted' = greeted \/ t = Self
    <2>1. CASE SetHighlight(t)
        BY <2>1 DEF SetHighlight, InOrder, Ordered, Types
    <2> QED
        BY <2>1 DEF Step, SetConfig, Greet, Prefer, Call, Compare, SetNew,
               SetID, Rename, Restore, OnChange, ReadTheme, ReadName,
               SetPrompt, ReadID
<1> QED
    BY <1>1, <1>2 DEF Changing

(* Nothing shared is written outside a change, nor does the greeting end.  *)
LEMMA WritesAreChanges ==
    ASSUME Types, InOrder, NEW t \in Goroutines, Step(t),
           ~Changing(t), ~Changing(t)'
    PROVE  UNCHANGED <<name, config, prompt, greeted>>
<1>1. errand[t].step \in {"idle", "save", "compare", "set"} /\ ~errand[t].wrote
    BY DEF Types, Errand, Steps, InOrder, Ordered, Changing
<1>2. ~errand'[t].wrote
    BY DEF Changing
<1>3. ASSUME NEW s, Refresh(t, s) PROVE FALSE
    BY <1>2, <1>3 DEF Refresh, Refreshing, Types
<1>4. ASSUME NEW i \in Ids, NEW s \in Symbols \cup {None}, Call(t, i, s)
      PROVE  UNCHANGED <<name, config, prompt, greeted>>
    <2>1. errand'[t].wrote = (s # None)
        BY <1>4 DEF Call, Types, Errand
    <2> QED
        BY <1>2, <1>4, <2>1 DEF Call
<1> QED
    BY <1>1, <1>3, <1>4
       DEF Step, SetConfig, Greet, Prefer, Compare, SetNew, SetID, Rename,
           Restore, OnChange, ReadTheme, ReadName, SetPrompt, ReadID,
           SetHighlight, At

(* Each step leads to where the next one may be taken.                     *)
LEMMA OrderKept ==
    ASSUME Types, InOrder, NEW t \in Goroutines, Step(t)
    PROVE  InOrder'
<1>0. \A u \in Goroutines : errand[u] \in Errand /\ Ordered(u)
    BY DEF Types, InOrder
<1>1. ASSUME NEW s \in {"idle", "greet", "rename"}, Refresh(t, s),
             s = "greet" => t = Self /\ ~greeted',
             t = Self /\ ~greeted' => s # "rename"
      PROVE  Ordered(t)'
    BY <1>1 DEF Refresh, Refreshing, Types, Ordered
<1>2. ASSUME errand'[t] = Resting PROVE Ordered(t)'
    BY <1>2 DEF Resting, Ordered
<1>3. Ordered(t)'
    <2>1. CASE t = Self /\ SetConfig
        BY <1>1, <2>1 DEF SetConfig
    <2>2. CASE t = Self /\ Greet
        BY <1>1, <2>2 DEF Greet
    <2>3. ASSUME t = Self, NEW use \in Uses, Prefer(use) PROVE Ordered(t)'
        BY <1>0, <2>3 DEF Prefer, At, Types, Errand, Ordered
    <2>4. ASSUME NEW i \in Ids, NEW s \in Symbols \cup {None}, Call(t, i, s)
          PROVE  Ordered(t)'
        BY <1>0, <2>4 DEF Call, At, Types, Errand, Ordered
    <2>5. CASE Compare(t)
        <3>1. CASE Refresh(t, "idle")
            BY <1>1, <3>1
        <3>2. CASE errand' = [errand EXCEPT ![t] = Resting]
            BY <1>2, <3>2 DEF Types
        <3>3. CASE errand' = [errand EXCEPT ![t] =
                                 [@ EXCEPT !.step = "set", !.old = name.id]]
            BY <1>0, <2>5, <3>3 DEF Compare, At, Types, Errand, Ordered
        <3> QED
            BY <2>5, <3>1, <3>2, <3>3 DEF Compare
    <2>6. CASE SetNew(t)
        BY <1>0, <1>1, <2>6 DEF SetNew, SetID, At, Ordered
    <2>7. CASE Restore(t)
        BY <1>1, <2>7 DEF Restore, SetID
    <2>8. CASE Rename(t)
        <3>1. CASE errand' = [errand EXCEPT ![t] = Resting]
            BY <1>2, <3>1 DEF Types
        <3>2. CASE errand' = [errand EXCEPT ![t].step = "restore"]
            BY <1>0, <2>8, <3>2 DEF Rename, At, Types, Errand, Ordered
        <3> QED
            BY <2>8, <3>1, <3>2 DEF Rename
    <2>9. CASE ReadTheme(t) \/ ReadName(t) \/ SetPrompt(t) \/ ReadID(t)
        BY <1>0, <2>9 DEF ReadTheme, ReadName, SetPrompt, ReadID, At, Types,
                           Errand, Ordered
    <2>10. CASE SetHighlight(t)
        <3>1. CASE errand[t].then # "rename"
            BY <1>2, <2>10, <3>1 DEF SetHighlight, Done, Types
        <3>2. CASE errand[t].then = "rename"
            BY <1>0, <2>10, <3>2 DEF SetHighlight, Done, At, Types, Errand, Ordered
        <3> QED
            BY <3>1, <3>2
    <2> QED
        BY <2>1, <2>2, <2>3, <2>4, <2>5, <2>6, <2>7, <2>8, <2>9, <2>10
           DEF Step, OnChange
<1>4. ASSUME NEW u \in Goroutines, u # t PROVE Ordered(u)'
    <2>1. errand'[u] = errand[u] /\ (Changing(u)' <=> Changing(u))
        BY <1>4, OthersRest
    <2>2. u = Self => greeted' = greeted
        <3>1. CASE SetHighlight(t)
            BY <1>0, <1>4, <3>1 DEF SetHighlight, Ordered, Types
        <3> QED
            BY <1>4, <3>1
               DEF Step, SetConfig, Greet, Prefer, Call, Compare, SetNew,
                   SetID, Rename, Restore, OnChange, ReadTheme, ReadName,
                   SetPrompt, ReadID
    <2> QED
        BY <1>0, <2>1, <2>2 DEF Ordered
<1> QED
    BY <1>3, <1>4 DEF InOrder

(* Only SetConfig writes a preference, and it writes what it was asked to. *)
LEMMA KeptKept ==
    ASSUME Types, InOrder, Kept, NEW t \in Goroutines, Step(t), Follow
    PROVE  Kept'
<1>0. Self \in Goroutines /\ errand[Self] \in Errand
    BY DEF Types, Goroutines
<1>1. ASSUME NEW use \in Uses, Prefer(use) PROVE Kept'
    BY <1>0, <1>1 DEF Prefer, At, Follow, Kept, Types, Errand
<1>2. CASE SetConfig
    <2>1. errand'[Self].step = "theme"
        BY <1>0, <1>2 DEF SetConfig, Refresh, Refreshing, Types
    <2> QED
        BY <1>0, <1>2, <2>1 DEF SetConfig, At, Follow, Kept
<1>3. ASSUME ~SetConfig, \A use \in Uses : ~Prefer(use) PROVE Kept'
    <2>1. Preferences(config') = Preferences(config)
        BY <1>3 DEF Step, Greet, Call, Compare, SetNew, SetID, Rename,
               Restore, OnChange, ReadTheme, ReadName, SetPrompt, ReadID,
               SetHighlight, Preferences, Types, Config
    <2>2. CASE t = Self
        <3>1. ~At(Self, "save")
            BY <1>3, <2>2
               DEF Step, Greet, Call, Compare, SetNew, Rename, Restore,
                   OnChange, ReadTheme, ReadName, SetPrompt, ReadID,
                   SetHighlight, At
        <3>2. errand'[Self].step # "save"
            <4>1. ASSUME NEW s, Refresh(Self, s)
                  PROVE  errand'[Self].step # "save"
                <5>1. PICK old : errand' = [errand EXCEPT ![Self] =
                                               Refreshing(s, old)]
                    BY <4>1 DEF Refresh
                <5>2. Refreshing(s, old).step # "save"
                    BY DEF Refreshing
                <5> QED
                    BY <1>0, <5>1, <5>2 DEF Types
            <4>2. Resting.step # "save"
                BY DEF Resting
            <4>3. ASSUME NEW i \in Ids, NEW s \in Symbols \cup {None},
                         Call(Self, i, s)
                  PROVE  errand'[Self].step # "save"
                BY <1>0, <4>3 DEF Call, Types, Errand
            <4>4. CASE Compare(Self)
                <5>1. CASE Refresh(Self, "idle")
                    BY <4>1, <5>1
                <5>2. CASE ~Refresh(Self, "idle")
                    <6>1. \/ errand' = [errand EXCEPT ![Self] = Resting]
                          \/ errand' = [errand EXCEPT ![Self] =
                                 [@ EXCEPT !.step = "set", !.old = name.id]]
                        BY <4>4, <5>2 DEF Compare
                    <6>2. \/ errand'[Self] = Resting
                          \/ errand'[Self] = [errand[Self] EXCEPT
                                 !.step = "set", !.old = name.id]
                        BY <1>0, <6>1 DEF Types
                    <6>3. [errand[Self] EXCEPT !.step = "set",
                                               !.old = name.id].step = "set"
                        BY <1>0 DEF Errand
                    <6> QED
                        BY <4>2, <6>2, <6>3
                <5> QED
                    BY <5>1, <5>2
            <4>5. CASE Greet \/ SetNew(Self) \/ Restore(Self)
                BY <4>1, <4>5 DEF Greet, SetNew, Restore, SetID
            <4>6. CASE Rename(Self)
                BY <1>0, <4>2, <4>6 DEF Rename, Types, Errand
            <4>7. CASE SetHighlight(Self)
                BY <1>0, <4>2, <4>7 DEF SetHighlight, Done, Types, Errand
            <4>8. CASE ReadTheme(Self) \/ ReadName(Self) \/ SetPrompt(Self)
                          \/ ReadID(Self)
                BY <1>0, <4>8 DEF ReadTheme, ReadName, SetPrompt, ReadID,
                                  Types, Errand
            <4> QED
                BY <1>3, <2>2, <4>3, <4>4, <4>5, <4>6, <4>7, <4>8
                   DEF Step, OnChange
        <3> QED
            BY <2>1, <3>1, <3>2 DEF Follow, Kept, At, Preferences
    <2>3. CASE t # Self
        <3>1. errand'[Self] = errand[Self]
            BY <1>0, <2>3, OthersRest
        <3> QED
            BY <2>1, <3>1 DEF Follow, Kept, At, Preferences
    <2> QED
        BY <2>2, <2>3
<1> QED
    BY <1>1, <1>2, <1>3

(* Who has met no other by the end of a step is the only one that changes, *)
(* and had met no other before.                                            *)
LEMMA LoneBefore ==
    ASSUME Follow, NEW u \in Goroutines, Lone(u)'
    PROVE  Changes' = {u} /\ u \notin crossed
BY DEF Follow, Lone, Changes

(* While one goroutine is alone in a change, a step of another leaves what *)
(* the first has read as it is.                                            *)
LEMMA AloneUndisturbed ==
    ASSUME Types, InOrder, Apart, Follow, NEW t \in Goroutines, Step(t),
           NEW u \in Goroutines, u # t, Lone(u)'
    PROVE  /\ UNCHANGED <<name, config, prompt, greeted>>
           /\ errand'[u] = errand[u]
           /\ Lone(u)
<1>1. Changes' = {u} /\ u \notin crossed
    BY LoneBefore
<1>2. errand'[u] = errand[u] /\ (Changing(u)' <=> Changing(u))
    BY OthersRest
<1>3. Lone(u)
    BY <1>1, <1>2 DEF Lone
<1>4. ~Changing(t) /\ ~Changing(t)'
    BY <1>1, <1>3 DEF Apart, Changes
<1> QED
    BY <1>2, <1>3, <1>4, WritesAreChanges

(* What a goroutine reads when it is alone is and stays true.              *)
LEMMA SeenKept ==
    ASSUME Types, InOrder, Apart, SeenTruly, NoSymbolYet, Follow,
           NEW t \in Goroutines, Step(t)
    PROVE  SeenTruly'
<1>1. ASSUME NEW u \in Goroutines, u # t, Lone(u)' PROVE Seen(u)'
    <2>1. UNCHANGED <<name, config, prompt, greeted>> /\ errand'[u] = errand[u]
          /\ Lone(u)
        BY <1>1, AloneUndisturbed
    <2>2. Seen(u)
        BY <2>1 DEF SeenTruly
    <2> QED
        BY <2>1, <2>2 DEF Seen, At, PromptRight, HighlightRight
<1>2. ASSUME Lone(t)' PROVE Seen(t)'
    <2>0. /\ errand[t] \in Errand
          /\ t \notin crossed
          /\ Ordered(t)
          /\ Changing(t) => Seen(t)
        BY <1>2, LoneBefore DEF Types, InOrder, SeenTruly, Lone
    <2>1. ASSUME errand'[t].step \in {"idle", "save", "theme", "compare", "set",
                                     "restore"}
          PROVE  Seen(t)'
        BY <2>1 DEF Seen, At
    <2>2. ASSUME NEW s, Refresh(t, s) PROVE Seen(t)'
        BY <2>1, <2>2 DEF Refresh, Refreshing, Types
    <2>3. ASSUME errand'[t] = Resting PROVE Seen(t)'
        BY <2>1, <2>3 DEF Resting
    <2>4. CASE t = Self /\ (SetConfig \/ Greet)
        BY <2>2, <2>4 DEF SetConfig, Greet
    <2>5. ASSUME NEW use \in Uses, t = Self, Prefer(use) PROVE Seen(t)'
        BY <2>0, <2>1, <2>5 DEF Prefer, Types, Errand
    <2>6. ASSUME NEW i \in Ids, NEW s \in Symbols \cup {None}, Call(t, i, s)
          PROVE  Seen(t)'
        BY <2>0, <2>1, <2>6 DEF Call, Types, Errand
    <2>7. CASE Compare(t)
        <3>1. CASE errand' = [errand EXCEPT ![t] =
                                 [@ EXCEPT !.step = "set", !.old = name.id]]
            BY <2>0, <2>1, <3>1 DEF Types, Errand
        <3> QED
            BY <2>2, <2>3, <2>7, <3>1 DEF Compare, Types
    <2>8. CASE SetNew(t) \/ Restore(t)
        BY <2>2, <2>8 DEF SetNew, Restore, SetID
    <2>9. CASE Rename(t)
        BY <2>0, <2>1, <2>3, <2>9 DEF Rename, Types, Errand
    <2>10. CASE ReadTheme(t)
        BY <2>0, <2>10 DEF ReadTheme, Seen, At, Types, Errand
    <2>11. CASE ReadName(t)
        BY <2>0, <2>11 DEF ReadName, Seen, At, Types, Errand, Ordered, Changing
    <2>12. CASE SetPrompt(t)
        BY <2>0, <2>12
           DEF SetPrompt, Seen, At, Types, Errand, Ordered, Changing, PromptRight
    <2>13. CASE ReadID(t)
        <3>1. errand'[t].step = "highlight"
              /\ errand'[t].shown = IF errand[t].then = "greet" THEN name
                                                               ELSE Plain(name.id)
            BY <2>0, <2>13 DEF ReadID, Types, Errand
        <3>2. errand[t].then = "greet" => name = Plain(name.id)
            BY <2>0 DEF Ordered, NoSymbolYet, Types, Name, Plain
        <3>3. PromptRight
            BY <2>0, <2>13 DEF ReadID, Seen, At, Ordered, Changing
        <3> QED
            BY <2>13, <3>1, <3>2, <3>3 DEF ReadID, Seen, At, PromptRight
    <2>14. CASE SetHighlight(t)
        <3>1. PromptRight /\ errand[t].shown = Plain(name.id)
            BY <2>0, <2>14 DEF SetHighlight, Seen, At, Ordered, Changing
        <3>0. errand[t].shown.symbol \notin Broken
            BY <3>1, SettingsAssumption DEF Plain
        <3>2. PromptRight' /\ HighlightRight'
            BY <2>14, <3>0, <3>1
               DEF SetHighlight, PromptRight, HighlightRight, Types, Config
        <3>3. CASE errand[t].then # "rename"
            BY <2>3, <2>14, <3>3 DEF SetHighlight, Done, Types
        <3>4. CASE errand[t].then = "rename"
            <4>1. errand'[t].step = "rename"
                BY <2>0, <2>14, <3>4 DEF SetHighlight, Done, Types, Errand
            <4> QED
                BY <3>2, <4>1 DEF Seen, At
        <3> QED
            BY <3>3, <3>4
    <2> QED
        BY <2>4, <2>5, <2>6, <2>7, <2>8, <2>9, <2>10, <2>11, <2>12, <2>13,
           <2>14 DEF Step, OnChange
<1> QED
    BY <1>1, <1>2 DEF SeenTruly

(* Who meets another is crossed by it.                                     *)
LEMMA ApartKept == ASSUME Follow PROVE Apart'
BY LoneBefore DEF Apart

(* The user gives itself no symbol before it is greeted.                   *)
LEMMA NoSymbolKept ==
    ASSUME Types, InOrder, Apart, NoSymbolYet, Follow,
           NEW t \in Goroutines, Step(t)
    PROVE  NoSymbolYet'
<1> SUFFICES ASSUME ~greeted', Self \notin crossed' PROVE name'.symbol = None
    BY DEF NoSymbolYet
<1>1. Self \in Goroutines /\ Lone(Self)'
    BY DEF Goroutines, Lone, Changing
<1>2. Self \notin crossed
    BY <1>1, LoneBefore
<1>3. ~greeted
    BY DEF Step, SetConfig, Greet, Prefer, Call, Compare, SetNew, SetID,
           Rename, Restore, OnChange, ReadTheme, ReadName, SetPrompt, ReadID,
           SetHighlight, Types
<1>4. CASE t = Self
    BY <1>2, <1>3, <1>4
       DEF NoSymbolYet, Step, SetConfig, Greet, Prefer, Call, Compare, SetNew,
           SetID, Rename, Restore, OnChange, ReadTheme, ReadName, SetPrompt,
           ReadID, SetHighlight, Types, Name
<1>5. CASE t # Self
    BY <1>1, <1>2, <1>3, <1>5, AloneUndisturbed DEF NoSymbolYet
<1> QED
    BY <1>4, <1>5

(* A change that ends alone leaves prompt and highlight as they should be, *)
(* and without a change they stay so.                                      *)
LEMMA FollowsKept ==
    ASSUME Types, InOrder, Apart, SeenTruly, PromptFollows, Follow,
           NEW t \in Goroutines, Step(t)
    PROVE  PromptFollows'
<1> SUFFICES ASSUME Changes' = {}, fresh'
             PROVE  PromptRight' /\ HighlightRight'
    BY DEF PromptFollows, PromptRight, HighlightRight
<1>0. ~Changing(t)'
    BY DEF Changes
<1>1. CASE Changes = {}
    <2>1. fresh
        BY <1>1 DEF Follow
    <2>2. UNCHANGED <<name, config, prompt, greeted>>
        BY <1>0, <1>1, WritesAreChanges DEF Changes
    <2> QED
        BY <1>1, <2>1, <2>2 DEF PromptFollows, PromptRight, HighlightRight
<1>2. CASE Changes # {}
    <2>1. PICK u \in Goroutines : Changing(u)
        BY <1>2 DEF Changes
    <2>2. u = t
        BY <2>1, OthersRest DEF Changes
    <2>3. Changes \cap crossed = {}
        BY <1>2 DEF Follow
    <2>4. Changing(t) /\ Seen(t) /\ Ordered(t) /\ errand[t] \in Errand
        BY <2>1, <2>2, <2>3 DEF Changes, Lone, SeenTruly, InOrder, Types
    <2>5. ~errand'[t].wrote
        BY <1>0 DEF Changing
    <2>6. ASSUME NEW s, Refresh(t, s) PROVE FALSE
        BY <2>5, <2>6 DEF Refresh, Refreshing, Types
    <2>7. CASE SetHighlight(t)
        <3>1. PromptRight /\ errand[t].shown = Plain(name.id)
            BY <2>4, <2>7 DEF SetHighlight, Seen, At
        <3>2. errand[t].shown.symbol \notin Broken
            BY <3>1, SettingsAssumption DEF Plain
        <3> QED
            BY <2>7, <3>1, <3>2
               DEF SetHighlight, PromptRight, HighlightRight, Types, Config
    <2>8. CASE Rename(t)
        BY <2>4, <2>8 DEF Rename, Seen, At, PromptRight, HighlightRight
    <2>9. CASE Compare(t)
        <3>1. t = Self => greeted
            BY <2>4, <2>9 DEF Compare, At, Ordered
        <3>2. errand[t].wrote
            BY <2>4, <3>1 DEF Changing
        <3>3. name.id # errand[t].new
            BY <2>6, <2>9, <3>2 DEF Compare
        <3>4. errand' = [errand EXCEPT ![t] =
                            [@ EXCEPT !.step = "set", !.old = name.id]]
            BY <2>9, <3>3 DEF Compare, Types
        <3> QED
            BY <2>4, <2>5, <3>2, <3>4 DEF Types, Errand
    <2>10. CASE ~greeted /\ t = Self
        <3>1. greeted'
            BY <1>0, <2>10 DEF Changing
        <3> QED
            BY <2>7, <2>10, <3>1
               DEF Step, SetConfig, Greet, Prefer, Call, Compare, SetNew,
                   SetID, Rename, Restore, OnChange, ReadTheme, ReadName,
                   SetPrompt, ReadID
    <2>11. CASE ~(~greeted /\ t = Self) /\ ~SetHighlight(t) /\ ~Rename(t)
               /\ ~Compare(t)
        <3>1. errand[t].wrote
            BY <2>4, <2>11 DEF Changing
        <3>2. errand[t].step \notin {"idle", "save"}
            BY <2>4, <3>1 DEF Ordered
        <3>3. ReadTheme(t) \/ ReadName(t) \/ SetPrompt(t) \/ ReadID(t)
            BY <2>6, <2>11, <3>2
               DEF Step, SetConfig, Greet, Prefer, Call, SetNew, SetID,
                   Restore, OnChange, At
        <3> QED
            BY <2>4, <2>5, <3>1, <3>3
               DEF ReadTheme, ReadName, SetPrompt, ReadID, Types, Errand
    <2> QED
        BY <2>7, <2>8, <2>9, <2>10, <2>11
<1> QED
    BY <1>1, <1>2

-----------------------------------------------------------------------------
LEMMA InitInv == FollowInit => Inv
<1> SUFFICES ASSUME FollowInit PROVE Inv
    OBVIOUS
<1>1. Types
    BY InitTypes DEF FollowInit
<1>2. InOrder
    BY DEF FollowInit, SettingsInit, InOrder, Ordered, Resting
<1>3. Kept
    BY DEF FollowInit, SettingsInit, Kept, At, Resting, Goroutines
<1>4. \A t \in Goroutines : Changing(t) <=> t = Self
    BY DEF FollowInit, SettingsInit, Changing, Resting
<1>5. Apart
    BY <1>4 DEF Apart, Lone, Changes, Goroutines
<1>6. SeenTruly
    BY DEF FollowInit, SettingsInit, SeenTruly, Seen, At, Resting
<1>7. NoSymbolYet /\ PromptFollows
    BY DEF FollowInit, SettingsInit, NoSymbolYet, PromptFollows, Plain
<1> QED
    BY <1>1, <1>2, <1>3, <1>5, <1>6, <1>7 DEF Inv

LEMMA StepInv == Inv /\ [FollowNext]_<<setVars, followVars>> => Inv'
<1> SUFFICES ASSUME Inv, [FollowNext]_<<setVars, followVars>> PROVE Inv'
    OBVIOUS
<1>1. CASE FollowNext
    <2>1. PICK t \in Goroutines : Step(t)
        BY <1>1, SomeoneSteps DEF FollowNext
    <2> QED
        BY <1>1, <2>1, StepTypes, OrderKept, KeptKept, ApartKept, SeenKept,
           NoSymbolKept, FollowsKept DEF Inv, FollowNext
<1>2. CASE UNCHANGED <<setVars, followVars>>
    <2> USE <1>2 DEF setVars, followVars, Inv
    <2>1. Types' /\ InOrder' /\ Kept' /\ NoSymbolYet'
        BY DEF Types, InOrder, Ordered, Kept, At, NoSymbolYet
    <2>2. \A t \in Goroutines : (Changing(t)' <=> Changing(t))
        BY DEF Changing
    <2>3. Changes' = Changes
        BY <2>2 DEF Changes
    <2>4. Apart' /\ SeenTruly'
        BY <2>2, <2>3
           DEF Apart, SeenTruly, Lone, Seen, At, PromptRight, HighlightRight
    <2>5. PromptFollows'
        BY <2>3 DEF PromptFollows
    <2> QED
        BY <2>1, <2>4, <2>5
<1> QED
    BY <1>1, <1>2

(* Inv holds in every behaviour of a user that is changed by anybody.      *)
THEOREM Invariance == FollowSpec => []Inv
BY InitInv, StepInv, PTL DEF FollowSpec

(* The user has the preferences it asked for last, whoever renames it in   *)
(* between.                                                                *)
THEOREM PreferencesAreKept == FollowSpec => []NothingLost
<1>1. Inv => NothingLost
    BY DEF Inv, Kept, NothingLost
<1> QED
    BY <1>1, Invariance, PTL

(* After a change that has met no other, prompt and highlight are those of *)
(* the name and the theme the user has.                                    *)
THEOREM PromptIsFollowed == FollowSpec => []PromptFollows
<1>1. Inv => PromptFollows
    BY DEF Inv
<1> QED
    BY <1>1, Invariance, PTL
=============================================================================
