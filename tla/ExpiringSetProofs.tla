-------------------------- MODULE ExpiringSetProofs --------------------------
(***************************************************************************)
(* What ExpiringSet promises, for any keys, items and readers: an          *)
(* iteration is complete, the set that expires lazily behaves like one     *)
(* that drops an entry the moment its time has passed, and In says yes     *)
(* only to what was there.                                                 *)
(***************************************************************************)
EXTENDS SetAnswers, TLAPS

(* What a loop has visited it has seen or will clean up, and what it has   *)
(* not is yet to come.                                                     *)
Covered ==
    \A t \in Threads : At(t, "each") =>
        /\ \A k \in Keys : Present(k) =>
               k \in call[t].rest \cup call[t].seen \cup call[t].stale
        /\ \A k \in call[t].stale : lookup[k] \in expired

Inv == TypeOK /\ Covered

(* The entries as a reader sees them.                                      *)
Content == [k \in Keys |-> IF Live(k) THEN lookup[k] ELSE NoItem]

-----------------------------------------------------------------------------
LEMMA NoCallType == NoCall \in Call
  BY SetAssumption DEF NoCall, Call

LEMMA InitInv == Init => Inv
  <1>. SUFFICES ASSUME Init
                PROVE  Inv
    OBVIOUS
  <1>1. NoCall \in Call /\ NoCall.step = "idle"
    BY NoCallType DEF NoCall
  <1>2. TypeOK
    BY <1>1, SetAssumption DEF Init, TypeOK
  <1>. QED  BY <1>1, <1>2 DEF Init, Inv, Covered, At

(* Writers and clean-ups only change the map while nobody iterates.        *)
LEMMA WriteInv ==
    ASSUME Inv, Write
    PROVE  Inv' /\ WriteFree /\ UNCHANGED <<expired, call>>
  <1>1. ASSUME NEW i \in Items, Add(i) \/ Set(i)
        PROVE  WriteFree /\ TypeOK' /\ UNCHANGED <<expired, call>>
    BY <1>1, SetAssumption DEF Add, Set, Inv, TypeOK, At
  <1>2. ASSUME NEW i \in Items, NEW k \in Keys, Replace(k, i)
        PROVE  WriteFree /\ TypeOK' /\ UNCHANGED <<expired, call>>
    BY <1>2, SetAssumption DEF Replace, Inv, TypeOK, At
  <1>3. ASSUME NEW k \in Keys, Remove(k)
        PROVE  WriteFree /\ TypeOK' /\ UNCHANGED <<expired, call>>
    BY <1>3 DEF Remove, Without, Inv, TypeOK, At
  <1>4. ASSUME Clear
        PROVE  WriteFree /\ TypeOK' /\ UNCHANGED <<expired, call>>
    BY <1>4 DEF Clear, Without, Inv, TypeOK, At
  <1>5. WriteFree /\ TypeOK' /\ UNCHANGED <<expired, call>>
    BY <1>1, <1>2, <1>3, <1>4 DEF Write
  <1>. QED  BY <1>5 DEF Inv, Covered, WriteFree, At

LEMMA ExpireInv ==
    ASSUME Inv, NEW i \in Items, Expire(i)
    PROVE  Inv'
  BY DEF Expire, Inv, TypeOK, Covered, At, Present

LEMMA LookInv ==
    ASSUME Inv, NEW t \in Threads, NEW op \in {"In", "Get"},
           NEW k \in Keys, Look(t, op, k)
    PROVE  Inv'
  <1>1. NoCall \in Call
    BY NoCallType
  <1>2. /\ call' \in [Threads -> Call]
        /\ call'[t].step \in {"idle", "value"}
        /\ call'[t].step = "value" => call'[t].item \in Items
    <2>. DEFINE s == IF Present(k) THEN "value" ELSE "idle"
                new == [NoCall EXCEPT !.op = op, !.key = k,
                                      !.item = lookup[k], !.step = s]
    <2>1. call' = [call EXCEPT ![t] = new]
      BY DEF Look
    <2>2. lookup[k] \in Items \cup {NoItem}
          /\ (lookup[k] # NoItem => lookup[k] \in Items)
      BY DEF Inv, TypeOK
    <2>3. s \in {"idle", "value"} /\ (s = "value" => lookup[k] # NoItem)
      BY DEF Present
    <2>. HIDE DEF s
    <2>4. new \in Call /\ new.step = s /\ new.item = lookup[k]
      BY <1>1, <2>2, <2>3 DEF Call
    <2>. HIDE DEF new
    <2>. QED  BY <2>1, <2>2, <2>3, <2>4 DEF Inv, TypeOK
  <1>3. \A s \in Threads \ {t} : call'[s] = call[s]
    BY DEF Look, Inv, TypeOK
  <1>. QED  BY <1>2, <1>3 DEF Look, Inv, TypeOK, Covered, At, Present

LEMMA ReturnStep ==
    ASSUME Inv, NEW t \in Threads, NEW i \in Items \cup {NoItem},
           Return(t, i)
    PROVE  /\ call' \in [Threads -> Call]
           /\ call'[t].step = "idle"
           /\ \A s \in Threads \ {t} : call'[s] = call[s]
  BY NoCallType DEF Return, Inv, TypeOK, NoCall, Call

LEMMA ValueInv ==
    ASSUME Inv, NEW t \in Threads, Value(t)
    PROVE  Inv'
  <1>1. CASE call[t].item \in expired
    <2>1. /\ call' \in [Threads -> Call]
          /\ call'[t].step = "cleanup" /\ call'[t].item = call[t].item
          /\ \A s \in Threads \ {t} : call'[s] = call[s]
      BY <1>1 DEF Value, Inv, TypeOK, Call
    <2>. QED  BY <2>1 DEF Value, Inv, TypeOK, Covered, At, Present
  <1>2. CASE call[t].item \notin expired
    <2>1. Return(t, call[t].item)
      BY <1>2 DEF Value
    <2>2. call[t].item \in Items
      BY DEF Value, Inv, TypeOK, At
    <2>. QED
      BY <2>1, <2>2, ReturnStep DEF Value, Inv, TypeOK, Covered, At, Present
  <1>. QED  BY <1>1, <1>2

(* Only what has expired goes, so nobody notices.                          *)
LEMMA CleanUpUnseen ==
    ASSUME Inv, NEW k \in Keys, CleanUp(k), UNCHANGED expired
    PROVE  /\ lookup' \in [Keys -> Items \cup {NoItem}]
           /\ \A l \in Keys : lookup'[l] # NoItem => ItemKey[lookup'[l]] = l
           /\ Content' = Content
  BY DEF CleanUp, Without, Inv, TypeOK, Present, Live, Content

LEMMA CleanupInv ==
    ASSUME Inv, NEW t \in Threads, Cleanup(t)
    PROVE  Inv' /\ Content' = Content
  <1>1. call[t].key \in Keys /\ CleanUp(call[t].key) /\ UNCHANGED expired
    BY DEF Cleanup, Inv, TypeOK, Call
  <1>2. PICK i \in Items \cup {NoItem} : Return(t, i)
    BY DEF Cleanup, Inv, TypeOK, Call
  <1>3. \A s \in Threads : call'[s].step # "each"
    BY <1>2, ReturnStep DEF Cleanup, WriteFree, At
  <1>. QED
    BY <1>1, <1>2, <1>3, CleanUpUnseen, ReturnStep
       DEF Inv, TypeOK, Covered, At

LEMMA EachBeginInv ==
    ASSUME Inv, NEW t \in Threads, EachBegin(t)
    PROVE  Inv'
  <1>1. NoCall \in Call
    BY NoCallType
  <1>2. /\ call' \in [Threads -> Call]
        /\ call'[t].step = "each" /\ call'[t].stale = {}
        /\ call'[t].rest = {k \in Keys : Present(k)}
    BY <1>1 DEF EachBegin, Inv, TypeOK, Call, NoCall
  <1>3. \A s \in Threads \ {t} : call'[s] = call[s]
    BY DEF EachBegin, Inv, TypeOK
  <1>. QED  BY <1>2, <1>3 DEF EachBegin, Inv, TypeOK, Covered, At, Present

LEMMA EachVisitInv ==
    ASSUME Inv, NEW t \in Threads, NEW k \in Keys, EachVisit(t, k)
    PROVE  Inv'
  <1>. DEFINE c == [call[t] EXCEPT !.rest = @ \ {k}]
              d == [c EXCEPT !.seen = @ \cup {k}]
  <1>1. call[t] \in Call /\ call[t].step = "each"
    BY DEF EachVisit, Inv, TypeOK, At
  <1>2. /\ c \in Call /\ c.step = "each" /\ c.rest = call[t].rest \ {k}
        /\ c.seen = call[t].seen /\ c.stale = call[t].stale
    BY <1>1 DEF Call
  <1>3. CASE lookup[k] \in expired
    <2>1. call' = [call EXCEPT ![t] = [c EXCEPT !.stale = @ \cup {k}]]
      BY <1>3 DEF EachVisit
    <2>2. /\ call' \in [Threads -> Call] /\ call'[t].step = "each"
          /\ call'[t].rest = call[t].rest \ {k}
          /\ call'[t].seen = call[t].seen
          /\ call'[t].stale = call[t].stale \cup {k}
          /\ \A s \in Threads \ {t} : call'[s] = call[s]
      BY <1>2, <2>1 DEF Inv, TypeOK, Call
    <2>. QED
      BY <1>1, <1>3, <2>2 DEF EachVisit, Inv, TypeOK, Covered, At, Present
  <1>4. CASE lookup[k] \notin expired
    <2>1. /\ d \in Call /\ d.step = "each" /\ d.rest = c.rest
          /\ d.seen = call[t].seen \cup {k} /\ d.stale = call[t].stale
      BY <1>2 DEF Call
    <2>2. Abort(d) \in Call /\ Abort(d).step = "sweep"
      BY <2>1 DEF Abort, Call
    <2>3. PICK e \in {d, Abort(d)} : call' = [call EXCEPT ![t] = e]
      BY <1>4 DEF EachVisit
    <2>4. call'[t] = e /\ \A s \in Threads \ {t} : call'[s] = call[s]
      BY <2>3 DEF Inv, TypeOK
    <2>. HIDE DEF c, d
    <2>5. CASE e = d
      <3>1. /\ call' \in [Threads -> Call] /\ call'[t].step = "each"
            /\ call'[t].rest = call[t].rest \ {k}
            /\ call'[t].seen = call[t].seen \cup {k}
            /\ call'[t].stale = call[t].stale
        BY <1>2, <2>1, <2>3, <2>4, <2>5 DEF Inv, TypeOK
      <3>. QED
        BY <1>1, <2>4, <3>1 DEF EachVisit, Inv, TypeOK, Covered, At, Present
    <2>6. CASE e = Abort(d)
      <3>1. call' \in [Threads -> Call] /\ call'[t].step = "sweep"
        BY <2>2, <2>3, <2>4, <2>6 DEF Inv, TypeOK
      <3>. QED
        BY <2>4, <3>1 DEF EachVisit, Inv, TypeOK, Covered, At, Present
    <2>. QED  BY <2>5, <2>6
  <1>. QED  BY <1>3, <1>4

LEMMA EachEndInv ==
    ASSUME Inv, NEW t \in Threads, EachEnd(t)
    PROVE  Inv' /\ call'[t].step = "sweep"
  <1>1. /\ call' \in [Threads -> Call] /\ call'[t].step = "sweep"
        /\ \A s \in Threads \ {t} : call'[s] = call[s]
    BY DEF EachEnd, Inv, TypeOK, Call
  <1>. QED  BY <1>1 DEF EachEnd, Inv, TypeOK, Covered, At, Present

LEMMA SweepInv ==
    ASSUME Inv, NEW t \in Threads, Sweep(t)
    PROVE  Inv' /\ Content' = Content
  <1>1. ASSUME NEW k \in call[t].stale, WriteFree, CleanUp(k),
               call' = [call EXCEPT ![t].stale = @ \ {k}]
        PROVE  Inv' /\ Content' = Content
    <2>1. k \in Keys /\ UNCHANGED expired
      BY <1>1 DEF Sweep, Inv, TypeOK, Call
    <2>2. /\ call' \in [Threads -> Call] /\ call'[t].step = "sweep"
          /\ \A s \in Threads \ {t} : call'[s] = call[s]
      BY <1>1 DEF Sweep, At, Inv, TypeOK, Call
    <2>3. \A s \in Threads : call'[s].step # "each"
      BY <1>1, <2>2 DEF WriteFree, At
    <2>. QED
      BY <1>1, <2>1, <2>2, <2>3, CleanUpUnseen DEF Inv, TypeOK, Covered, At
  <1>2. CASE Return(t, NoItem) /\ UNCHANGED <<lookup, expired>>
    BY <1>2, ReturnStep
       DEF Inv, TypeOK, Covered, At, Present, Content, Live
  <1>. QED  BY <1>1, <1>2 DEF Sweep

-----------------------------------------------------------------------------
(* A reader begins, goes on or ends; the entries stay as they are.         *)
LEMMA ReadInv ==
    ASSUME Inv, NEW t \in Threads, Read(t)
    PROVE  /\ Inv' /\ expired' = expired /\ Content' = Content
           /\ \A s \in Threads \ {t} : call'[s] = call[s]
  <1>1. ASSUME NEW op \in {"In", "Get"}, NEW k \in Keys, Look(t, op, k)
        PROVE  Inv' /\ UNCHANGED <<lookup, expired>>
    BY <1>1, LookInv DEF Look
  <1>2. ASSUME Value(t)
        PROVE  Inv' /\ UNCHANGED <<lookup, expired>>
    BY <1>2, ValueInv DEF Value
  <1>3. ASSUME Cleanup(t)
        PROVE  Inv' /\ expired' = expired /\ Content' = Content
    BY <1>3, CleanupInv DEF Cleanup
  <1>4. ASSUME EachBegin(t)
        PROVE  Inv' /\ UNCHANGED <<lookup, expired>>
    BY <1>4, EachBeginInv DEF EachBegin
  <1>5. ASSUME NEW k \in call[t].rest, EachVisit(t, k)
        PROVE  Inv' /\ UNCHANGED <<lookup, expired>>
    <2>1. k \in Keys
      BY <1>5 DEF Inv, TypeOK, Call
    <2>. QED  BY <1>5, <2>1, EachVisitInv DEF EachVisit
  <1>6. ASSUME EachEnd(t)
        PROVE  Inv' /\ UNCHANGED <<lookup, expired>>
    BY <1>6, EachEndInv DEF EachEnd
  <1>7. ASSUME Sweep(t)
        PROVE  Inv' /\ expired' = expired /\ Content' = Content
    BY <1>7, SweepInv DEF Sweep
  <1>8. UNCHANGED <<lookup, expired>> => expired' = expired /\ Content' = Content
    BY DEF Content, Live, Present
  <1>9. Inv' /\ expired' = expired /\ Content' = Content
    BY <1>1, <1>2, <1>3, <1>4, <1>5, <1>6, <1>7, <1>8 DEF Read
  <1>10. \A s \in Threads \ {t} : call'[s] = call[s]
    BY DEF Read, Look, Value, Cleanup, EachBegin, EachVisit, EachEnd, Sweep,
           Return, Inv, TypeOK
  <1>. QED  BY <1>9, <1>10

LEMMA StepInv ==
    ASSUME Inv, [Next]_vars
    PROVE  Inv'
  <1>1. CASE UNCHANGED vars
    BY <1>1 DEF vars, Inv, TypeOK, Covered, At, Present
  <1>. QED  BY <1>1, WriteInv, ExpireInv, ReadInv DEF Next

(* The loops over the members and over the allowlist miss no live entry,   *)
(* whatever is added, renamed or expires around them.                      *)
THEOREM LoopsAreComplete == Spec => []EachComplete
  <1>1. Inv /\ [Next]_vars => Inv'
    BY StepInv
  <1>2. Inv => EachComplete
    BY DEF Inv, Covered, EachComplete, Live
  <1>. QED  BY InitInv, <1>1, <1>2, PTL DEF Spec

-----------------------------------------------------------------------------
(* What the writers do to the entries.                                     *)
LEMMA StoreStep ==
    ASSUME Inv, NEW i \in Items, UNCHANGED <<expired, call>>,
           lookup' = [lookup EXCEPT ![ItemKey[i]] = i]
    PROVE  Timed!Put(i)
  <1>1. ItemKey[i] \in Keys /\ i # NoItem
    BY SetAssumption
  <1>2. Content' = [Content EXCEPT ![ItemKey[i]] = Timed!Stored(i)]
    BY <1>1 DEF Content, Live, Present, Timed!Stored, Inv, TypeOK
  <1>. QED  BY <1>2 DEF Timed!Put, Content, At

LEMMA ReplaceStep ==
    ASSUME Inv, NEW i \in Items, NEW k \in Keys, Replace(k, i)
    PROVE  Timed!Move(k, i)
  <1>1. ItemKey[i] \in Keys /\ i # NoItem
    BY SetAssumption
  <1>2. Content' = [Content EXCEPT ![k] = NoItem,
                                   ![ItemKey[i]] = Timed!Stored(i)]
    BY <1>1 DEF Replace, Content, Live, Present, Timed!Stored, Inv, TypeOK
  <1>. QED  BY <1>2 DEF Replace, Timed!Move, Content, At

LEMMA DropStep ==
    ASSUME Inv, NEW ks \in SUBSET Keys, lookup' = Without(ks),
           UNCHANGED <<expired, call>>
    PROVE  Timed!Drop(ks)
  <1>1. Content' = [k \in Keys |-> IF k \in ks THEN NoItem ELSE Content[k]]
    BY DEF Content, Live, Present, Without, Inv, TypeOK
  <1>. QED  BY <1>1 DEF Timed!Drop, Content, At

LEMMA WriteStep ==
    ASSUME Inv, Write
    PROVE  Timed!Next
  <1>1. ASSUME NEW i \in Items, Add(i) \/ Set(i)
        PROVE  Timed!Put(i)
    BY <1>1, StoreStep DEF Add, Set
  <1>2. ASSUME NEW k \in Keys, Remove(k)
        PROVE  Timed!Drop({k})
    BY <1>2, DropStep DEF Remove
  <1>3. ASSUME Clear
        PROVE  Timed!Drop(Keys)
    BY <1>3, DropStep DEF Clear
  <1>. QED  BY <1>1, <1>2, <1>3, ReplaceStep DEF Write, Timed!Next

LEMMA ExpireStep ==
    ASSUME Inv, NEW i \in Items, Expire(i)
    PROVE  Timed!Expire(i)
  <1>1. Content' = [k \in Keys |->
                       IF Content[k] = i THEN NoItem ELSE Content[k]]
    BY SetAssumption DEF Expire, Content, Live, Present, Inv, TypeOK
  <1>. QED  BY <1>1 DEF Expire, Timed!Expire, Content, At

LEMMA ReadStep ==
    ASSUME Inv, NEW t \in Threads, Read(t)
    PROVE  Timed!Read \/ UNCHANGED <<Content, expired, call>>
  BY ReadInv DEF Timed!Read, Content

(* Set.cleanup and the late evaluation of an item's value are invisible:   *)
(* the lazy set of set.go implements the one that drops what has expired.  *)
THEOREM SetImplementsTimedSet == Spec => Transparent
  <1>1. Init => Timed!Init
    BY DEF Init, Timed!Init, Live, Present
  <1>2. Inv /\ [Next]_vars
            => [Timed!Next]_<<Content, expired, call>>
    <2>. SUFFICES ASSUME Inv, [Next]_vars
         PROVE [Timed!Next]_<<Content, expired, call>>
      OBVIOUS
    <2>1. CASE Write
      BY <2>1, WriteStep
    <2>2. ASSUME NEW i \in Items, Expire(i)
          PROVE  Timed!Next
      BY <2>2, ExpireStep DEF Timed!Next
    <2>3. ASSUME NEW t \in Threads, Read(t)
          PROVE  Timed!Next \/ UNCHANGED <<Content, expired, call>>
      BY <2>3, ReadStep DEF Timed!Next
    <2>4. CASE UNCHANGED vars
      BY <2>4 DEF vars, Content, Live, Present, At
    <2>. QED  BY <2>1, <2>2, <2>3, <2>4 DEF Next
  <1>3. Inv /\ [Next]_vars => Inv'
    BY StepInv
  <1>. QED
    BY InitInv, <1>1, <1>2, <1>3, PTL
       DEF Spec, Transparent, Timed!Spec, Content

-----------------------------------------------------------------------------
(* In says yes only to what was there: SetAnswers.  Held adds to the       *)
(* invariant of ExpiringSet that an item a reader has found was live when  *)
(* it was found, unless its time had passed by then.                       *)
Held(t) == At(t, "value") => call[t].item \in expired \/ lived[t]

AnswersInv == Inv /\ \A t \in Threads : Held(t)

-----------------------------------------------------------------------------
(* Nobody's step is another's, and no item becomes valid again.            *)
LEMMA OthersWait ==
    ASSUME Inv, Next
    PROVE  /\ expired \subseteq expired'
           /\ \A t \in Threads : Read(t) \/ call'[t] = call[t]
<1>1. CASE Write
    BY <1>1, WriteInv
<1>2. ASSUME NEW i \in Items, Expire(i)
      PROVE  expired \subseteq expired' /\ UNCHANGED call
    BY <1>2 DEF Expire
<1>3. ASSUME NEW t \in Threads, Read(t)
      PROVE  /\ expired' = expired
             /\ \A s \in Threads : Read(s) \/ call'[s] = call[s]
    BY <1>3, ReadInv
<1> QED
    BY <1>1, <1>2, <1>3, WriteInv DEF Next

(* A loop goes on or comes to its clean-ups.                               *)
LEMMA VisitGoesOn ==
    ASSUME Inv, NEW t \in Threads, NEW k \in Keys, EachVisit(t, k)
    PROVE  call'[t].step \in {"each", "sweep"}
<1> DEFINE c == [call[t] EXCEPT !.rest = @ \ {k}]
           d == [c EXCEPT !.seen = @ \cup {k}]
           f == [c EXCEPT !.stale = @ \cup {k}]
<1>0. call[t] \in Call /\ call \in [Threads -> Call]
    BY DEF Inv, TypeOK
<1>1. c \in Call /\ c.step = "each"
    BY <1>0 DEF EachVisit, At, Call
<1> HIDE DEF c
<1>2. d \in Call /\ d.step = "each" /\ f.step = "each"
    BY <1>1 DEF Call
<1> HIDE DEF d, f
<1>3. Abort(d).step = "sweep"
    BY <1>2 DEF Abort, Call
<1>4. \E e \in {d, Abort(d), f} : call' = [call EXCEPT ![t] = e]
    BY DEF EachVisit, c, d, f
<1> QED
    BY <1>0, <1>2, <1>3, <1>4

(* Only Look comes to the evaluation of an item.                           *)
LEMMA FoundByLook ==
    ASSUME Inv, NEW t \in Threads, Read(t), At(t, "value")'
    PROVE  \E op \in {"In", "Get"}, k \in Keys : Look(t, op, k)
<1>0. call[t] \in Call /\ call \in [Threads -> Call]
    BY DEF Inv, TypeOK
<1>1. ASSUME NEW i \in Items \cup {NoItem}, Return(t, i) PROVE FALSE
    BY <1>1, ReturnStep DEF At
<1>2. ASSUME Value(t) PROVE FALSE
    <2>1. CASE call[t].item \in expired
        BY <1>0, <1>2, <2>1 DEF Value, At, Call
    <2>2. CASE call[t].item \notin expired
        BY <1>0, <1>1, <1>2, <2>2 DEF Value, Call
    <2> QED
        BY <2>1, <2>2
<1>3. ASSUME Cleanup(t) PROVE FALSE
    BY <1>0, <1>1, <1>3 DEF Cleanup, Call
<1>4. ASSUME EachBegin(t) PROVE FALSE
    BY <1>0, <1>4 DEF EachBegin, NoCall, At
<1>5. ASSUME NEW k \in Keys, EachVisit(t, k) PROVE FALSE
    BY <1>5, VisitGoesOn DEF At
<1>6. ASSUME EachEnd(t) PROVE FALSE
    BY <1>0, <1>6 DEF EachEnd, At, Call
<1>7. ASSUME Sweep(t) PROVE FALSE
    BY <1>0, <1>1, <1>7 DEF Sweep, At, Call
<1>8. \A k \in call[t].rest : k \in Keys
    BY <1>0 DEF Call
<1> QED
    BY <1>2, <1>3, <1>4, <1>5, <1>6, <1>7, <1>8 DEF Read

(* A call that says yes has evaluated an item that was still valid.        *)
LEMMA YesByValue ==
    ASSUME Inv, NEW t \in Threads, Read(t), Answered(t),
           call'[t].answer # NoItem
    PROVE  At(t, "value") /\ call[t].item \notin expired
<1>0. call[t] \in Call /\ call \in [Threads -> Call] /\ ~At(t, "idle")
    BY DEF Inv, TypeOK, Answered
<1>1. ASSUME Return(t, NoItem) PROVE FALSE
    BY <1>0, <1>1 DEF Return, NoCall
<1>2. ASSUME Value(t) PROVE At(t, "value") /\ call[t].item \notin expired
    BY <1>0, <1>2 DEF Value, At, Answered, Call
<1>3. ASSUME Cleanup(t) PROVE FALSE
    BY <1>1, <1>3 DEF Cleanup, Answered
<1>4. ASSUME NEW k \in Keys, EachVisit(t, k) PROVE FALSE
    BY <1>4, VisitGoesOn DEF Answered
<1>5. ASSUME EachEnd(t) PROVE FALSE
    BY <1>0, <1>5 DEF EachEnd, At, Answered, Call
<1>6. ASSUME Sweep(t) PROVE FALSE
    BY <1>0, <1>1, <1>6 DEF Sweep, At, Answered, Call
<1>7. \A k \in call[t].rest : k \in Keys
    BY <1>0 DEF Call
<1> QED
    BY <1>0, <1>2, <1>3, <1>4, <1>5, <1>6, <1>7 DEF Read, Look, EachBegin, At

-----------------------------------------------------------------------------
LEMMA AnswersStep ==
    ASSUME AnswersInv, [AnswersNext]_<<vars, lived>>
    PROVE  AnswersInv'
<1>1. CASE UNCHANGED <<vars, lived>>
    <2>1. Inv'
        BY <1>1, StepInv DEF AnswersInv
    <2> QED
        BY <1>1, <2>1 DEF AnswersInv, Held, At, vars
<1>2. CASE AnswersNext
    <2>1. Inv /\ Inv' /\ Next
        BY <1>2, StepInv DEF AnswersInv, AnswersNext
    <2>2. ASSUME NEW t \in Threads, At(t, "value")'
          PROVE  call'[t].item \in expired' \/ lived'[t]
        <3>1. CASE call'[t] = call[t]
            <4>1. At(t, "value") /\ ~At(t, "idle")
                BY <2>2, <3>1 DEF At
            <4>2. lived[t] => lived'[t]
                BY <1>2, <4>1 DEF AnswersNext
            <4> QED
                BY <2>1, <3>1, <4>1, <4>2, OthersWait DEF AnswersInv, Held
        <3>2. CASE call'[t] # call[t]
            <4>1. PICK op \in {"In", "Get"}, k \in Keys : Look(t, op, k)
                BY <2>1, <2>2, <3>2, OthersWait, FoundByLook
            <4>2. call'[t].key = k /\ call'[t].item = lookup[k]
                  /\ (call'[t].step = "value" <=> Present(k))
                BY <2>1, <4>1 DEF Look, NoCall, Inv, TypeOK
            <4>3. At(t, "idle") /\ expired' = expired
                BY <4>1 DEF Look
            <4>4. Live(k) => lived'[t]
                BY <1>2, <4>2, <4>3 DEF AnswersNext
            <4> QED
                BY <2>2, <4>2, <4>3, <4>4 DEF Live, At
        <3> QED
            BY <3>1, <3>2
    <2> QED
        BY <2>1, <2>2 DEF AnswersInv, Held
<1> QED
    BY <1>1, <1>2

(* In says yes only if the item was in the set, and not expired, at some   *)
(* moment of the call, however many goroutines read and write meanwhile.   *)
THEOREM YesIsTrue == AnswersSpec => YesWasTrue
<1>1. AnswersInit => AnswersInv
    <2> SUFFICES ASSUME AnswersInit PROVE AnswersInv
        OBVIOUS
    <2>1. Inv
        BY InitInv DEF AnswersInit
    <2>2. \A t \in Threads : call[t].step = "idle"
        BY DEF AnswersInit, Init, NoCall
    <2> QED
        BY <2>1, <2>2 DEF AnswersInv, Held, At
<1>2. AnswersInv /\ [AnswersNext]_<<vars, lived>> => AnswersInv'
    BY AnswersStep
<1>3. AnswersInv /\ [AnswersNext]_<<vars, lived>> =>
        [\A t \in Threads :
            Answered(t) /\ call'[t].answer # NoItem => lived[t]]_<<vars, lived>>
    <2> SUFFICES ASSUME AnswersInv, AnswersNext, NEW t \in Threads, Answered(t),
                        call'[t].answer # NoItem
                 PROVE  lived[t]
        OBVIOUS
    <2>1. Inv /\ Next /\ call'[t] # call[t]
        BY DEF AnswersInv, AnswersNext, Answered, At
    <2>2. At(t, "value") /\ call[t].item \notin expired
        BY <2>1, OthersWait, YesByValue
    <2> QED
        BY <2>2 DEF AnswersInv, Held
<1> QED
    BY <1>1, <1>2, <1>3, PTL DEF AnswersSpec, YesWasTrue
=============================================================================
