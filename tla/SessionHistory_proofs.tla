------------------------ MODULE SessionHistory_proofs ------------------------
(* Theorems about SessionHistory, for any scripts, outcomes and bounds. *)
EXTENDS SessionHistory, TLAPS, SequenceTheorems, FiniteSetTheorems

----------------------------------------------------------------------------
(* Sequences. *)

LEMMA TailOf ==
    ASSUME NEW S, NEW s \in Seq(S), s # <<>>
    PROVE  /\ Tail(s) \in Seq(S) /\ Len(s) \in Nat \ {0} /\ Len(Tail(s)) = Len(s) - 1
           /\ Head(s) = s[1] /\ Head(s) \in S
           /\ \A i \in 1 .. Len(s) - 1 : Tail(s)[i] = s[i + 1]
BY HeadTailProperties, EmptySeq, LenProperties

(* A call's body is put in front of what is left of the calls around it. *)
LEMMA InFront ==
    ASSUME NEW S, NEW s \in Seq(S), s # <<>>, NEW b \in Seq(S)
    PROVE  LET r == b \o Tail(s) IN
           /\ r \in Seq(S) /\ Len(r) = Len(b) + Len(s) - 1
           /\ \A i \in 1 .. Len(b) : r[i] = b[i]
           /\ \A i \in 2 .. Len(s) : r[Len(b) + i - 1] = s[i]
<1>1. Tail(s) \in Seq(S) /\ Len(s) \in Nat \ {0} /\ Len(Tail(s)) = Len(s) - 1
      /\ \A i \in 1 .. Len(s) - 1 : Tail(s)[i] = s[i + 1]
  BY TailOf
<1>2. Len(b) \in Nat
  BY LenProperties
<1> QED
  BY <1>1, <1>2, ConcatProperties

----------------------------------------------------------------------------
(* Type correctness. *)

RubyStep == [op : Op, to : Nat]

LEMMA DoType == ASSUME NEW op \in Op PROVE Do(op) \in RubyStep /\ Do(op).op = op
BY DEF Do, RubyStep

(* The bodies, step by step. *)
LEMMA BodyTypes ==
    /\ Drain \in Seq(RubyStep) /\ Navigate \in Seq(RubyStep) /\ NavigatePost \in Seq(RubyStep)
    /\ Reload \in Seq(RubyStep)
    /\ \A t \in Nat : TraverseTo(t) \in Seq(RubyStep)
<1>1. \A t \in Nat : [op |-> "move", to |-> t] \in RubyStep
  BY DEF RubyStep, Op
<1> QED
  BY <1>1, DoType DEF Drain, Navigate, NavigatePost, Reload, TraverseTo, Op

(* Some document is free: there are more candidates than documents in use. *)
LEMMA FreshDocFree ==
    ASSUME history \in Seq(Entry), doc \in Nat
    PROVE  /\ FreshDoc \in Nat /\ FreshDoc # doc
           /\ \A i \in DOMAIN history : history[i].doc # FreshDoc
<1> DEFINE n == Len(history)
           f == [i \in 0 .. n |-> IF i = 0 THEN doc ELSE history[i].doc]
           Used == {f[i] : i \in 0 .. n}
<1>1. n \in Nat /\ DOMAIN history = 1 .. n
  BY LenProperties
<1>2. f \in Surjection(0 .. n, Used)
  BY DEF Surjection
<1>3. IsFiniteSet(0 .. n) /\ Cardinality(0 .. n) = n + 1
  BY <1>1, FS_Interval
<1>4. IsFiniteSet(Used) /\ Cardinality(Used) <= n + 1
  BY <1>2, <1>3, FS_Surjection
<1>5. IsFiniteSet(1 .. n + 2) /\ Cardinality(1 .. n + 2) = n + 2
  BY <1>1, FS_Interval
<1>6. ~ (1 .. n + 2 \subseteq Used)
  <2> SUFFICES ASSUME 1 .. n + 2 \subseteq Used PROVE FALSE
    OBVIOUS
  <2>1. Cardinality(1 .. n + 2) <= Cardinality(Used) /\ Cardinality(Used) \in Nat
    BY <1>4, FS_Subset, FS_CardinalityType
  <2> QED
    BY <2>1, <1>1, <1>4, <1>5
<1>7. PICK d \in 1 .. n + 2 : d \notin Used
  BY <1>6
<1>8. d # doc /\ \A i \in DOMAIN history : history[i].doc # d
  <2>1. f[0] = doc /\ \A i \in 1 .. n : f[i] = history[i].doc
    BY <1>1
  <2> QED
    BY <2>1, <1>1, <1>7
<1>9. /\ FreshDoc \in 1 .. n + 2 /\ FreshDoc # doc
      /\ \A i \in DOMAIN history : history[i].doc # FreshDoc
  BY <1>7, <1>8 DEF FreshDoc
<1> QED
  BY <1>9, <1>1

LEMMA FreshDocType == TypeOK => FreshDoc \in Nat
BY FreshDocFree DEF TypeOK

(* What the model does to the list keeps it one. *)
LEMMA CapturedType ==
    ASSUME TypeOK
    PROVE  /\ Captured(history) \in Seq(Entry) /\ Len(Captured(history)) = Len(history)
           /\ \A i \in DOMAIN history :
                 /\ Captured(history)[i].doc = history[i].doc
                 /\ Captured(history)[i].kind = history[i].kind
                 /\ Captured(history)[i].form =
                        IF i = idx THEN doc ELSE history[i].form
<1>1. DOMAIN history = 1 .. Len(history) /\ history \in Seq(Entry) /\ doc \in Nat
  BY LenProperties DEF TypeOK
<1>2. \A i \in DOMAIN history : history[i] \in Entry
  BY <1>1, ElementOfSeq
<1>3. \A i \in DOMAIN history : [history[i] EXCEPT !.form = doc] \in Entry
  BY <1>1, <1>2 DEF Entry
<1>4. CASE idx \in DOMAIN history
  <2>1. Captured(history) = [history EXCEPT ![idx] = [history[idx] EXCEPT !.form = doc]]
    BY <1>4 DEF Captured
  <2> QED
    BY <2>1, <1>1, <1>2, <1>3, <1>4, ExceptSeq DEF Entry
<1>5. CASE idx \notin DOMAIN history
  BY <1>5, <1>1 DEF Captured
<1> QED
  BY <1>4, <1>5

(* record_history keeps the entries up to the index and adds one. *)
LEMMA RecordedType ==
    ASSUME NEW h \in Seq(Entry), NEW e \in Entry, idx \in Nat
    PROVE  LET r == Recorded(h, e)
               n == IF idx < Len(h) THEN idx ELSE Len(h) IN
           /\ r \in Seq(Entry) /\ Len(r) = n + 1
           /\ \A i \in 1 .. n : r[i] = h[i]
           /\ r[n + 1] = e
<1>1. Len(h) \in Nat /\ \A i \in 1 .. Len(h) : h[i] \in Entry
  BY LenProperties, ElementOfSeq
<1>2. CASE idx < Len(h)
  <2>1. /\ SubSeq(h, 1, idx) \in Seq(Entry) /\ Len(SubSeq(h, 1, idx)) = idx
        /\ \A i \in 1 .. idx : SubSeq(h, 1, idx)[i] = h[i]
    BY <1>1, <1>2, SubSeqProperties
  <2> QED
    BY <2>1, <1>2, AppendProperties DEF Recorded
<1>3. CASE ~(idx < Len(h))
  BY <1>1, <1>3, AppendProperties DEF Recorded
<1> QED
  BY <1>2, <1>3

LEMMA InitType == Init => TypeOK
<1> SUFFICES ASSUME Init PROVE TypeOK
  OBVIOUS
<1>1. history \in Seq(Entry) /\ todo \in Seq([op : Op, to : Nat])
  BY EmptySeq DEF Init
<1>2. Nothing \in Intents
  BY DEF Nothing, Intents, NoIntent
<1>3. intents \in Intents /\ saved \in Intents /\ flushed \in Intents
  BY <1>2 DEF Init
<1> QED
  BY <1>1, <1>3 DEF Init, TypeOK

LEMMA TestType == TypeOK /\ Test => TypeOK'
<1> SUFFICES ASSUME TypeOK, Test PROVE TypeOK'
  OBVIOUS
<1>1. ASSUME NEW body \in Seq(RubyStep), Call(body) PROVE TypeOK'
  BY <1>1 DEF Call, TypeOK, slotVars, RubyStep
<1>2. ASSUME Visit \/ Submit \/ Refresh PROVE TypeOK'
  BY <1>1, <1>2, BodyTypes DEF Visit, Submit, Refresh
<1>3. ASSUME RunScripts PROVE TypeOK'
  <2>1. <<Do("script")>> \o Drain \in Seq(RubyStep)
    BY BodyTypes, DoType, ConcatProperties DEF Op
  <2> QED
    BY <2>1, <1>1, <1>3 DEF RunScripts
<1>4. ASSUME NEW delta \in {-1, 1}, GoBackOrForward(delta) PROVE TypeOK'
  <2>1. idx + delta \in 1 .. Len(history) /\ Len(history) \in Nat
    BY <1>4, LenProperties DEF GoBackOrForward, InRange, TypeOK
  <2>2. history[idx + delta] \in Entry
    BY <2>1, ElementOfSeq DEF TypeOK
  <2>3. CASE SameDocument(idx, idx + delta)
    BY <1>4, <2>1, <2>2, <2>3 DEF GoBackOrForward, MoveInDocument, TypeOK, slotVars, Entry
  <2>4. CASE ~SameDocument(idx, idx + delta)
    BY <1>1, <1>4, <2>1, <2>4, BodyTypes DEF GoBackOrForward
  <2> QED
    BY <2>3, <2>4
<1> QED
  BY <1>2, <1>3, <1>4 DEF Test

LEMMA PageScriptType == TypeOK /\ PageScript => TypeOK'
<1> SUFFICES ASSUME TypeOK, PageScript PROVE TypeOK'
  OBVIOUS
<1> USE DEF slotVars
<1>1. Len(history) \in Nat /\ DOMAIN history = 1 .. Len(history)
      /\ \A i \in DOMAIN history : history[i] \in Entry
  BY LenProperties, ElementOfSeq DEF TypeOK
<1>2. ASSUME PushState PROVE TypeOK'
  <2>1. PICK s \in State \cup {NoState} :
            /\ jsState' = s
            /\ history' = Recorded(history, [doc |-> doc, kind |-> "push_state", state |-> s,
                                             form |-> NoForm])
    BY <1>2 DEF PushState
  <2>2. [doc |-> doc, kind |-> "push_state", state |-> s, form |-> NoForm] \in Entry
    BY DEF Entry, TypeOK
  <2>3. history' \in Seq(Entry) /\ Len(history') \in Nat
    BY <2>1, <2>2, RecordedType, LenProperties DEF TypeOK
  <2> QED
    BY <1>2, <2>1, <2>3 DEF PushState, TypeOK
<1>3. ASSUME ReplaceState PROVE TypeOK'
  <2>1. PICK s \in State \cup {NoState} :
            /\ jsState' = s
            /\ history' = IF idx \in DOMAIN history THEN [history EXCEPT ![idx].state = s]
                                                    ELSE history
    BY <1>3 DEF ReplaceState
  <2>2. \A e \in Entry : [e EXCEPT !.state = s] \in Entry
    BY DEF Entry
  <2>3. history' \in Seq(Entry)
    BY <2>1, <2>2, <1>1, ExceptSeq DEF TypeOK
  <2> QED
    BY <1>3, <2>1, <2>3 DEF ReplaceState, TypeOK
<1>4. ASSUME NEW slot \in Slot, NEW t \in Nat, Stash(slot, t), UNCHANGED todo PROVE TypeOK'
  BY <1>4 DEF Stash, TypeOK, Intents
<1>5. ASSUME LocationAssign \/ LocationReload PROVE TypeOK'
  BY <1>4, <1>5 DEF LocationAssign, LocationReload, Slot
<1>6. ASSUME HistoryGo PROVE TypeOK'
  <2>1. PICK delta \in PageDelta :
            /\ InRange(idx + delta)
            /\ IF SameDocument(idx, idx + delta)
               THEN ~flushing /\ MoveInDocument(idx + delta)
               ELSE Stash("traverse", idx + delta)
    BY <1>6 DEF HistoryGo
  <2>2. idx + delta \in 1 .. Len(history)
    BY <2>1, <1>1, HistoryAssumption DEF InRange, TypeOK
  <2>3. CASE MoveInDocument(idx + delta)
    BY <1>1, <1>6, <2>2, <2>3 DEF HistoryGo, MoveInDocument, TypeOK, Entry
  <2>4. CASE Stash("traverse", idx + delta)
    BY <1>1, <1>4, <1>6, <2>2, <2>4 DEF HistoryGo, Slot
  <2> QED
    BY <2>1, <2>3, <2>4
<1>7. ASSUME ScriptEnds PROVE TypeOK'
  BY <1>7, TailOf DEF ScriptEnds, At, TypeOK
<1> QED
  BY <1>2, <1>3, <1>5, <1>6, <1>7 DEF PageScript

LEMMA ConsumeType == TypeOK /\ ConsumeSlots => TypeOK'
<1> SUFFICES ASSUME TypeOK, ConsumeSlots PROVE TypeOK'
  OBVIOUS
<1>1. ASSUME NEW slot \in Slot, NEW body \in Seq(RubyStep), Consume(slot, body) PROVE TypeOK'
  <2>1. todo \in Seq(RubyStep) /\ todo # <<>>
    BY <1>1 DEF Consume, At, TypeOK, RubyStep
  <2>2. Tail(todo) \in Seq(RubyStep) /\ body \o Tail(todo) \in Seq(RubyStep)
    BY <1>1, <2>1, TailOf, InFront
  <2>3. todo' \in Seq(RubyStep)
    BY <1>1, <2>2 DEF Consume
  <2>4. intents' \in Intents
    <3>1. intents \in [Slot -> Nat] /\ 0 \in Nat
      BY DEF TypeOK, Intents
    <3>2. intents' = intents \/ intents' = [intents EXCEPT ![slot] = 0]
      BY <1>1 DEF Consume, NoIntent
    <3> QED
      BY <3>1, <3>2 DEF Intents
  <2> QED
    BY <1>1, <2>3, <2>4 DEF Consume, TypeOK, RubyStep
<1>2. intents["traverse"] \in Nat
  BY DEF TypeOK, Intents, Slot
<1> QED
  BY <1>1, <1>2, BodyTypes DEF ConsumeSlots, Slot

LEMMA NavigationType == TypeOK /\ (Requests => idx \in DOMAIN history) /\ Navigation => TypeOK'
<1> SUFFICES ASSUME TypeOK, Requests => idx \in DOMAIN history, Navigation PROVE TypeOK'
  OBVIOUS
<1> USE DEF slotVars
<1>1. todo \in Seq(RubyStep) /\ todo # <<>>
  BY DEF Navigation, FlushNothing, FlushBegins, FlushEnds, RecordEntry, MoveIndex, Replay,
         Commit, Download, Redirect, Raise, RestoreForm, RestoreNothing, RestoreIntents,
         RestoreEnds, Requests, OfPost, At, TypeOK, RubyStep
<1>2. Head(todo) \in RubyStep /\ Tail(todo) \in Seq(RubyStep)
  BY <1>1, TailOf
<1>3. \A b \in Seq(RubyStep) : b \o Tail(todo) \in Seq(RubyStep)
  BY <1>1, InFront
<1>4. \A op, q \in Op : /\ <<>> \in Seq(RubyStep) /\ <<Do(op)>> \in Seq(RubyStep)
                         /\ <<Do(op), Do(q)>> \in Seq(RubyStep)
  BY DoType
<1>5. Nothing \in Intents
  BY DEF Nothing, Intents, NoIntent
<1>7. CASE FlushNothing \/ RestoreForm
  BY <1>7, <1>2 DEF FlushNothing, RestoreForm, TypeOK, RubyStep
<1>8. CASE FlushBegins
  <2>1. todo' \in Seq(RubyStep)
    BY <1>8, <1>3, <1>4 DEF FlushBegins, Op
  <2> QED
    BY <1>8, <1>5, <2>1 DEF FlushBegins, TypeOK, RubyStep
<1>9. CASE FlushEnds \/ RestoreNothing \/ RestoreEnds
  <2>1. CASE FlushEnds
    BY <2>1, <1>2, <1>5 DEF FlushEnds, Stashed, TypeOK, RubyStep
  <2>2. CASE RestoreNothing
    BY <2>2, <1>2, <1>5 DEF RestoreNothing, Stashed, TypeOK, RubyStep
  <2>3. CASE RestoreEnds
    BY <2>3, <1>2 DEF RestoreEnds, TypeOK, RubyStep
  <2> QED
    BY <1>9, <2>1, <2>2, <2>3
<1>10. CASE RecordEntry
  <2> DEFINE e == [doc |-> FreshDoc, kind |-> RecordedKind, state |-> NoState, form |-> NoForm]
  <2>1. e \in Entry
    BY FreshDocType DEF Entry, RecordedKind
  <2>2. history' \in Seq(Entry) /\ Len(history') \in Nat
    BY <1>10, <2>1, CapturedType, RecordedType, LenProperties DEF RecordEntry, TypeOK
  <2> QED
    BY <1>2, <1>10, <2>2 DEF RecordEntry, TypeOK, RubyStep
<1>11. CASE MoveIndex
  BY <1>2, <1>11, CapturedType DEF MoveIndex, TypeOK, RubyStep
<1>12. CASE Replay
  BY <1>3, <1>4, <1>12 DEF Replay, TypeOK, RubyStep, Op
<1>13. CASE Commit
  <2>1. history[idx] \in Entry
    BY <1>13, LenProperties, ElementOfSeq DEF Commit, TypeOK
  <2> QED
    BY <2>1, <1>3, <1>4, <1>5, <1>13 DEF Commit, Stashed, TypeOK, RubyStep, Op, Entry
<1>14. CASE Download \/ Redirect
  <2>1. <<>> \in Seq(RubyStep) /\ <<Do("putBack")>> \in Seq(RubyStep)
        /\ <<Do("redirected")>> \in Seq(RubyStep)
    BY <1>4 DEF Op
  <2>2. todo' \in Seq(RubyStep)
    BY <1>3, <2>1, <1>14 DEF Download, Redirect
  <2>3. CASE Download
    BY <2>2, <2>3 DEF Download, Strays, TypeOK, RubyStep
  <2>4. CASE Redirect
    BY <2>2, <2>4 DEF Redirect, TypeOK, RubyStep
  <2> QED
    BY <1>14, <2>3, <2>4
<1>15. CASE Raise
  <2>1. Kept("restore") \in Seq(RubyStep) /\ Kept("restored") \in Seq(RubyStep)
    BY <1>4 DEF Kept, Op
  <2>2. todo' \in Seq(RubyStep)
    BY <1>15, <2>1, ConcatProperties DEF Raise, Ensured
  <2> QED
    BY <1>15, <2>2 DEF Raise, Strays, TypeOK, RubyStep
<1>16. CASE RestoreIntents
  <2>1. Drain \o <<Do("restored")>> \in Seq(RubyStep)
    BY <1>4, BodyTypes, ConcatProperties DEF Op
  <2>2. todo' \in Seq(RubyStep)
    BY <1>16, <1>1, <1>2, <2>1, ConcatAssociative, BodyTypes, <1>4, ConcatProperties
    DEF RestoreIntents, Op
  <2>3. intents' \in Intents
    BY <1>16 DEF RestoreIntents, TypeOK, Intents
  <2> QED
    BY <1>16, <1>5, <2>2, <2>3 DEF RestoreIntents, Stashed, TypeOK, RubyStep
<1> QED
  BY <1>7, <1>8, <1>9, <1>10, <1>11, <1>12, <1>13, <1>14, <1>15, <1>16 DEF Navigation

----------------------------------------------------------------------------
(* What is left of the Ruby calls: every body under way still has the steps *)
(* that have to follow the one it is at.                                    *)

(* The steps that are never a body's last. *)
Inner == {"flush", "flushed", "record", "recordPost", "move", "replay", "restoreForm"}

(* Step b comes next after step a. *)
Linked(a, b) ==
    /\ a \in {"flush", "flushed"} => b \in {"record", "recordPost", "move", "replay"}
    /\ a = "record" <=> b = "fetch"
    /\ a = "recordPost" <=> b = "post"
    /\ a = "move" => b = "replay"
    /\ a = "replay" => b \in {"restoreForm", "putBack"}
    /\ a = "restoreForm" => b = "putBack"
    /\ b # "redirected"

Whole(s) ==
    /\ s # <<>> => s[Len(s)].op \notin Inner
    /\ \A i \in 1 .. Len(s) - 1 : Linked(s[i].op, s[i + 1].op)
    /\ \A i \in 2 .. Len(s) : s[i].op = "fetch" => i < Len(s) /\ s[i + 1].op = "restore"

LEMMA WholeTail ==
    ASSUME NEW s \in Seq(RubyStep), s # <<>>, Whole(s)
    PROVE  Whole(Tail(s))
<1> DEFINE t == Tail(s)
<1>1. /\ Len(s) \in Nat \ {0} /\ Len(t) = Len(s) - 1 /\ t \in Seq(RubyStep)
      /\ \A i \in 1 .. Len(t) : t[i] = s[i + 1]
  BY TailOf
<1>2. t # <<>> => Len(t) \in 1 .. Len(t)
  BY <1>1, EmptySeq
<1>3. t # <<>> => t[Len(t)].op \notin Inner
  BY <1>1, <1>2 DEF Whole
<1>4. \A i \in 1 .. Len(t) - 1 : Linked(t[i].op, t[i + 1].op)
  BY <1>1 DEF Whole
<1>5. \A i \in 2 .. Len(t) : t[i].op = "fetch" => i < Len(t) /\ t[i + 1].op = "restore"
  BY <1>1 DEF Whole
<1> QED
  BY <1>3, <1>4, <1>5 DEF Whole

(* A body in front of what is left, unless its caller is about to request. *)
LEMMA WholeInFront ==
    ASSUME NEW s \in Seq(RubyStep), s # <<>>, Whole(s), NEW b \in Seq(RubyStep), b # <<>>,
           \A i \in 1 .. Len(b) - 1 : Linked(b[i].op, b[i + 1].op),
           \A i \in 2 .. Len(b) : b[i].op = "fetch" => i < Len(b) /\ b[i + 1].op = "restore",
           Len(s) = 1 => b[Len(b)].op \notin Inner,
           Len(s) > 1 => Linked(b[Len(b)].op, s[2].op)
    PROVE  Whole(b \o Tail(s))
<1> DEFINE r == b \o Tail(s)  n == Len(b)
<1>1. /\ r \in Seq(RubyStep) /\ Len(r) = n + Len(s) - 1
      /\ \A i \in 1 .. n : r[i] = b[i]
      /\ \A i \in 2 .. Len(s) : r[n + i - 1] = s[i]
  BY InFront
<1>2. n \in Nat \ {0} /\ Len(s) \in Nat \ {0}
  BY EmptySeq
<1>3. r[Len(r)].op \notin Inner
  <2>1. CASE Len(s) = 1
    BY <1>1, <1>2, <2>1
  <2>2. CASE Len(s) > 1
    <3>1. Len(s) \in 2 .. Len(s) /\ n + Len(s) - 1 = Len(r)
      BY <1>1, <1>2, <2>2
    <3>2. r[Len(r)] = s[Len(s)]
      BY <1>1, <3>1
    <3> QED
      BY <3>2 DEF Whole
  <2>3. \A k \in Nat \ {0} : k = 1 \/ k > 1
    OBVIOUS
  <2> QED
    BY <1>2, <2>1, <2>2, <2>3
<1>4. \A j \in n + 1 .. Len(r) : j - n + 1 \in 2 .. Len(s) /\ r[j] = s[j - n + 1]
  BY <1>1, <1>2
<1>5. ASSUME NEW i \in 1 .. Len(r) - 1 PROVE Linked(r[i].op, r[i + 1].op)
  <2>1. CASE i < n
    BY <1>1, <1>2, <2>1
  <2>2. CASE i = n
    BY <1>1, <1>2, <1>4, <1>5, <2>2
  <2>3. CASE i > n
    <3>1. r[i] = s[i - n + 1] /\ r[i + 1] = s[i - n + 2] /\ i - n + 1 \in 1 .. Len(s) - 1
      BY <1>1, <1>2, <1>4, <1>5, <2>3
    <3> QED
      BY <3>1, <1>2 DEF Whole
  <2> QED
    BY <1>2, <2>1, <2>2, <2>3
<1>6. ASSUME NEW i \in 2 .. Len(r), r[i].op = "fetch"
      PROVE  i < Len(r) /\ r[i + 1].op = "restore"
  <2>1. CASE i <= n
    BY <1>1, <1>2, <1>6, <2>1
  <2>2. CASE i > n
    <3>1. i - n + 1 \in 2 .. Len(s) /\ s[i - n + 1].op = "fetch"
      BY <1>1, <1>2, <1>4, <1>6, <2>2
    <3>2. i - n + 1 < Len(s) /\ s[i - n + 2].op = "restore"
      BY <3>1, <1>2 DEF Whole
    <3> QED
      BY <3>2, <1>1, <1>2, <1>4, <2>2
  <2> QED
    BY <1>2, <2>1, <2>2
<1> QED
  BY <1>3, <1>5, <1>6 DEF Whole

(* A body that stands alone goes in front of any step that is no request.   *)
LEMMA WholeCalled ==
    ASSUME NEW s \in Seq(RubyStep), s # <<>>, Whole(s), NEW b \in Seq(RubyStep),
           Whole(b), s[1].op \notin {"record", "recordPost"}
    PROVE  Whole(b \o Tail(s))
<1>1. CASE b = <<>>
  BY <1>1, WholeTail, TailOf, ConcatEmptySeq
<1>2. CASE b # <<>>
  <2>1. Len(s) > 1 => Linked(s[1].op, s[2].op)
    BY EmptySeq DEF Whole
  <2>2. b[Len(b)].op \notin Inner
    BY <1>2 DEF Whole
  <2>3. Len(s) > 1 => Linked(b[Len(b)].op, s[2].op)
    BY <2>1, <2>2 DEF Linked, Inner
  <2> QED
    BY <1>2, <2>2, <2>3, WholeInFront DEF Whole
<1> QED
  BY <1>1, <1>2

LEMMA BodiesWhole ==
    /\ Whole(Drain) /\ Whole(Navigate) /\ Whole(NavigatePost) /\ Whole(Reload)
    /\ \A t \in Nat : Whole(TraverseTo(t))
    /\ Whole(<<Do("script")>> \o Drain) /\ Whole(Drain \o <<Do("restored")>>)
    /\ Whole(<<>>) /\ Whole(<<Do("script")>>) /\ Whole(<<Do("post")>>) /\ Whole(<<Do("redirected")>>)
    /\ Whole(<<Do("putBack")>>) /\ Whole(<<Do("fetch"), Do("restore")>>)
<1> USE DEF Whole, Linked, Inner, Do
<1>1. Whole(Drain) /\ Whole(Navigate) /\ Whole(NavigatePost) /\ Whole(Reload)
  BY DEF Drain, Navigate, NavigatePost, Reload
<1>2. \A t \in Nat : Whole(TraverseTo(t))
  BY DEF TraverseTo
<1>3. ASSUME NEW a \in Seq(RubyStep), NEW b \in Seq(RubyStep), NEW r, r = a \o b,
             Len(a) + Len(b) = 4
      PROVE  /\ Len(r) = 4 /\ r # <<>>
             /\ \A i \in 1 .. 4 : r[i] = IF i <= Len(a) THEN a[i] ELSE b[i - Len(a)]
  BY <1>3, ConcatProperties, EmptySeq
<1>4. Whole(<<Do("script")>> \o Drain) /\ Whole(Drain \o <<Do("restored")>>)
  <2> DEFINE p == <<Do("script")>>  q == <<Do("restored")>>  u == p \o Drain  v == Drain \o q
  <2>1. p \in Seq(RubyStep) /\ q \in Seq(RubyStep) /\ Len(p) = 1 /\ Len(q) = 1
        /\ Drain \in Seq(RubyStep) /\ Len(Drain) = 3
    BY BodyTypes, DoType DEF Op, Drain
  <2>2. Len(u) = 4 /\ u[1].op = "script" /\ u[2].op = "location" /\ u[3].op = "reload"
        /\ u[4].op = "traverse"
    BY <1>3, <2>1 DEF Drain
  <2>3. Len(v) = 4 /\ v[1].op = "location" /\ v[2].op = "reload" /\ v[3].op = "traverse"
        /\ v[4].op = "restored"
    BY <1>3, <2>1 DEF Drain
  <2> HIDE DEF u, v
  <2>4. Whole(u) /\ Whole(v)
    BY <2>2, <2>3
  <2> QED
    BY <2>4 DEF u, v
<1>5. /\ Whole(<<>>) /\ Whole(<<Do("script")>>) /\ Whole(<<Do("post")>>) /\ Whole(<<Do("redirected")>>)
      /\ Whole(<<Do("putBack")>>) /\ Whole(<<Do("fetch"), Do("restore")>>)
  OBVIOUS
<1> QED
  BY <1>1, <1>2, <1>4, <1>5

LEMMA EnsuredSteps ==
    /\ Ensured \in Seq(RubyStep)
    /\ \A i \in DOMAIN Ensured : Ensured[i].op \in {"restore", "restored"}
<1> DEFINE a == Kept("restore")  b == Kept("restored")
<1>1. /\ a \in Seq(RubyStep) /\ \A i \in 1 .. Len(a) : a[i].op = "restore"
      /\ b \in Seq(RubyStep) /\ \A i \in 1 .. Len(b) : b[i].op = "restored"
  BY DoType, EmptySeq DEF Kept, Op
<1> HIDE DEF a, b
<1>2. a \o b \in Seq(RubyStep) /\ Len(a \o b) = Len(a) + Len(b)
      /\ \A i \in 1 .. Len(a) + Len(b) :
            (a \o b)[i] = IF i <= Len(a) THEN a[i] ELSE b[i - Len(a)]
  BY <1>1, ConcatProperties
<1>3. DOMAIN (a \o b) = 1 .. Len(a) + Len(b) /\ Len(a) \in Nat /\ Len(b) \in Nat
  BY <1>1, <1>2, LenProperties
<1>4. \A i \in DOMAIN (a \o b) : (a \o b)[i].op \in {"restore", "restored"}
  BY <1>1, <1>2, <1>3
<1> QED
  BY <1>2, <1>4 DEF Ensured, a, b

LEMMA EnsuredWhole == Whole(Ensured)
<1> DEFINE e == Ensured
<1>1. e \in Seq(RubyStep) /\ DOMAIN e = 1 .. Len(e) /\ Len(e) \in Nat
      /\ \A i \in 1 .. Len(e) : e[i].op \in {"restore", "restored"}
  BY EnsuredSteps, LenProperties
<1>2. e # <<>> => Len(e) \in 1 .. Len(e)
  BY <1>1, EmptySeq
<1> HIDE DEF e
<1>3. e # <<>> => e[Len(e)].op \notin Inner
  BY <1>1, <1>2 DEF Inner
<1>4. \A i \in 1 .. Len(e) - 1 : Linked(e[i].op, e[i + 1].op)
  BY <1>1 DEF Linked
<1>5. \A i \in 2 .. Len(e) : e[i].op # "fetch"
  BY <1>1
<1> QED
  BY <1>3, <1>4, <1>5 DEF Whole, e

(* The step at the head, and the one that has to follow it. *)
LEMMA HeadLinked ==
    ASSUME TypeOK, Whole(todo), todo # <<>>
    PROVE  /\ todo \in Seq(RubyStep) /\ Head(todo) = todo[1] /\ Len(todo) \in Nat \ {0}
           /\ DOMAIN todo = 1 .. Len(todo)
           /\ todo[1].op \in Inner => Len(todo) > 1
           /\ Len(todo) > 1 => Linked(todo[1].op, todo[2].op)
<1>1. todo \in Seq(RubyStep) /\ Head(todo) = todo[1] /\ Len(todo) \in Nat \ {0}
      /\ DOMAIN todo = 1 .. Len(todo)
  BY TailOf, LenProperties DEF TypeOK, RubyStep
<1>2. Len(todo) = 1 => todo[1].op \notin Inner
  BY DEF Whole
<1>3. Len(todo) > 1 => 1 \in 1 .. Len(todo) - 1
  BY <1>1
<1> QED
  BY <1>1, <1>2, <1>3 DEF Whole

LEMMA WholeStep == TypeOK /\ Whole(todo) /\ Next => Whole(todo)'
<1> SUFFICES ASSUME TypeOK, Whole(todo), Next PROVE Whole(todo')
  OBVIOUS
<1>1. todo \in Seq(RubyStep)
  BY DEF TypeOK, RubyStep
<1>2. ASSUME NEW op \in Op \ {"record", "recordPost"}, At(op),
             NEW b \in Seq(RubyStep), Whole(b), todo' = b \o Tail(todo)
      PROVE  Whole(todo')
  BY <1>1, <1>2, HeadLinked, WholeCalled DEF At
<1>3. ASSUME todo # <<>>, todo' = Tail(todo) PROVE Whole(todo')
  BY <1>1, <1>3, WholeTail
<1>4. CASE Test
  <2>1. ASSUME NEW t \in Nat PROVE Whole(TraverseTo(t))
    BY BodiesWhole
  <2>2. \A d \in {-1, 1} : InRange(idx + d) => idx + d \in Nat
    BY DEF InRange, TypeOK
  <2> QED
    BY <1>4, <2>1, <2>2, BodiesWhole
    DEF Test, Visit, Submit, Refresh, RunScripts, GoBackOrForward, Call
<1>5. CASE PageScript
  BY <1>3, <1>5 DEF PageScript, PushState, ReplaceState, LocationAssign, LocationReload,
                    HistoryGo, ScriptEnds, At
<1>6. CASE ConsumeSlots
  <2>1. ASSUME NEW slot \in Slot, NEW body \in Seq(RubyStep), Whole(body), Consume(slot, body)
        PROVE  Whole(todo')
    <3>1. CASE intents[slot] = NoIntent
      BY <1>3, <2>1, <3>1 DEF Consume, At
    <3>2. CASE intents[slot] # NoIntent
      <4>1. slot \in Op \ {"record", "recordPost"} /\ At(slot) /\ todo' = body \o Tail(todo)
        BY <2>1, <3>2 DEF Consume, Slot, Op
      <4> QED
        BY <1>2, <2>1, <4>1
    <3> QED
      BY <3>1, <3>2
  <2>2. intents["traverse"] \in Nat
    BY DEF TypeOK, Intents, Slot
  <2> QED
    BY <1>6, <2>1, <2>2, BodiesWhole, BodyTypes DEF ConsumeSlots, Slot
<1>7. CASE FlushBegins
  <2> DEFINE b == <<Do("script"), Do("flushed")>>
  <2>1. At("flush") /\ todo' = b \o Tail(todo) /\ todo # <<>>
    BY <1>7 DEF FlushBegins, At
  <2>2. Len(todo) > 1 /\ Linked("flush", todo[2].op)
    BY <2>1, HeadLinked DEF At, Inner
  <2>3. b \in Seq(RubyStep) /\ Len(b) = 2 /\ b # <<>> /\ b[1].op = "script" /\ b[2].op = "flushed"
    BY DoType DEF Op
  <2>4. Linked("flushed", todo[2].op) /\ Linked("script", "flushed")
    BY <2>2 DEF Linked
  <2> HIDE DEF b
  <2>5. /\ \A i \in 1 .. Len(b) - 1 : Linked(b[i].op, b[i + 1].op)
        /\ \A i \in 2 .. Len(b) : b[i].op = "fetch" => i < Len(b) /\ b[i + 1].op = "restore"
        /\ Linked(b[Len(b)].op, todo[2].op)
    BY <2>3, <2>4
  <2>6. Len(todo) = 1 => b[Len(b)].op \notin Inner
    BY <2>2
  <2> QED
    BY <1>1, <2>1, <2>3, <2>5, <2>6, WholeInFront
<1>8. CASE FlushNothing \/ FlushEnds \/ RecordEntry \/ MoveIndex \/ RestoreForm \/ RestoreNothing
           \/ RestoreEnds
  BY <1>3, <1>8 DEF FlushNothing, FlushEnds, RecordEntry, MoveIndex, RestoreForm, RestoreNothing,
                    RestoreEnds, At
<1>9. \A op \in Op : <<Do(op)>> \in Seq(RubyStep) /\ <<Do(op), Do("restore")>> \in Seq(RubyStep)
  BY DoType DEF Op
<1>10. CASE Replay
  <2>1. PICK b \in {<<>>, <<Do("post")>>, <<Do("fetch"), Do("restore")>>} :
            todo' = b \o Tail(todo)
    BY <1>10 DEF Replay
  <2>2. b \in Seq(RubyStep) /\ Whole(b) /\ At("replay")
    BY <1>9, <1>10, BodiesWhole, EmptySeq DEF Op, Replay
  <2> QED
    BY <1>2, <2>1, <2>2 DEF Op
<1>11. CASE Commit \/ Download \/ Redirect
  <2>1. PICK b \in {<<>>, <<Do("script")>>, <<Do("putBack")>>, <<Do("redirected")>>} :
            todo' = b \o Tail(todo)
    BY <1>11 DEF Commit, Download, Redirect
  <2>2. b \in Seq(RubyStep) /\ Whole(b)
    BY <1>9, BodiesWhole, EmptySeq DEF Op
  <2>3. PICK op \in {"fetch", "post", "redirected"} : At(op)
    BY <1>11 DEF Commit, Download, Redirect, Requests, OfPost
  <2>4. op \in Op \ {"record", "recordPost"}
    BY DEF Op
  <2> QED
    BY <1>2, <2>1, <2>2, <2>3, <2>4
<1>12. CASE Raise
  BY <1>12, EnsuredWhole DEF Raise
<1>13. CASE RestoreIntents
  <2>1. Drain \o <<Do("restored")>> \in Seq(RubyStep)
    BY <1>9, BodyTypes, ConcatProperties DEF Op
  <2>2. PICK op \in {"restore", "putBack"} : At(op)
    BY <1>13 DEF RestoreIntents
  <2>3. todo' = (Drain \o <<Do("restored")>>) \o Tail(todo)
    BY <1>13 DEF RestoreIntents
  <2>4. op \in Op \ {"record", "recordPost"}
    BY DEF Op
  <2> QED
    BY <1>2, <2>1, <2>2, <2>3, <2>4, BodiesWhole
<1> QED
  BY <1>4, <1>5, <1>6, <1>7, <1>8, <1>10, <1>11, <1>12, <1>13 DEF Next, Navigation

(* The head of what is left after a step, and the steps that stay in it.    *)
LEMMA HeadAfter ==
    ASSUME TypeOK, Whole(todo), todo # <<>>
    PROVE  /\ todo' = Tail(todo) => /\ ~At("record") => ~At("fetch")'
                                    /\ ~At("recordPost") => ~At("post")'
                                    /\ ~At("redirected")'
           /\ \A b \in Seq(RubyStep) :
                 b # <<>> /\ todo' = b \o Tail(todo) => \A op : At(op)' <=> b[1].op = op
<1>1. todo \in Seq(RubyStep)
  BY DEF TypeOK, RubyStep
<1>2. ASSUME todo' = Tail(todo)
      PROVE  /\ ~At("record") => ~At("fetch")'
             /\ ~At("recordPost") => ~At("post")'
             /\ ~At("redirected")'
  <2>1. todo' # <<>> => /\ Len(todo) > 1 /\ todo'[1] = todo[2] /\ Head(todo') = todo'[1]
    <3>1. todo' \in Seq(RubyStep) /\ Len(todo') = Len(todo) - 1
          /\ \A i \in 1 .. Len(todo) - 1 : todo'[i] = todo[i + 1]
      BY <1>1, <1>2, TailOf
    <3>2. todo' # <<>> => Len(todo') \in Nat \ {0} /\ Head(todo') = todo'[1]
      BY <3>1, TailOf
    <3> QED
      BY <3>1, <3>2
  <2> QED
    BY <2>1, HeadLinked DEF At, Linked
<1>3. ASSUME NEW b \in Seq(RubyStep), b # <<>>, todo' = b \o Tail(todo)
      PROVE  \A op : At(op)' <=> b[1].op = op
  <2>1. todo' \in Seq(RubyStep) /\ todo'[1] = b[1] /\ todo' # <<>>
    BY <1>1, <1>3, InFront, EmptySeq, TailOf
  <2> QED
    BY <2>1, TailOf DEF At
<1> QED
  BY <1>2, <1>3

LEMMA UnderKept ==
    ASSUME TypeOK, todo # <<>>, NEW op, Under(op), ~At(op)
    PROVE  /\ todo' = Tail(todo) => Under(op)'
           /\ \A b \in Seq(RubyStep) : todo' = b \o Tail(todo) => Under(op)'
<1>1. todo \in Seq(RubyStep) /\ DOMAIN todo = 1 .. Len(todo) /\ Head(todo) = todo[1]
  BY LenProperties, TailOf DEF TypeOK, RubyStep
<1>2. PICK i \in 2 .. Len(todo) : todo[i].op = op
  <2>1. PICK i \in 1 .. Len(todo) : todo[i].op = op
    BY <1>1 DEF Under
  <2>2. i # 1
    BY <1>1, <2>1 DEF At
  <2> QED
    BY <2>1, <2>2
<1>3. ASSUME NEW b \in Seq(RubyStep), todo' = b \o Tail(todo) PROVE Under(op)'
  <2>1. /\ todo' \in Seq(RubyStep) /\ Len(todo') = Len(b) + Len(todo) - 1
        /\ \A j \in 2 .. Len(todo) : todo'[Len(b) + j - 1] = todo[j]
    BY <1>1, <1>3, InFront
  <2>2. Len(b) + i - 1 \in DOMAIN todo'
    BY <1>1, <2>1, LenProperties
  <2> QED
    BY <1>2, <2>1, <2>2 DEF Under
<1>4. ASSUME todo' = Tail(todo) PROVE Under(op)'
  BY <1>1, <1>3, <1>4, EmptySeq, ConcatEmptySeq, TailOf
<1> QED
  BY <1>3, <1>4

LEMMA UnderFront ==
    ASSUME TypeOK, todo # <<>>, NEW b \in Seq(RubyStep), todo' = b \o Tail(todo),
           NEW i \in 1 .. Len(b)
    PROVE  Under(b[i].op)'
<1>1. todo \in Seq(RubyStep) /\ Len(todo) \in Nat \ {0} /\ Len(b) \in Nat
  BY LenProperties, EmptySeq DEF TypeOK, RubyStep
<1>2. todo' \in Seq(RubyStep) /\ Len(todo') = Len(b) + Len(todo) - 1 /\ todo'[i] = b[i]
  BY <1>1, InFront
<1>3. i \in DOMAIN todo'
  BY <1>1, <1>2, LenProperties
<1> QED
  BY <1>2, <1>3 DEF Under

----------------------------------------------------------------------------
(* A request is made for an entry; a form's, and the one a form's is        *)
(* redirected to, have no `ensure` after them.                              *)
RequestOfEntry ==
    /\ Requests => idx \in DOMAIN history
    /\ At("fetch") => Len(todo) > 1 /\ todo[2].op = "restore"

(* What `record_history` leaves: the new entry is the last. *)
LEMMA RecordEntryDoes ==
    ASSUME TypeOK, RecordEntry
    PROVE  LET n == IF idx < Len(history) THEN idx ELSE Len(history) IN
           /\ n \in 0 .. Len(history)
           /\ idx' = n + 1 /\ DOMAIN history' = 1 .. n + 1 /\ DOMAIN history = 1 .. Len(history)
           /\ \A i \in 1 .. n : /\ history'[i].doc = history[i].doc
                                /\ history'[i].kind = history[i].kind
                                /\ history'[i].form = IF i = idx THEN doc ELSE history[i].form
           /\ history'[n + 1] = [doc |-> FreshDoc, kind |-> RecordedKind, state |-> NoState,
                                 form |-> NoForm]
<1> DEFINE n == IF idx < Len(history) THEN idx ELSE Len(history)
           e == [doc |-> FreshDoc, kind |-> RecordedKind, state |-> NoState, form |-> NoForm]
<1>1. e \in Entry
  BY FreshDocType DEF Entry, RecordedKind
<1>2. /\ Captured(history) \in Seq(Entry) /\ Len(Captured(history)) = Len(history)
      /\ \A i \in DOMAIN history :
            /\ Captured(history)[i].doc = history[i].doc
            /\ Captured(history)[i].kind = history[i].kind
            /\ Captured(history)[i].form = IF i = idx THEN doc ELSE history[i].form
  BY CapturedType
<1>3. history' = Recorded(Captured(history), e) /\ idx' = Len(history')
  BY DEF RecordEntry
<1>4. idx \in Nat /\ Len(history) \in Nat /\ DOMAIN history = 1 .. Len(history)
  BY LenProperties DEF TypeOK
<1> DEFINE h == Captured(history)
<1> HIDE DEF e, h
<1>5. /\ history' \in Seq(Entry) /\ Len(history') = n + 1
      /\ \A i \in 1 .. n : history'[i] = Captured(history)[i]
      /\ history'[n + 1] = e
  <2>1. h \in Seq(Entry) /\ history' = Recorded(h, e)
        /\ n = IF idx < Len(h) THEN idx ELSE Len(h)
    BY <1>2, <1>3 DEF h
  <2> HIDE DEF n
  <2>2. /\ history' \in Seq(Entry) /\ Len(history') = n + 1
        /\ \A i \in 1 .. n : history'[i] = h[i]
        /\ history'[n + 1] = e
    BY <1>1, <1>4, <2>1, RecordedType
  <2> QED
    BY <2>2 DEF h
<1>6. DOMAIN history' = 1 .. n + 1 /\ n \in 0 .. Len(history)
  BY <1>4, <1>5, LenProperties
<1>7. idx' = n + 1
  BY <1>3, <1>5
<1>8. \A i \in 1 .. n : i \in DOMAIN history
  BY <1>4, <1>6
<1> QED
  BY <1>2, <1>4, <1>5, <1>6, <1>7, <1>8 DEF e

LEMMA RequestStep ==
    TypeOK /\ Whole(todo) /\ RequestOfEntry /\ Next => RequestOfEntry'
<1> SUFFICES ASSUME TypeOK, Whole(todo), RequestOfEntry, Next PROVE RequestOfEntry'
  OBVIOUS
<1>1. todo \in Seq(RubyStep)
  BY DEF TypeOK, RubyStep
<1>2. ASSUME ~At("fetch")', ~At("post")', ~At("redirected")' PROVE RequestOfEntry'
  BY <1>2 DEF RequestOfEntry, Requests, OfPost
<1>3. ASSUME todo # <<>>, ~At("record"), ~At("recordPost"), todo' = Tail(todo)
      PROVE RequestOfEntry'
  BY <1>2, <1>3, HeadAfter
<1>4. ASSUME todo # <<>>, NEW b \in Seq(RubyStep), b # <<>>,
             b[1].op \notin {"fetch", "post", "redirected"}, todo' = b \o Tail(todo)
      PROVE RequestOfEntry'
  BY <1>2, <1>4, HeadAfter
<1>5. ASSUME NEW op \in Op
      PROVE  /\ <<Do(op)>> \in Seq(RubyStep) /\ <<Do(op)>> # <<>> /\ <<Do(op)>>[1].op = op
             /\ \A q \in Op : /\ <<Do(op), Do(q)>> \in Seq(RubyStep)
                              /\ <<Do(op), Do(q)>> # <<>> /\ <<Do(op), Do(q)>>[1].op = op
  BY DoType
<1>6. /\ \A t \in Nat : TraverseTo(t) # <<>> /\ TraverseTo(t)[1].op = "flush"
      /\ Navigate # <<>> /\ Navigate[1].op = "flush"
      /\ NavigatePost # <<>> /\ NavigatePost[1].op = "flush"
      /\ Reload # <<>> /\ Reload[1].op = "flush"
      /\ Drain # <<>> /\ Drain[1].op = "location"
  BY DEF TraverseTo, Navigate, NavigatePost, Reload, Drain, Do
<1>7. CASE Test
  <2>1. ASSUME todo' \in Seq(RubyStep), todo' # <<>>,
               todo'[1].op \notin {"fetch", "post", "redirected"}
        PROVE  RequestOfEntry'
    BY <1>2, <2>1, TailOf DEF At
  <2>2. ASSUME UNCHANGED todo, todo = <<>> PROVE RequestOfEntry'
    BY <1>2, <2>2 DEF At
  <2>3. CASE Visit \/ Submit \/ Refresh
    BY <2>1, <2>3, <1>6, BodyTypes DEF Visit, Submit, Refresh, Call
  <2>4. CASE RunScripts
    <3>1. /\ <<Do("script")>> \o Drain \in Seq(RubyStep) /\ Len(<<Do("script")>> \o Drain) = 4
          /\ (<<Do("script")>> \o Drain)[1] = Do("script")
      BY <1>5, BodyTypes, ConcatProperties DEF Op, Drain
    <3>2. <<Do("script")>> \o Drain # <<>>
      BY <3>1, EmptySeq
    <3> QED
      BY <2>1, <2>4, <3>1, <3>2 DEF RunScripts, Call, Do
  <2>5. ASSUME NEW d \in {-1, 1}, GoBackOrForward(d) PROVE RequestOfEntry'
    <3>1. idx + d \in Nat
      BY <2>5 DEF GoBackOrForward, InRange, TypeOK
    <3> QED
      BY <2>1, <2>2, <2>5, <3>1, <1>6, BodyTypes DEF GoBackOrForward, Call
  <2> QED
    BY <1>7, <2>3, <2>4, <2>5 DEF Test
<1>8. CASE PageScript
  <2>1. At("script") /\ (UNCHANGED todo \/ todo' = Tail(todo))
    BY <1>8 DEF PageScript, PushState, ReplaceState, LocationAssign, LocationReload,
                HistoryGo, ScriptEnds
  <2> QED
    BY <1>2, <1>3, <2>1 DEF At
<1>9. CASE ConsumeSlots
  <2>1. ASSUME NEW slot \in Slot, NEW body \in Seq(RubyStep), body # <<>>, body[1].op = "flush",
               Consume(slot, body)
        PROVE  RequestOfEntry'
    BY <2>1, <1>3, <1>4 DEF Consume, At, Slot
  <2>2. intents["traverse"] \in Nat
    BY DEF TypeOK, Intents, Slot
  <2> QED
    BY <1>6, <1>9, <2>1, <2>2, BodyTypes DEF ConsumeSlots, Slot
<1>10. CASE FlushNothing \/ FlushEnds \/ MoveIndex \/ RestoreForm \/ RestoreNothing \/ RestoreEnds
  BY <1>3, <1>10 DEF FlushNothing, FlushEnds, MoveIndex, RestoreForm, RestoreNothing,
                     RestoreEnds, At
<1>11. CASE FlushBegins
  <2> DEFINE b == <<Do("script"), Do("flushed")>>
  <2>1. b \in Seq(RubyStep) /\ b # <<>> /\ b[1].op = "script"
    BY <1>5 DEF Op
  <2>2. todo # <<>> /\ todo' = b \o Tail(todo)
    BY <1>11 DEF FlushBegins, At
  <2> HIDE DEF b
  <2> QED
    BY <1>4, <2>1, <2>2
<1>12. CASE RecordEntry
  <2>1. idx' \in DOMAIN history'
    BY <1>12, RecordEntryDoes
  <2>2. todo # <<>> /\ todo' = Tail(todo)
    BY <1>12 DEF RecordEntry, At
  <2>3. CASE At("record")
    <3>1. Len(todo) > 1 /\ todo[2].op = "fetch"
      BY <2>2, <2>3, HeadLinked DEF At, Inner, Linked
    <3>2. Len(todo) > 2 /\ todo[3].op = "restore"
      BY <1>1, <3>1, LenProperties DEF Whole
    <3>3. Len(todo') > 1 /\ todo'[2].op = "restore"
      BY <1>1, <2>2, <3>2, TailOf
    <3> QED
      BY <2>1, <3>3 DEF RequestOfEntry, Requests
  <2>4. CASE ~At("record")
    <3>1. ~At("fetch")'
      BY <2>2, <2>4, HeadAfter
    <3> QED
      BY <2>1, <3>1 DEF RequestOfEntry, Requests
  <2> QED
    BY <2>3, <2>4
<1>13. CASE Replay
  <2>1. todo # <<>> /\ ~At("record") /\ ~At("recordPost")
    BY <1>13 DEF Replay, At
  <2>2. CASE idx \notin DOMAIN history
    <3>1. todo' = Tail(todo)
      BY <1>1, <1>13, <2>1, <2>2, ConcatEmptySeq, TailOf DEF Replay
    <3> QED
      BY <1>3, <2>1, <3>1
  <2>3. CASE idx \in DOMAIN history /\ history[idx].kind = "post"
    <3> DEFINE b == <<Do("post")>>
    <3>1. todo' = b \o Tail(todo) /\ UNCHANGED <<history, idx>>
      BY <1>13, <2>3 DEF Replay
    <3>2. b \in Seq(RubyStep) /\ b # <<>> /\ b[1].op = "post"
      BY <1>5 DEF Op
    <3> HIDE DEF b
    <3>3. At("fetch")' <=> b[1].op = "fetch"
      BY <2>1, <3>1, <3>2, HeadAfter
    <3>4. ~At("fetch")'
      BY <3>2, <3>3
    <3> QED
      BY <2>3, <3>1, <3>4 DEF RequestOfEntry, Requests
  <2>4. CASE idx \in DOMAIN history /\ history[idx].kind # "post"
    <3> DEFINE b == <<Do("fetch"), Do("restore")>>
    <3>1. todo' = b \o Tail(todo) /\ UNCHANGED <<history, idx>>
      BY <1>13, <2>4 DEF Replay
    <3>2. b \in Seq(RubyStep) /\ b # <<>> /\ Len(b) = 2 /\ b[1].op = "fetch" /\ b[2].op = "restore"
      BY DoType DEF Op
    <3> HIDE DEF b
    <3>3. Len(todo') > 1 /\ todo'[2].op = "restore"
      <4>1. /\ Len(todo') = 2 + Len(todo) - 1 /\ Len(todo) \in Nat \ {0}
            /\ \A i \in 1 .. Len(b) : todo'[i] = b[i]
        <5> DEFINE r == b \o Tail(todo)
        <5>0. b \in Seq(RubyStep) /\ todo # <<>>
          BY <2>1, <3>2
        <5>1. Len(r) = Len(b) + Len(todo) - 1 /\ \A i \in 1 .. Len(b) : r[i] = b[i]
          BY <1>1, <5>0, InFront
        <5> QED
          BY <1>1, <2>1, <3>1, <3>2, <5>1, EmptySeq
      <4> QED
        BY <3>2, <4>1
    <3> QED
      BY <2>4, <3>1, <3>3 DEF RequestOfEntry, Requests
  <2> QED
    BY <2>2, <2>3, <2>4
<1>14. CASE Commit
  <2>1. /\ <<Do("script")>> \in Seq(RubyStep) /\ <<Do("script")>> # <<>>
        /\ <<Do("script")>>[1].op = "script"
    BY <1>5 DEF Op
  <2>2. todo # <<>> /\ todo' = <<Do("script")>> \o Tail(todo)
    BY <1>14 DEF Commit, Requests, OfPost, At
  <2> QED
    BY <1>4, <2>1, <2>2
<1>15. CASE Download
  <2>1. todo # <<>> /\ ~At("record") /\ ~At("recordPost")
    BY <1>15 DEF Download, Requests, OfPost, At
  <2>2. CASE At("post")
    <3>1. /\ <<Do("putBack")>> \in Seq(RubyStep) /\ <<Do("putBack")>> # <<>>
          /\ <<Do("putBack")>>[1].op = "putBack"
      BY <1>5 DEF Op
    <3>2. todo' = <<Do("putBack")>> \o Tail(todo)
      BY <1>15, <2>2 DEF Download
    <3> QED
      BY <1>4, <2>1, <3>1, <3>2
  <2>3. CASE ~At("post")
    BY <1>1, <1>3, <1>15, <2>1, <2>3, ConcatEmptySeq, TailOf DEF Download
  <2> QED
    BY <2>2, <2>3
<1>16. CASE Redirect
  <2>1. todo # <<>> /\ todo' = <<Do("redirected")>> \o Tail(todo) /\ UNCHANGED <<history, idx>>
        /\ idx \in DOMAIN history
    BY <1>16 DEF Redirect, RequestOfEntry, Requests, OfPost, At
  <2>2. /\ <<Do("redirected")>> \in Seq(RubyStep) /\ <<Do("redirected")>> # <<>>
        /\ <<Do("redirected")>>[1].op = "redirected"
    BY <1>5 DEF Op
  <2> DEFINE b == <<Do("redirected")>>
  <2>3. b \in Seq(RubyStep) /\ b # <<>> /\ b[1].op = "redirected" /\ todo' = b \o Tail(todo)
    BY <2>1, <2>2
  <2> HIDE DEF b
  <2>4. At("fetch")' <=> b[1].op = "fetch"
    BY <2>1, <2>3, HeadAfter
  <2> QED
    BY <2>1, <2>3, <2>4 DEF RequestOfEntry, Requests
<1>17. CASE Raise
  <2>1. todo' \in Seq(RubyStep) /\ \A i \in DOMAIN todo' : todo'[i].op \in {"restore", "restored"}
    BY <1>17, EnsuredSteps DEF Raise
  <2>2. todo' # <<>> => 1 \in DOMAIN todo' /\ Head(todo') = todo'[1]
    BY <2>1, TailOf, LenProperties
  <2> QED
    BY <1>2, <2>1, <2>2 DEF At
<1>18. CASE RestoreIntents
  <2> DEFINE b == Drain \o <<Do("restored")>>
  <2>1. b \in Seq(RubyStep) /\ Len(b) = 4 /\ b[1] = Do("location")
    BY <1>5, BodyTypes, ConcatProperties DEF Op, Drain
  <2>2. b # <<>> /\ b[1].op = "location"
    BY <2>1, EmptySeq DEF Do
  <2>3. todo # <<>> /\ todo' = b \o Tail(todo)
    BY <1>18 DEF RestoreIntents, At
  <2> HIDE DEF b
  <2> QED
    BY <1>4, <2>1, <2>2, <2>3
<1> QED
  BY <1>7, <1>8, <1>9, <1>10, <1>11, <1>12, <1>13, <1>14, <1>15, <1>16, <1>17, <1>18
  DEF Next, Navigation

----------------------------------------------------------------------------
(* The flags of a flush and of a restore are up only while the step that    *)
(* takes them down is still to come, and a flush runs nothing but scripts.  *)
FlagsInv ==
    /\ \A i \in DOMAIN todo :
           todo[i].op = "flushed" => i = 1 \/ (i = 2 /\ todo[1].op = "script")
    /\ saved # Nothing \/ flushing => Under("flushed")
    /\ restoring => Under("restored")

(* The bodies have no step that ends a flush or a restore. *)
LEMMA BodyOps ==
    /\ \A i \in 1 .. Len(Drain) : Drain[i].op \notin {"flushed", "restored"}
    /\ \A i \in 1 .. Len(Navigate) : Navigate[i].op \notin {"flushed", "restored"}
    /\ \A i \in 1 .. Len(NavigatePost) : NavigatePost[i].op \notin {"flushed", "restored"}
    /\ \A i \in 1 .. Len(Reload) : Reload[i].op \notin {"flushed", "restored"}
    /\ \A t \in Nat : \A i \in 1 .. Len(TraverseTo(t)) :
           TraverseTo(t)[i].op \notin {"flushed", "restored"}
BY DEF Drain, Navigate, NavigatePost, Reload, TraverseTo, Do

(* Outside a script, only the head may end a flush. *)
LEMMA FlushedOnlyOnTop ==
    ASSUME TypeOK, FlagsInv, todo # <<>>, ~At("script"), NEW b \in Seq(RubyStep),
           \A i \in 1 .. Len(b) : b[i].op # "flushed", todo' = b \o Tail(todo)
    PROVE  \A i \in DOMAIN todo' : todo'[i].op # "flushed"
<1>1. todo \in Seq(RubyStep) /\ DOMAIN todo = 1 .. Len(todo) /\ Head(todo) = todo[1]
      /\ Len(todo) \in Nat
  BY LenProperties, TailOf DEF TypeOK, RubyStep
<1>2. todo[1].op # "script"
  BY <1>1 DEF At
<1>3. \A i \in 2 .. Len(todo) : todo[i].op # "flushed"
  BY <1>1, <1>2 DEF FlagsInv
<1>4. /\ todo' \in Seq(RubyStep) /\ Len(todo') = Len(b) + Len(todo) - 1
      /\ \A i \in 1 .. Len(b) : todo'[i] = b[i]
      /\ \A i \in 2 .. Len(todo) : todo'[Len(b) + i - 1] = todo[i]
  BY <1>1, InFront
<1>5. Len(b) \in Nat /\ DOMAIN todo' = 1 .. Len(todo')
  BY <1>4, LenProperties
<1>6. ASSUME NEW i \in DOMAIN todo' PROVE todo'[i].op # "flushed"
  <2>1. CASE i <= Len(b)
    BY <1>4, <1>5, <2>1
  <2>2. CASE i > Len(b)
    <3>1. i - Len(b) + 1 \in 2 .. Len(todo)
      BY <1>1, <1>4, <1>5, <1>6, <2>2
    <3>2. todo'[i] = todo[i - Len(b) + 1]
      BY <1>1, <1>4, <1>5, <1>6, <3>1
    <3> QED
      BY <1>3, <3>1, <3>2
  <2> QED
    BY <1>5, <2>1, <2>2
<1> QED
  BY <1>6

(* A step that puts a body in front and leaves the flags alone. *)
LEMMA FlagsKept ==
    ASSUME TypeOK, FlagsInv, todo # <<>>, ~At("script"), ~At("flushed"), ~At("restored"),
           NEW b \in Seq(RubyStep), \A i \in 1 .. Len(b) : b[i].op # "flushed",
           todo' = b \o Tail(todo), UNCHANGED <<saved, flushing, restoring>>
    PROVE  FlagsInv'
<1>1. \A i \in DOMAIN todo' : todo'[i].op # "flushed"
  BY FlushedOnlyOnTop
<1>2. Under("flushed") => Under("flushed")'
  BY UnderKept
<1>3. Under("restored") => Under("restored")'
  BY UnderKept
<1> QED
  BY <1>1, <1>2, <1>3 DEF FlagsInv

(* The same for a step that is only done. *)
LEMMA TailInFront ==
    ASSUME TypeOK, todo # <<>>
    PROVE  <<>> \in Seq(RubyStep) /\ Len(<<>>) = 0 /\ Tail(todo) = <<>> \o Tail(todo)
<1>1. Tail(todo) \in Seq(RubyStep)
  BY TailOf DEF TypeOK, RubyStep
<1> QED
  BY <1>1, ConcatEmptySeq, EmptySeq

LEMMA FlagsDone ==
    ASSUME TypeOK, FlagsInv, todo # <<>>, ~At("script"), ~At("flushed"), ~At("restored"),
           todo' = Tail(todo), UNCHANGED <<saved, flushing, restoring>>
    PROVE  FlagsInv'
<1>1. \A i \in 1 .. Len(<<>>) : <<>>[i].op # "flushed"
  BY EmptySeq
<1>2. <<>> \in Seq(RubyStep) /\ todo' = <<>> \o Tail(todo)
  BY TailInFront
<1> QED
  BY <1>1, <1>2, FlagsKept

LEMMA FlagsStep == TypeOK /\ FlagsInv /\ Next => FlagsInv'
<1> SUFFICES ASSUME TypeOK, FlagsInv, Next PROVE FlagsInv'
  OBVIOUS
<1> USE DEF slotVars
<1>1. todo \in Seq(RubyStep)
  BY DEF TypeOK, RubyStep
<1>2. CASE Test
  <2>1. todo = <<>>
    BY <1>2 DEF Test, Visit, Submit, Refresh, RunScripts, GoBackOrForward, Call
  <2>2. ~Under("flushed") /\ ~Under("restored")
    BY <2>1 DEF Under
  <2>3. saved = Nothing /\ ~flushing /\ ~restoring
    BY <2>2 DEF FlagsInv
  <2>4. UNCHANGED <<saved, flushing, restoring>>
    BY <1>2 DEF Test, Visit, Submit, Refresh, RunScripts, GoBackOrForward, Call, MoveInDocument
  <2>5. \A i \in DOMAIN todo' : todo'[i].op # "flushed"
    <3>1. ASSUME NEW b \in Seq(RubyStep), todo' = b,
                 \A i \in 1 .. Len(b) : b[i].op \notin {"flushed", "restored"}
          PROVE  \A i \in DOMAIN todo' : todo'[i].op # "flushed"
      BY <3>1, LenProperties
    <3>2. CASE Visit \/ Submit \/ Refresh
      BY <3>1, <3>2, BodyOps, BodyTypes DEF Visit, Submit, Refresh, Call
    <3>3. CASE RunScripts
      <4> DEFINE p == <<Do("script")>>  b == p \o Drain
      <4>1. p \in Seq(RubyStep) /\ Len(p) = 1 /\ p[1].op = "script" /\ Drain \in Seq(RubyStep)
            /\ Len(Drain) \in Nat
        BY BodyTypes, DoType, LenProperties DEF Op
      <4> HIDE DEF p
      <4>2. b \in Seq(RubyStep) /\ Len(b) = 1 + Len(Drain)
            /\ \A i \in 1 .. Len(b) : b[i] = IF i <= 1 THEN p[i] ELSE Drain[i - 1]
        BY <4>1, ConcatProperties
      <4>3. todo' = b
        BY <3>3 DEF RunScripts, Call, p
      <4> HIDE DEF b
      <4>4. ASSUME NEW i \in 1 .. Len(b) PROVE b[i].op \notin {"flushed", "restored"}
        <5>1. CASE i = 1
          BY <4>1, <4>2, <5>1
        <5>2. CASE i > 1
          <6>1. i - 1 \in 1 .. Len(Drain) /\ b[i] = Drain[i - 1]
            BY <4>1, <4>2, <4>4, <5>2
          <6> QED
            BY <6>1, BodyOps
        <5> QED
          BY <4>1, <4>2, <5>1, <5>2
      <4> QED
        BY <3>1, <4>2, <4>3, <4>4
    <3>4. ASSUME NEW d \in {-1, 1}, GoBackOrForward(d)
          PROVE  \A i \in DOMAIN todo' : todo'[i].op # "flushed"
      <4>1. idx + d \in Nat
        BY <3>4 DEF GoBackOrForward, InRange, TypeOK
      <4>2. CASE UNCHANGED todo
        BY <2>1, <4>2
      <4>3. CASE todo' = TraverseTo(idx + d)
        BY <3>1, <4>1, <4>3, BodyOps, BodyTypes
      <4> QED
        BY <3>4, <4>2, <4>3 DEF GoBackOrForward, Call
    <3> QED
      BY <1>2, <3>2, <3>3, <3>4 DEF Test
  <2> QED
    BY <2>3, <2>4, <2>5 DEF FlagsInv
<1>3. CASE PageScript
  <2>1. At("script") /\ UNCHANGED <<saved, flushing, restoring>>
        /\ (UNCHANGED todo \/ todo' = Tail(todo))
    BY <1>3 DEF PageScript, PushState, ReplaceState, LocationAssign, LocationReload, Stash,
                HistoryGo, ScriptEnds, MoveInDocument
  <2>2. CASE UNCHANGED todo
    BY <2>1, <2>2 DEF FlagsInv, Under
  <2>3. CASE todo' = Tail(todo)
    <3>1. todo # <<>> /\ ~At("flushed") /\ ~At("restored")
      BY <2>1 DEF At
    <3>2. (Under("flushed") => Under("flushed")') /\ (Under("restored") => Under("restored")')
      BY <2>3, <3>1, UnderKept
    <3>3. /\ todo' \in Seq(RubyStep) /\ Len(todo') = Len(todo) - 1 /\ Len(todo) \in Nat
          /\ \A i \in 1 .. Len(todo) - 1 : todo'[i] = todo[i + 1]
          /\ DOMAIN todo' = 1 .. Len(todo') /\ DOMAIN todo = 1 .. Len(todo)
      BY <1>1, <2>3, <3>1, TailOf, LenProperties
    <3>4. \A i \in DOMAIN todo' : todo'[i].op = "flushed" => i = 1
      BY <3>3 DEF FlagsInv
    <3> QED
      BY <2>1, <3>2, <3>4 DEF FlagsInv
  <2> QED
    BY <2>1, <2>2, <2>3
<1>4. CASE ConsumeSlots
  <2>1. ASSUME NEW slot \in Slot, NEW body \in Seq(RubyStep), Consume(slot, body),
               \A i \in 1 .. Len(body) : body[i].op \notin {"flushed", "restored"}
        PROVE  FlagsInv'
    <3>1. todo # <<>> /\ ~At("script") /\ ~At("flushed") /\ ~At("restored")
          /\ UNCHANGED <<saved, flushing, restoring>>
          /\ (todo' = Tail(todo) \/ todo' = body \o Tail(todo))
      BY <2>1 DEF Consume, At, Slot
    <3> QED
      BY <2>1, <3>1, FlagsKept, FlagsDone
  <2>2. intents["traverse"] \in Nat
    BY DEF TypeOK, Intents, Slot
  <2> QED
    BY <1>4, <2>1, <2>2, BodyOps, BodyTypes DEF ConsumeSlots, Slot
<1>5. CASE FlushNothing \/ RecordEntry \/ MoveIndex \/ RestoreForm \/ RestoreNothing
  <2>1. todo # <<>> /\ ~At("script") /\ ~At("flushed") /\ ~At("restored")
        /\ todo' = Tail(todo) /\ UNCHANGED <<saved, flushing, restoring>>
    BY <1>5 DEF FlushNothing, RecordEntry, MoveIndex, RestoreForm, RestoreNothing, At
  <2> QED
    BY <2>1, FlagsDone
<1>6. CASE FlushBegins
  <2> DEFINE b == <<Do("script"), Do("flushed")>>
  <2>1. b \in Seq(RubyStep) /\ Len(b) = 2 /\ b[1].op = "script" /\ b[2].op = "flushed"
    BY DoType DEF Op
  <2>2. todo # <<>> /\ todo' = b \o Tail(todo) /\ At("flush") /\ UNCHANGED restoring
    BY <1>6 DEF FlushBegins, At
  <2> HIDE DEF b
  <2>3. Head(todo) = todo[1] /\ DOMAIN todo = 1 .. Len(todo) /\ Len(todo) \in Nat
    BY <1>1, <2>2, TailOf, LenProperties
  <2>4. \A i \in 2 .. Len(todo) : todo[i].op # "flushed"
    BY <2>2, <2>3 DEF FlagsInv, At
  <2>5. /\ todo' \in Seq(RubyStep) /\ Len(todo') = Len(b) + Len(todo) - 1
        /\ \A i \in 1 .. Len(b) : todo'[i] = b[i]
        /\ \A i \in 2 .. Len(todo) : todo'[Len(b) + i - 1] = todo[i]
    <3>1. b \in Seq(RubyStep) /\ todo # <<>> /\ todo' = b \o Tail(todo)
      BY <2>1, <2>2
    <3> QED
      BY <1>1, <3>1, InFront
  <2>6. DOMAIN todo' = 1 .. Len(todo) + 1 /\ todo'[1].op = "script" /\ todo'[2].op = "flushed"
        /\ \A i \in 2 .. Len(todo) : todo'[i + 1] = todo[i]
    BY <2>1, <2>3, <2>5, LenProperties
  <2>7. ASSUME NEW i \in DOMAIN todo', todo'[i].op = "flushed" PROVE i = 2
    <3>1. i # 1
      BY <2>6, <2>7
    <3>2. CASE i > 2
      <4>1. i - 1 \in 2 .. Len(todo) /\ todo'[i - 1 + 1] = todo[i - 1]
        BY <2>3, <2>6, <2>7, <3>2
      <4> QED
        BY <2>4, <2>6, <2>7, <4>1
    <3> QED
      BY <2>6, <2>7, <3>1, <3>2
  <2>8. Under("flushed")'
    <3>1. 2 \in DOMAIN todo'
      BY <1>1, <2>2, <2>6, EmptySeq
    <3> QED
      BY <2>6, <3>1 DEF Under
  <2>9. Under("restored") => Under("restored")'
    BY <2>1, <2>2, UnderKept DEF At
  <2> QED
    BY <2>2, <2>6, <2>7, <2>8, <2>9 DEF FlagsInv
<1>7. CASE FlushEnds
  <2>1. todo # <<>> /\ todo' = Tail(todo) /\ ~At("script") /\ ~At("restored")
        /\ saved' = Nothing /\ ~flushing' /\ UNCHANGED restoring
    BY <1>7 DEF FlushEnds, At
  <2>2. <<>> \in Seq(RubyStep) /\ Len(<<>>) = 0 /\ todo' = <<>> \o Tail(todo)
    BY <2>1, TailInFront
  <2>3. \A i \in 1 .. Len(<<>>) : <<>>[i].op # "flushed"
    BY <2>2
  <2>4. \A i \in DOMAIN todo' : todo'[i].op # "flushed"
    BY <2>1, <2>2, <2>3, FlushedOnlyOnTop
  <2>5. Under("restored") => Under("restored")'
    BY <2>1, UnderKept
  <2> QED
    BY <2>1, <2>4, <2>5 DEF FlagsInv
<1>8. CASE RestoreEnds
  <2>1. todo # <<>> /\ todo' = Tail(todo) /\ ~At("script") /\ ~At("flushed")
        /\ ~restoring' /\ UNCHANGED <<saved, flushing>>
    BY <1>8 DEF RestoreEnds, At
  <2>2. <<>> \in Seq(RubyStep) /\ Len(<<>>) = 0 /\ todo' = <<>> \o Tail(todo)
    BY <2>1, TailInFront
  <2>3. \A i \in 1 .. Len(<<>>) : <<>>[i].op # "flushed"
    BY <2>2
  <2>4. \A i \in DOMAIN todo' : todo'[i].op # "flushed"
    BY <2>1, <2>2, <2>3, FlushedOnlyOnTop
  <2>5. Under("flushed") => Under("flushed")'
    BY <2>1, UnderKept
  <2> QED
    BY <2>1, <2>4, <2>5 DEF FlagsInv
<1>9. CASE Replay \/ Commit \/ Download \/ Redirect
  <2>1. PICK b \in {<<>>, <<Do("post")>>, <<Do("fetch"), Do("restore")>>, <<Do("script")>>,
                    <<Do("putBack")>>, <<Do("redirected")>>} : todo' = b \o Tail(todo)
    BY <1>9 DEF Replay, Commit, Download, Redirect
  <2>2. b \in Seq(RubyStep) /\ \A i \in 1 .. Len(b) : b[i].op # "flushed"
    <3>1. CASE b = <<>>
      BY <3>1, EmptySeq
    <3>2. ASSUME NEW op \in Op \ {"flushed"}, b = <<Do(op)>>
          PROVE  b \in Seq(RubyStep) /\ \A i \in 1 .. Len(b) : b[i].op # "flushed"
      BY <3>2, DoType
    <3>3. CASE b = <<Do("fetch"), Do("restore")>>
      BY <3>3, DoType DEF Op
    <3> QED
      BY <3>1, <3>2, <3>3 DEF Op
  <2>3. todo # <<>> /\ ~At("script") /\ ~At("flushed") /\ ~At("restored")
        /\ UNCHANGED <<saved, flushing, restoring>>
    BY <1>9 DEF Replay, Commit, Download, Strays, Redirect, Requests, OfPost, At
  <2> QED
    BY <2>1, <2>2, <2>3, FlagsKept
<1>10. CASE Raise
  <2>1. \A i \in DOMAIN todo' : todo'[i].op # "flushed"
    BY <1>10, EnsuredSteps DEF Raise
  <2>2. ~At("script") /\ ~At("flushed") /\ UNCHANGED <<saved, flushing, restoring>> /\ todo # <<>>
    BY <1>10 DEF Raise, Strays, Requests, OfPost, At
  <2>3. ~Under("flushed")
    <3>1. Head(todo) = todo[1] /\ DOMAIN todo = 1 .. Len(todo)
      BY <1>1, <2>2, TailOf, LenProperties
    <3> QED
      BY <2>2, <3>1 DEF FlagsInv, Under, At
  <2>4. ASSUME Under("restored") PROVE Under("restored")'
    <3> DEFINE a == Kept("restore")  b == <<Do("restored")>>
    <3>1. a \in Seq(RubyStep) /\ b \in Seq(RubyStep) /\ Len(b) = 1 /\ b[1].op = "restored"
      BY DoType, EmptySeq DEF Kept, Op
    <3>2. todo' = a \o b
      BY <1>10, <2>4 DEF Raise, Ensured, Kept
    <3> HIDE DEF a, b
    <3>0. a \in Seq(RubyStep) /\ b \in Seq(RubyStep)
      BY <3>1
    <3>5. /\ todo' \in Seq(RubyStep) /\ Len(todo') = Len(a) + Len(b) /\ Len(a) \in Nat
          /\ \A i \in 1 .. Len(a) + Len(b) :
                 todo'[i] = IF i <= Len(a) THEN a[i] ELSE b[i - Len(a)]
      BY <3>0, <3>2, ConcatProperties, LenProperties
    <3>3. todo' \in Seq(RubyStep) /\ Len(todo') = Len(a) + 1 /\ Len(a) \in Nat
          /\ todo'[Len(a) + 1] = b[1]
      BY <3>1, <3>5
    <3>4. Len(a) + 1 \in DOMAIN todo'
      BY <3>3, LenProperties
    <3> QED
      BY <3>1, <3>3, <3>4 DEF Under
  <2> QED
    BY <2>1, <2>2, <2>3, <2>4 DEF FlagsInv
<1>11. CASE RestoreIntents
  <2> DEFINE q == <<Do("restored")>>  b == Drain \o q
  <2>1. q \in Seq(RubyStep) /\ Len(q) = 1 /\ q[1].op = "restored" /\ Drain \in Seq(RubyStep)
        /\ Len(Drain) = 3
    BY BodyTypes, DoType DEF Op, Drain
  <2>2. todo # <<>> /\ ~At("script") /\ ~At("flushed")
        /\ todo' = b \o Tail(todo) /\ UNCHANGED <<saved, flushing>>
    BY <1>11 DEF RestoreIntents, At
  <2> HIDE DEF q
  <2>3. b \in Seq(RubyStep) /\ Len(b) = 4
        /\ \A i \in 1 .. 4 : b[i] = IF i <= 3 THEN Drain[i] ELSE q[i - 3]
    <3>1. q \in Seq(RubyStep) /\ Drain \in Seq(RubyStep)
      BY <2>1
    <3>2. /\ b \in Seq(RubyStep) /\ Len(b) = Len(Drain) + Len(q)
          /\ \A i \in 1 .. Len(Drain) + Len(q) :
                b[i] = IF i <= Len(Drain) THEN Drain[i] ELSE q[i - Len(Drain)]
      BY <3>1, ConcatProperties
    <3> QED
      BY <2>1, <3>2
  <2> HIDE DEF b
  <2>4. b[4].op = "restored" /\ \A i \in 1 .. Len(b) : b[i].op # "flushed"
    BY <2>1, <2>3, BodyOps
  <2>5. \A i \in DOMAIN todo' : todo'[i].op # "flushed"
    BY <2>2, <2>3, <2>4, FlushedOnlyOnTop
  <2>6. Under("flushed") => Under("flushed")'
    BY <2>2, <2>3, UnderKept
  <2>7. Under(b[4].op)'
    <3>1. 4 \in 1 .. Len(b) /\ b \in Seq(RubyStep)
      BY <2>3
    <3> QED
      BY <2>2, <3>1, UnderFront
  <2> QED
    BY <2>2, <2>4, <2>5, <2>6, <2>7 DEF FlagsInv
<1> QED
  BY <1>2, <1>3, <1>4, <1>5, <1>6, <1>7, <1>8, <1>9, <1>10, <1>11 DEF Next, Navigation

----------------------------------------------------------------------------
(* A stash is put back by a step that is still to come; or a submission is  *)
(* still to be answered, or ended without putting it back.                  *)
Pending == \E op \in {"restore", "putBack", "recordPost", "post", "redirected"} : Under(op)

StashPending == flushed # Nothing => Pending \/ unreturned

LEMMA PendingKept ==
    ASSUME TypeOK, todo # <<>>, Pending, ~At("restore"), ~At("putBack"), ~At("recordPost"),
           ~OfPost
    PROVE  /\ todo' = Tail(todo) => Pending'
           /\ \A b \in Seq(RubyStep) : todo' = b \o Tail(todo) => Pending'
<1>1. PICK op \in {"restore", "putBack", "recordPost", "post", "redirected"} : Under(op)
  BY DEF Pending
<1>2. ~At(op)
  BY DEF OfPost
<1>3. /\ todo' = Tail(todo) => Under(op)'
      /\ \A b \in Seq(RubyStep) : todo' = b \o Tail(todo) => Under(op)'
  BY <1>1, <1>2, UnderKept
<1> QED
  BY <1>3 DEF Pending

LEMMA StashPendingStep ==
    TypeOK /\ Whole(todo) /\ RequestOfEntry /\ StashPending /\ Next => StashPending'
<1> SUFFICES ASSUME TypeOK, Whole(todo), RequestOfEntry, StashPending, Next
             PROVE  StashPending'
  OBVIOUS
<1> USE DEF slotVars
<1>1. todo \in Seq(RubyStep)
  BY DEF TypeOK, RubyStep
<1>2. ASSUME NEW b \in Seq(RubyStep), todo # <<>>, todo' = b \o Tail(todo),
             NEW i \in 1 .. Len(b),
             b[i].op \in {"restore", "putBack", "recordPost", "post", "redirected"}
      PROVE  StashPending'
  <2>1. Under(b[i].op)'
    BY <1>2, UnderFront
  <2> QED
    BY <1>2, <2>1 DEF StashPending, Pending
<1>3. ASSUME todo # <<>>, ~At("restore"), ~At("putBack"), ~At("recordPost"), ~OfPost,
             UNCHANGED <<flushed, unreturned>>,
             todo' = Tail(todo) \/ \E b \in Seq(RubyStep) : todo' = b \o Tail(todo)
      PROVE  StashPending'
  BY <1>3, PendingKept DEF StashPending
<1>4. CASE Test
  <2>1. todo = <<>> /\ UNCHANGED <<flushed, unreturned>>
    BY <1>4 DEF Test, Visit, Submit, Refresh, RunScripts, GoBackOrForward, Call, MoveInDocument
  <2>2. ~Pending
    BY <2>1 DEF Pending, Under
  <2> QED
    BY <2>1, <2>2 DEF StashPending
<1>5. CASE PageScript
  <2>1. /\ At("script") /\ UNCHANGED <<flushed, unreturned>>
        /\ UNCHANGED todo \/ todo' = Tail(todo)
    BY <1>5 DEF PageScript, PushState, ReplaceState, LocationAssign, LocationReload, Stash,
                HistoryGo, ScriptEnds, MoveInDocument
  <2>2. CASE UNCHANGED todo
    BY <2>1, <2>2 DEF StashPending, Pending, Under
  <2>3. CASE todo' = Tail(todo)
    BY <1>3, <2>1, <2>3 DEF At, OfPost
  <2> QED
    BY <2>1, <2>2, <2>3
<1>6. CASE ConsumeSlots
  <2>1. ASSUME NEW slot \in Slot, NEW body \in Seq(RubyStep), Consume(slot, body)
        PROVE  StashPending'
    <3>1. /\ todo # <<>> /\ ~At("restore") /\ ~At("putBack") /\ ~At("recordPost") /\ ~OfPost
          /\ UNCHANGED <<flushed, unreturned>>
          /\ (todo' = Tail(todo) \/ todo' = body \o Tail(todo))
      BY <2>1 DEF Consume, At, OfPost, Slot
    <3> QED
      BY <1>3, <2>1, <3>1
  <2>2. intents["traverse"] \in Nat
    BY DEF TypeOK, Intents, Slot
  <2> QED
    BY <1>6, <2>1, <2>2, BodyTypes DEF ConsumeSlots, Slot
<1>7. CASE FlushNothing \/ RestoreForm \/ RestoreEnds
  <2>1. /\ todo # <<>> /\ ~At("restore") /\ ~At("putBack") /\ ~At("recordPost") /\ ~OfPost
        /\ UNCHANGED <<flushed, unreturned>> /\ todo' = Tail(todo)
    BY <1>7 DEF FlushNothing, RestoreForm, RestoreEnds, At, OfPost
  <2> QED
    BY <1>3, <2>1
<1>8. CASE FlushBegins \/ Replay
  <2>1. PICK b \in {<<>>, <<Do("post")>>, <<Do("fetch"), Do("restore")>>,
                    <<Do("script"), Do("flushed")>>} : todo' = b \o Tail(todo)
    BY <1>8 DEF FlushBegins, Replay
  <2>2. b \in Seq(RubyStep)
    <3>1. {"post", "fetch", "restore", "script", "flushed"} \subseteq Op
      BY DEF Op
    <3>2. \A op, q \in Op : <<Do(op)>> \in Seq(RubyStep) /\ <<Do(op), Do(q)>> \in Seq(RubyStep)
      BY DoType
    <3> QED
      BY <3>1, <3>2, EmptySeq
  <2>3. /\ todo # <<>> /\ ~At("restore") /\ ~At("putBack") /\ ~At("recordPost") /\ ~OfPost
        /\ UNCHANGED <<flushed, unreturned>>
    BY <1>8 DEF FlushBegins, Replay, At, OfPost
  <2> QED
    BY <1>3, <2>1, <2>2, <2>3
<1>9. ASSUME NEW i \in 2 .. Len(todo),
             todo[i].op \in {"restore", "putBack", "recordPost", "post"}, todo # <<>>, todo' = Tail(todo)
      PROVE  Pending'
  <2>1. /\ todo' \in Seq(RubyStep) /\ Len(todo') = Len(todo) - 1 /\ Len(todo) \in Nat
        /\ \A j \in 1 .. Len(todo) - 1 : todo'[j] = todo[j + 1]
    BY <1>1, <1>9, TailOf
  <2>2. i - 1 \in DOMAIN todo' /\ todo'[i - 1] = todo[i]
    BY <2>1, LenProperties
  <2> QED
    BY <1>9, <2>2 DEF Pending, Under
<1>10. /\ \A i \in 1 .. Len(todo) - 1 : Linked(todo[i].op, todo[i + 1].op)
       /\ \A i \in 2 .. Len(todo) : todo[i].op \in Inner \cup {"fetch"} => i < Len(todo)
       /\ \A i \in 2 .. Len(todo) : todo[i].op = "fetch" => todo[i + 1].op = "restore"
       /\ Len(todo) \in Nat
  <2>1. Len(todo) \in Nat
    BY <1>1, LenProperties
  <2>2. ASSUME NEW i \in 2 .. Len(todo), todo[i].op \in Inner PROVE i < Len(todo)
    <3>1. todo # <<>> /\ i # Len(todo)
      BY <2>1, <2>2, EmptySeq DEF Whole
    <3> QED
      BY <2>1, <2>2, <3>1
  <2> QED
    BY <2>1, <2>2 DEF Whole
<1>11. ASSUME NEW i \in 2 .. Len(todo), todo[i].op \in {"replay", "restoreForm"}
       PROVE  \E j \in 2 .. Len(todo) : todo[j].op = "putBack"
  <2>1. ASSUME NEW k \in 2 .. Len(todo), todo[k].op = "restoreForm"
        PROVE  \E j \in 2 .. Len(todo) : todo[j].op = "putBack"
    <3>1. k < Len(todo) /\ Linked(todo[k].op, todo[k + 1].op)
      BY <1>10, <2>1 DEF Inner
    <3>2. k + 1 \in 2 .. Len(todo) /\ todo[k + 1].op = "putBack"
      BY <1>10, <2>1, <3>1 DEF Linked
    <3> QED
      BY <3>2
  <2>2. CASE todo[i].op = "replay"
    <3>1. i < Len(todo) /\ Linked(todo[i].op, todo[i + 1].op)
      BY <1>10, <2>2 DEF Inner
    <3>2. i + 1 \in 2 .. Len(todo) /\ todo[i + 1].op \in {"restoreForm", "putBack"}
      BY <1>10, <2>2, <3>1 DEF Linked
    <3> QED
      BY <2>1, <3>2
  <2> QED
    BY <1>11, <2>1, <2>2
<1>12. CASE MoveIndex
  <2>1. todo # <<>> /\ todo' = Tail(todo) /\ todo[1].op = "move"
    BY <1>12, HeadLinked DEF MoveIndex, At
  <2>2. Len(todo) > 1 /\ Linked(todo[1].op, todo[2].op)
    BY <2>1, HeadLinked DEF Inner
  <2>3. 2 \in 2 .. Len(todo) /\ todo[2].op = "replay"
    BY <1>10, <2>1, <2>2 DEF Linked
  <2>4. PICK j \in 2 .. Len(todo) : todo[j].op = "putBack"
    BY <1>11, <2>3
  <2> QED
    BY <1>9, <2>1, <2>4 DEF StashPending
<1>13. CASE FlushEnds
  <2>1. todo # <<>> /\ todo' = Tail(todo) /\ todo[1].op = "flushed"
    BY <1>13, HeadLinked DEF FlushEnds, At
  <2>2. Len(todo) > 1 /\ Linked(todo[1].op, todo[2].op)
    BY <2>1, HeadLinked DEF Inner
  <2>3. 2 \in 2 .. Len(todo) /\ todo[2].op \in {"record", "recordPost", "move", "replay"}
    BY <1>10, <2>1, <2>2 DEF Linked
  <2>4. \E j \in 2 .. Len(todo) : todo[j].op \in {"restore", "putBack", "recordPost"}
    <3>1. CASE todo[2].op = "record"
      <4>1. 2 < Len(todo) /\ Linked(todo[2].op, todo[3].op)
        BY <1>10, <2>3, <3>1 DEF Inner
      <4>2. 3 \in 2 .. Len(todo) /\ todo[3].op = "fetch"
        BY <1>10, <3>1, <4>1 DEF Linked
      <4>3. 3 < Len(todo) /\ todo[4].op = "restore"
        BY <1>10, <4>2
      <4>4. 4 \in 2 .. Len(todo)
        BY <1>10, <4>3
      <4> QED
        BY <4>3, <4>4
    <3>2. CASE todo[2].op = "recordPost"
      BY <2>3, <3>2
    <3>3. CASE todo[2].op = "move"
      <4>1. 2 < Len(todo) /\ Linked(todo[2].op, todo[3].op)
        <5>1. todo[2].op \in Inner /\ todo[2].op \notin {"fetch"}
          BY <3>3 DEF Inner
        <5>2. 2 < Len(todo) /\ 2 \in 1 .. Len(todo) - 1
          BY <1>10, <2>3, <5>1
        <5> QED
          BY <1>10, <5>2
      <4>2. 3 \in 2 .. Len(todo) /\ todo[3].op = "replay"
        BY <1>10, <3>3, <4>1 DEF Linked
      <4> QED
        BY <1>11, <4>2
    <3>4. CASE todo[2].op = "replay"
      BY <1>11, <2>3, <3>4
    <3> QED
      BY <2>3, <3>1, <3>2, <3>3, <3>4
  <2> QED
    BY <1>9, <2>1, <2>4 DEF StashPending
<1>14. CASE RecordEntry
  <2>1. todo # <<>> /\ todo' = Tail(todo) /\ UNCHANGED <<flushed, unreturned>>
    BY <1>14 DEF RecordEntry, At
  <2>2. CASE At("record")
    BY <1>3, <2>1, <2>2 DEF At, OfPost
  <2>3. CASE At("recordPost")
    <3>1. Len(todo) > 1 /\ todo[2].op = "post"
      BY <2>1, <2>3, HeadLinked DEF At, Inner, Linked
    <3>2. 2 \in 2 .. Len(todo)
      BY <1>10, <3>1
    <3> QED
      BY <1>9, <2>1, <3>1, <3>2 DEF StashPending
  <2> QED
    BY <1>14, <2>2, <2>3 DEF RecordEntry
<1>15. CASE Commit \/ RestoreNothing \/ RestoreIntents
  BY <1>15 DEF Commit, RestoreNothing, RestoreIntents, Stashed, StashPending
<1>16. \A op \in Op : /\ <<Do(op)>> \in Seq(RubyStep) /\ 1 \in 1 .. Len(<<Do(op)>>)
                       /\ <<Do(op)>>[1].op = op
  BY DoType
<1>17. CASE Redirect
  <2>1. todo # <<>> /\ todo' = <<Do("redirected")>> \o Tail(todo)
    BY <1>17 DEF Redirect, At
  <2> QED
    BY <1>2, <1>16, <2>1 DEF Op
<1>18. CASE Download
  <2>1. CASE At("post")
    <3>1. todo # <<>> /\ todo' = <<Do("putBack")>> \o Tail(todo)
      BY <1>18, <2>1 DEF Download, At
    <3> QED
      BY <1>2, <1>16, <3>1 DEF Op
  <2>2. CASE At("fetch")
    <3>1. /\ todo # <<>> /\ ~At("restore") /\ ~At("putBack") /\ ~At("recordPost") /\ ~OfPost
          /\ todo' = <<>> \o Tail(todo)
      BY <1>18, <2>2 DEF Download, At, OfPost
    <3>2. UNCHANGED <<flushed, unreturned>>
      BY <1>18, <2>2 DEF Download, Strays, TypeOK, At
    <3>3. <<>> \in Seq(RubyStep)
      BY EmptySeq
    <3> QED
      BY <1>3, <3>1, <3>2, <3>3
  <2>3. CASE At("redirected")
    BY <1>18, <2>3 DEF Download, Strays, StashPending
  <2> QED
    BY <1>18, <2>1, <2>2, <2>3 DEF Download, Requests, OfPost
<1>19. CASE Raise
  <2>1. CASE OfPost
    BY <1>19, <2>1 DEF Raise, Strays, StashPending
  <2>2. CASE At("fetch")
    <3>1. Len(todo) > 1 /\ todo[2].op = "restore"
      BY <2>2 DEF RequestOfEntry
    <3>2. Under("restore")
      <4>1. 2 \in DOMAIN todo
        BY <1>1, <3>1, LenProperties
      <4> QED
        BY <3>1, <4>1 DEF Under
    <3> DEFINE a == <<Do("restore")>>  b == Kept("restored")
    <3>3. a \in Seq(RubyStep) /\ Len(a) = 1 /\ a[1].op = "restore" /\ b \in Seq(RubyStep)
      BY DoType, EmptySeq DEF Kept, Op
    <3>4. todo' = a \o b
      BY <1>19, <3>2 DEF Raise, Ensured, Kept
    <3> HIDE DEF a, b
    <3>5. a \in Seq(RubyStep) /\ b \in Seq(RubyStep)
      BY <3>3
    <3>6. /\ todo' \in Seq(RubyStep) /\ Len(todo') = Len(a) + Len(b) /\ Len(b) \in Nat
          /\ \A i \in 1 .. Len(a) + Len(b) :
                 todo'[i] = IF i <= Len(a) THEN a[i] ELSE b[i - Len(a)]
      BY <3>4, <3>5, ConcatProperties, LenProperties
    <3>7. 1 \in DOMAIN todo' /\ todo'[1].op = "restore"
      BY <3>3, <3>6, LenProperties
    <3> QED
      BY <3>7 DEF StashPending, Pending, Under
  <2> QED
    BY <1>19, <2>1, <2>2 DEF Raise, Requests
<1> QED
  BY <1>4, <1>5, <1>6, <1>7, <1>8, <1>12, <1>13, <1>14, <1>15, <1>17, <1>18, <1>19
  DEF Next, Navigation

----------------------------------------------------------------------------
(* What holds whatever becomes of the requests, and wherever traversals     *)
(* take the index.                                                          *)
CallsInv == TypeOK /\ Whole(todo) /\ RequestOfEntry /\ FlagsInv /\ StashPending

LEMMA CallsInvInit == Init => CallsInv
<1> SUFFICES ASSUME Init PROVE CallsInv
  OBVIOUS
<1>1. Whole(todo)
  BY BodiesWhole DEF Init
<1>2. DOMAIN todo = {}
  BY DEF Init
<1>3. RequestOfEntry /\ FlagsInv /\ StashPending
  BY <1>2 DEF Init, RequestOfEntry, Requests, OfPost, At, FlagsInv, StashPending
<1> QED
  BY <1>1, <1>3, InitType DEF CallsInv

LEMMA CallsInvStep == CallsInv /\ [Next]_vars => CallsInv'
<1> SUFFICES ASSUME CallsInv, [Next]_vars PROVE CallsInv'
  OBVIOUS
<1> USE DEF CallsInv
<1>1. CASE Next
  <2>1. TypeOK'
    BY <1>1, TestType, PageScriptType, ConsumeType, NavigationType DEF Next, RequestOfEntry
  <2>2. Whole(todo)'
    BY <1>1, WholeStep
  <2>3. RequestOfEntry' /\ FlagsInv' /\ StashPending'
    BY <1>1, RequestStep, FlagsStep, StashPendingStep
  <2> QED
    BY <2>1, <2>2, <2>3
<1>2. CASE UNCHANGED vars
  <2>1. TypeOK' /\ Whole(todo)'
    BY <1>2 DEF vars, slotVars, TypeOK
  <2>2. RequestOfEntry' /\ FlagsInv' /\ StashPending'
    BY <1>2 DEF vars, slotVars, RequestOfEntry, Requests, OfPost, At, FlagsInv, StashPending,
                Pending, Under
  <2> QED
    BY <2>1, <2>2
<1> QED
  BY <1>1, <1>2

(* Every variable of the session history keeps its type in every behaviour. *)
THEOREM TypeCorrect == Spec => []TypeOK
<1>1. CallsInv => TypeOK
  BY DEF CallsInv
<1> QED
  BY <1>1, CallsInvInit, CallsInvStep, PTL DEF Spec

(* However calls nest, fail or are answered, none ends with a flush or a    *)
(* restore half done, and no stash is left behind but that of a submission  *)
(* that raised itself or was redirected to a GET that brought no document   *)
(* (flush_outgoing_page_init, restore_flushed_nav_intents).                 *)
THEOREM FlushAlwaysBalanced == Spec => []FlushBalanced
<1>1. CallsInv => FlushBalanced
  <2> SUFFICES ASSUME CallsInv, todo = <<>>
               PROVE  /\ saved = Nothing /\ ~flushing /\ ~restoring
                      /\ flushed # Nothing => unreturned
    BY DEF FlushBalanced
  <2>1. \A op : ~Under(op)
    BY DEF Under
  <2> QED
    BY <2>1 DEF CallsInv, FlagsInv, StashPending, Pending
<1> QED
  BY <1>1, CallsInvInit, CallsInvStep, PTL DEF Spec

(* What a flush stashed dies with the document that asked: a commit clears  *)
(* it, and nothing else changes the document (boot_response_into_ctx).      *)
THEOREM FlushedIntentsAlwaysDie == Spec => []FlushedIntentsDie
<1>1. Init => FlushedIntentsDie
  BY DEF Init, FlushedIntentsDie
<1>2. FlushedIntentsDie /\ [Next]_vars => FlushedIntentsDie'
  <2> SUFFICES ASSUME FlushedIntentsDie, [Next]_vars PROVE FlushedIntentsDie'
    OBVIOUS
  <2> USE DEF FlushedIntentsDie, slotVars
  <2>1. CASE Test
    BY <2>1 DEF Test, Visit, Submit, Refresh, RunScripts, GoBackOrForward, Call, MoveInDocument
  <2>2. CASE PageScript
    BY <2>2 DEF PageScript, PushState, ReplaceState, LocationAssign, LocationReload, HistoryGo,
                ScriptEnds, Stash, MoveInDocument
  <2>3. CASE ConsumeSlots
    BY <2>3 DEF ConsumeSlots, Consume
  <2>4. CASE FlushEnds \/ Commit \/ RestoreNothing \/ RestoreIntents
    BY <2>4 DEF FlushEnds, Commit, RestoreNothing, RestoreIntents, Stashed
  <2>5. CASE FlushNothing \/ FlushBegins \/ RecordEntry \/ MoveIndex \/ Replay \/ Download
             \/ Redirect \/ Raise \/ RestoreForm \/ RestoreEnds
    BY <2>5 DEF FlushNothing, FlushBegins, RecordEntry, MoveIndex, Replay, Download, Redirect,
                Raise, Strays, RestoreForm, RestoreEnds
  <2>6. CASE UNCHANGED vars
    BY <2>6 DEF vars
  <2> QED
    BY <2>1, <2>2, <2>3, <2>4, <2>5, <2>6 DEF Next, Navigation
<1> QED
  BY <1>1, <1>2, PTL DEF Spec

----------------------------------------------------------------------------
(* Documents and entries.  All of it needs the index to be in range, which  *)
(* a page's late traversal can break (IndexInRange): a push then lands      *)
(* behind an entry of another document.                                     *)

(* A document has been asked for and is not there yet. *)
Awaited == At("replay") \/ Requests

EntryDescribes == idx \in DOMAIN history /\ ~Awaited => history[idx].doc = doc

(* An unbroken run of pushes belongs to the document of the entry before.   *)
PushedTogether ==
    \A i, j \in DOMAIN history :
        i < j /\ (\A k \in i + 1 .. j : history[k].kind = "push_state") =>
            history[i].doc = history[j].doc

FormsOwn == \A i \in DOMAIN history : history[i].form \in {NoForm, history[i].doc}

Owned == strays = 0 => EntryDescribes /\ PushedTogether /\ FormsOwn

(* A step that changes neither list, index nor document. *)
LEMMA OwnedIdle ==
    ASSUME Owned, UNCHANGED <<history, idx, doc, strays>>, Awaited => Awaited'
    PROVE  Owned'
BY DEF Owned, EntryDescribes, PushedTogether, FormsOwn

(* A traversal within a document, by a script or by the test. *)
LEMMA OwnedTraversal ==
    ASSUME TypeOK, IndexInRange, Owned, strays = 0, ~Awaited, NEW t \in 1 .. Len(history),
           SameDocument(idx, t)
    PROVE  history[t].doc = doc
<1>1. /\ history \in Seq(Entry) /\ Len(history) \in Nat /\ DOMAIN history = 1 .. Len(history)
      /\ idx \in Nat
  BY LenProperties DEF TypeOK
<1>2. history # <<>>
  BY <1>1, EmptySeq
<1>3. idx \in DOMAIN history
  BY <1>1, <1>2 DEF IndexInRange
<1>4. history[idx].doc = doc
  BY <1>3 DEF Owned, EntryDescribes
<1>5. \A i, j \in DOMAIN history :
          i < j /\ (\A k \in i + 1 .. j : history[k].kind = "push_state") =>
              history[i].doc = history[j].doc
  BY DEF Owned, PushedTogether
<1>6. CASE idx < t
  <2>1. \A k \in idx + 1 .. t : history[k].kind = "push_state"
    BY <1>6 DEF SameDocument
  <2> QED
    BY <1>1, <1>3, <1>4, <1>5, <1>6, <2>1
<1>7. CASE t < idx
  <2>1. \A k \in t + 1 .. idx : history[k].kind = "push_state"
    BY <1>1, <1>7 DEF SameDocument
  <2> QED
    BY <1>1, <1>3, <1>4, <1>5, <1>7, <2>1
<1> QED
  BY <1>1, <1>4, <1>6, <1>7

LEMMA OwnedMoved ==
    ASSUME TypeOK, IndexInRange, Owned, ~Awaited, NEW t \in 1 .. Len(history),
           SameDocument(idx, t), MoveInDocument(t)
    PROVE  Owned'
<1>1. UNCHANGED <<history, doc, strays>> /\ idx' = t
  BY DEF MoveInDocument
<1>2. strays = 0 => history[t].doc = doc
  BY OwnedTraversal
<1> QED
  BY <1>1, <1>2 DEF Owned, EntryDescribes, PushedTogether, FormsOwn

(* A new entry at the end of what is kept of the list. *)
LEMMA OwnedPush == ASSUME TypeOK, IndexInRange, Owned, PushState PROVE Owned'
<1>1. /\ history \in Seq(Entry) /\ Len(history) \in Nat /\ DOMAIN history = 1 .. Len(history)
      /\ idx \in 0 .. Len(history) /\ doc \in Nat /\ idx \in Nat
  BY LenProperties DEF TypeOK, IndexInRange
<1>2. PICK s \in State \cup {NoState} :
          history' = Recorded(history, [doc |-> doc, kind |-> "push_state", state |-> s,
                                        form |-> NoForm])
  BY DEF PushState
<1> DEFINE e == [doc |-> doc, kind |-> "push_state", state |-> s, form |-> NoForm]
<1>3. e \in Entry /\ e.doc = doc /\ e.form = NoForm
  BY <1>1 DEF Entry
<1> HIDE DEF e
<1>4. /\ history' \in Seq(Entry) /\ Len(history') = idx + 1
      /\ \A i \in 1 .. idx : history'[i] = history[i]
      /\ history'[idx + 1] = e
  <2>1. history' = Recorded(history, e)
    BY <1>2 DEF e
  <2>2. idx < Len(history) \/ Len(history) = idx
    <3>1. \A m, n \in Nat : m \in 0 .. n => m < n \/ n = m
      OBVIOUS
    <3>2. idx \in Nat /\ Len(history) \in Nat /\ idx \in 0 .. Len(history)
      BY <1>1
    <3> QED
      BY <3>1, <3>2
  <2> DEFINE n == IF idx < Len(history) THEN idx ELSE Len(history)
  <2>3. n = idx
    BY <2>2
  <2> HIDE DEF n
  <2>4. /\ history' \in Seq(Entry) /\ Len(history') = n + 1
        /\ \A i \in 1 .. n : history'[i] = history[i]
        /\ history'[n + 1] = e
    BY <1>1, <1>3, <2>1, RecordedType DEF n
  <2> QED
    BY <2>3, <2>4
<1>5. DOMAIN history' = 1 .. idx + 1
  BY <1>4, LenProperties
<1>6. idx' = idx + 1 /\ UNCHANGED <<doc, strays>>
  BY <1>4 DEF PushState
<1> SUFFICES ASSUME strays = 0 PROVE EntryDescribes' /\ PushedTogether' /\ FormsOwn'
  BY <1>6 DEF Owned
<1>7. ~Awaited
  BY DEF PushState, At, Awaited, Requests, OfPost
<1>8. \A i, j \in DOMAIN history :
          i < j /\ (\A k \in i + 1 .. j : history[k].kind = "push_state") =>
              history[i].doc = history[j].doc
  BY DEF Owned, PushedTogether
<1>9. idx \in DOMAIN history => history[idx].doc = doc
  BY <1>7 DEF Owned, EntryDescribes
<1>10. EntryDescribes'
  BY <1>1, <1>3, <1>4, <1>5, <1>6 DEF EntryDescribes
<1>11. FormsOwn'
  <2>1. \A i \in 1 .. idx : history[i].form \in {NoForm, history[i].doc}
    BY <1>1 DEF Owned, FormsOwn
  <2> QED
    BY <1>1, <1>3, <1>4, <1>5, <2>1 DEF FormsOwn
<1>12. ASSUME NEW i \in 1 .. idx + 1, NEW j \in 1 .. idx + 1, i < j,
              \A k \in i + 1 .. j : history'[k].kind = "push_state"
       PROVE  history'[i].doc = history'[j].doc
  <2>1. i \in 1 .. idx /\ history'[i] = history[i]
    BY <1>1, <1>4, <1>12
  <2>2. CASE j <= idx
    BY <1>1, <1>4, <1>8, <1>12, <2>1, <2>2
  <2>3. CASE ~(j <= idx)
    <3>1. j = idx + 1 /\ history'[j].doc = doc
      BY <1>1, <1>3, <1>4, <2>3
    <3>2. idx \in DOMAIN history /\ history[idx].doc = doc
      BY <1>1, <1>9, <2>1
    <3>3. i < idx => \A k \in i + 1 .. idx : history[k].kind = "push_state"
      BY <1>1, <1>4, <1>12, <3>1
    <3>4. history[i].doc = doc
      BY <1>1, <1>8, <2>1, <3>2, <3>3
    <3> QED
      BY <2>1, <3>1, <3>4
  <2> QED
    BY <2>2, <2>3
<1>13. PushedTogether'
  BY <1>5, <1>12 DEF PushedTogether
<1> QED
  BY <1>10, <1>11, <1>13

LEMMA OwnedRecord ==
    ASSUME TypeOK, Whole(todo), Owned, RecordEntry
    PROVE  Owned'
<1> DEFINE n == IF idx < Len(history) THEN idx ELSE Len(history)
<1>1. /\ n \in 0 .. Len(history) /\ idx' = n + 1
      /\ DOMAIN history' = 1 .. n + 1 /\ DOMAIN history = 1 .. Len(history)
      /\ \A i \in 1 .. n : /\ history'[i].doc = history[i].doc
                           /\ history'[i].kind = history[i].kind
                           /\ history'[i].form = IF i = idx THEN doc ELSE history[i].form
      /\ history'[n + 1].kind # "push_state" /\ history'[n + 1].form = NoForm
  BY RecordEntryDoes DEF RecordedKind
<1>2. Len(history) \in Nat /\ idx \in Nat
  BY LenProperties DEF TypeOK
<1> HIDE DEF n
<1>3. UNCHANGED <<doc, strays>> /\ ~Awaited /\ (At("record") \/ At("recordPost"))
      /\ todo # <<>> /\ todo' = Tail(todo)
  BY DEF RecordEntry, Awaited, Requests, OfPost, At
<1> SUFFICES ASSUME strays = 0 PROVE EntryDescribes' /\ PushedTogether' /\ FormsOwn'
  BY <1>3 DEF Owned
<1>4. idx \in DOMAIN history => history[idx].doc = doc
  BY <1>3 DEF Owned, EntryDescribes
<1>5. FormsOwn'
  <2>1. \A i \in 1 .. n : i \in DOMAIN history
    BY <1>1, <1>2
  <2>2. \A i \in 1 .. n : history[i].form \in {NoForm, history[i].doc}
    BY <2>1 DEF Owned, FormsOwn
  <2>3. \A i \in 1 .. n : history'[i].form \in {NoForm, history'[i].doc}
    BY <1>1, <1>4, <2>1, <2>2
  <2>4. \A i \in 1 .. n + 1 : i \in 1 .. n \/ i = n + 1
    BY <1>1, <1>2
  <2> QED
    BY <1>1, <2>3, <2>4 DEF FormsOwn
<1>6. PushedTogether'
  <2>1. \A i, j \in DOMAIN history :
            i < j /\ (\A k \in i + 1 .. j : history[k].kind = "push_state") =>
                history[i].doc = history[j].doc
    BY DEF Owned, PushedTogether
  <2>2. ASSUME NEW i \in 1 .. n + 1, NEW j \in 1 .. n + 1, i < j,
               \A k \in i + 1 .. j : history'[k].kind = "push_state"
        PROVE  history'[i].doc = history'[j].doc
    <3>1. j # n + 1
      BY <1>1, <1>2, <2>2
    <3>2. i \in 1 .. n /\ j \in 1 .. n /\ i \in DOMAIN history /\ j \in DOMAIN history
      BY <1>1, <1>2, <2>2, <3>1
    <3>3. \A k \in i + 1 .. j : k \in 1 .. n /\ history[k].kind = "push_state"
      BY <1>1, <1>2, <2>2, <3>2
    <3>4. history[i].doc = history[j].doc
      BY <2>1, <2>2, <3>2, <3>3
    <3>5. history'[i].doc = history[i].doc /\ history'[j].doc = history[j].doc
      BY <1>1, <3>2
    <3> QED
      BY <3>4, <3>5
  <2> QED
    BY <1>1, <2>2 DEF PushedTogether
<1>7. Awaited'
  <2>1. Len(todo) > 1 /\ Linked(todo[1].op, todo[2].op) /\ todo \in Seq(RubyStep)
        /\ Head(todo) = todo[1] /\ Len(todo) \in Nat
    BY <1>3, HeadLinked DEF At, Inner
  <2>2. todo' # <<>> /\ Head(todo') = todo[2]
    <3>1. todo' \in Seq(RubyStep) /\ Len(todo') = Len(todo) - 1 /\ todo'[1] = todo[2]
      BY <1>3, <2>1, TailOf
    <3>2. todo' # <<>>
      BY <2>1, <3>1, EmptySeq
    <3> QED
      BY <3>1, <3>2, TailOf
  <2>3. todo[2].op \in {"fetch", "post"}
    BY <1>3, <2>1 DEF At, Linked
  <2> QED
    BY <2>2, <2>3 DEF At, Awaited, Requests, OfPost
<1> QED
  BY <1>5, <1>6, <1>7 DEF EntryDescribes

LEMMA OwnedStep == CallsInv /\ IndexInRange /\ Owned /\ [Next]_vars => Owned'
<1> SUFFICES ASSUME TypeOK, Whole(todo), RequestOfEntry, IndexInRange, Owned, [Next]_vars
             PROVE  Owned'
  BY DEF CallsInv
<1>1. CASE Test
  <2>1. ASSUME NEW d \in {-1, 1}, GoBackOrForward(d), SameDocument(idx, idx + d)
        PROVE  Owned'
    <3>1. idx + d \in 1 .. Len(history) /\ MoveInDocument(idx + d) /\ ~Awaited
      BY <2>1, LenProperties DEF GoBackOrForward, InRange, At, Awaited, Requests, OfPost, TypeOK
    <3> QED
      BY <2>1, <3>1, OwnedMoved
  <2>2. ASSUME NEW body, Call(body) PROVE Owned'
    BY <2>2, OwnedIdle DEF Call, At, Awaited, Requests, OfPost
  <2> QED
    BY <1>1, <2>1, <2>2 DEF Test, Visit, Submit, Refresh, RunScripts, GoBackOrForward
<1>2. CASE PageScript
  <2>1. At("script") /\ ~Awaited
    BY <1>2 DEF PageScript, PushState, ReplaceState, LocationAssign, LocationReload, HistoryGo,
                ScriptEnds, At, Awaited, Requests, OfPost
  <2>2. CASE PushState
    BY <2>2, OwnedPush
  <2>3. CASE ReplaceState
    <3>1. PICK s \in State \cup {NoState} :
              history' = IF idx \in DOMAIN history THEN [history EXCEPT ![idx].state = s]
                                                   ELSE history
      BY <2>3 DEF ReplaceState
    <3>2. history \in Seq(Entry)
      BY DEF TypeOK
    <3>3. \A i \in DOMAIN history : history[i] \in Entry
      BY <3>2, ElementOfSeq, LenProperties
    <3>4. /\ DOMAIN history' = DOMAIN history
          /\ \A i \in DOMAIN history : /\ history'[i].doc = history[i].doc
                                       /\ history'[i].kind = history[i].kind
                                       /\ history'[i].form = history[i].form
      BY <3>1, <3>2, <3>3 DEF Entry
    <3>5. \A i, j \in DOMAIN history : i + 1 .. j \subseteq DOMAIN history
      BY <3>2, LenProperties
    <3>6. UNCHANGED <<idx, doc, todo, strays>>
      BY <2>3 DEF ReplaceState
    <3>7. PushedTogether => PushedTogether'
      BY <3>4, <3>5 DEF PushedTogether
    <3>8. FormsOwn => FormsOwn'
      BY <3>4 DEF FormsOwn
    <3>9. EntryDescribes => EntryDescribes'
      BY <2>1, <3>4, <3>6 DEF EntryDescribes
    <3> QED
      BY <3>6, <3>7, <3>8, <3>9 DEF Owned
  <2>4. CASE LocationAssign \/ LocationReload \/ ScriptEnds
    BY <2>1, <2>4, OwnedIdle DEF LocationAssign, LocationReload, ScriptEnds, Stash
  <2>5. CASE HistoryGo
    <3>1. PICK d \in PageDelta :
              /\ InRange(idx + d)
              /\ IF SameDocument(idx, idx + d) THEN MoveInDocument(idx + d)
                                               ELSE Stash("traverse", idx + d)
      BY <2>5 DEF HistoryGo
    <3>2. idx + d \in 1 .. Len(history)
      BY <3>1, LenProperties, HistoryAssumption DEF InRange, TypeOK
    <3>3. CASE SameDocument(idx, idx + d)
      BY <2>1, <3>1, <3>2, <3>3, OwnedMoved
    <3>4. CASE ~SameDocument(idx, idx + d)
      BY <2>1, <3>1, <3>4, OwnedIdle DEF Stash
    <3> QED
      BY <3>3, <3>4
  <2> QED
    BY <1>2, <2>2, <2>3, <2>4, <2>5 DEF PageScript
<1>3. CASE ConsumeSlots
  <2>1. ASSUME NEW slot \in Slot, NEW body, Consume(slot, body) PROVE Owned'
    BY <2>1, OwnedIdle DEF Consume, At, Awaited, Requests, OfPost, Slot
  <2> QED
    BY <1>3, <2>1 DEF ConsumeSlots, Slot
<1>4. CASE FlushNothing \/ FlushBegins \/ FlushEnds
  BY <1>4, OwnedIdle DEF FlushNothing, FlushBegins, FlushEnds, At, Awaited, Requests, OfPost
<1>5. CASE RestoreForm \/ RestoreNothing \/ RestoreIntents \/ RestoreEnds
  BY <1>5, OwnedIdle DEF RestoreForm, RestoreNothing, RestoreIntents, RestoreEnds, At, Awaited, Requests, OfPost
<1>6. CASE RecordEntry
  BY <1>6, OwnedRecord
<1>7. CASE MoveIndex
  <2>1. Awaited' /\ UNCHANGED <<doc, strays>> /\ history' = Captured(history) /\ ~Awaited
    <3>1. todo # <<>> /\ todo' = Tail(todo) /\ Head(todo).op = "move"
      BY <1>7 DEF MoveIndex, At
    <3>2. Len(todo) > 1 /\ Linked(todo[1].op, todo[2].op) /\ todo \in Seq(RubyStep)
          /\ Head(todo) = todo[1] /\ Len(todo) \in Nat
      BY <3>1, HeadLinked DEF Inner
    <3>3. todo' \in Seq(RubyStep) /\ Len(todo') = Len(todo) - 1 /\ todo'[1] = todo[2]
      BY <3>1, <3>2, TailOf
    <3>4. todo' # <<>>
      BY <3>2, <3>3, EmptySeq
    <3>5. Head(todo') = todo[2] /\ todo[2].op = "replay"
      BY <3>1, <3>2, <3>3, <3>4, TailOf DEF Linked
    <3> QED
      BY <1>7, <3>1, <3>4, <3>5 DEF MoveIndex, At, Awaited, Requests, OfPost
  <2>2. /\ DOMAIN history' = DOMAIN history
        /\ \A i \in DOMAIN history :
              /\ history'[i].doc = history[i].doc
              /\ history'[i].kind = history[i].kind
              /\ history'[i].form = IF i = idx THEN doc ELSE history[i].form
    BY <2>1, CapturedType, LenProperties DEF TypeOK
  <2>3. \A i, j \in DOMAIN history : i + 1 .. j \subseteq DOMAIN history
    BY LenProperties DEF TypeOK
  <2>4. PushedTogether => PushedTogether'
    BY <2>2, <2>3 DEF PushedTogether
  <2>5. EntryDescribes /\ FormsOwn => FormsOwn'
    BY <2>1, <2>2 DEF FormsOwn, EntryDescribes
  <2> QED
    BY <2>1, <2>4, <2>5 DEF Owned, EntryDescribes
<1>8. CASE Replay
  <2>1. UNCHANGED <<history, idx, doc, strays>> /\ todo # <<>>
    BY <1>8 DEF Replay, At
  <2>2. CASE idx \notin DOMAIN history
    BY <2>1, <2>2 DEF Owned, EntryDescribes, PushedTogether, FormsOwn
  <2>3. CASE idx \in DOMAIN history
    <3>1. /\ <<Do("post")>> \in Seq(RubyStep) /\ <<Do("fetch"), Do("restore")>> \in Seq(RubyStep)
          /\ <<Do("post")>> # <<>> /\ <<Do("fetch"), Do("restore")>> # <<>>
          /\ <<Do("post")>>[1].op = "post" /\ <<Do("fetch"), Do("restore")>>[1].op = "fetch"
      BY DoType DEF Op
    <3>2. PICK b \in {<<Do("post")>>, <<Do("fetch"), Do("restore")>>} : todo' = b \o Tail(todo)
      BY <1>8, <2>3 DEF Replay
    <3>3. b \in Seq(RubyStep) /\ b # <<>> /\ b[1].op \in {"post", "fetch"}
      BY <3>1, <3>2
    <3>4. \A op : At(op)' <=> b[1].op = op
      BY <2>1, <3>2, <3>3, HeadAfter
    <3>5. Awaited'
      BY <3>3, <3>4 DEF Awaited, Requests, OfPost
    <3> QED
      BY <2>1, <3>5, OwnedIdle
  <2> QED
    BY <2>2, <2>3
<1>9. CASE Commit
  <2>1. UNCHANGED <<history, idx, strays>> /\ doc' = history[idx].doc /\ idx \in DOMAIN history
    BY <1>9 DEF Commit, RequestOfEntry
  <2> QED
    BY <2>1 DEF Owned, EntryDescribes, PushedTogether, FormsOwn
<1>10. CASE Download \/ Raise
  <2>1. strays' # 0
    <3>1. strays' = strays + 1
      BY <1>10 DEF Download, Raise, Strays
    <3>2. strays \in Nat
      BY DEF TypeOK
    <3> QED
      BY <3>1, <3>2
  <2> QED
    BY <2>1 DEF Owned
<1>11. CASE Redirect
  <2>1. <<Do("redirected")>> \in Seq(RubyStep) /\ <<Do("redirected")>> # <<>>
        /\ <<Do("redirected")>>[1].op = "redirected"
    BY DoType DEF Op
  <2>2. At("redirected")' /\ UNCHANGED <<history, idx, doc, strays>>
    BY <1>11, <2>1, HeadAfter DEF Redirect, At
  <2> QED
    BY <2>2, OwnedIdle DEF Awaited, Requests, OfPost
<1>12. CASE UNCHANGED vars
  BY <1>12, OwnedIdle DEF vars, Awaited, Requests, OfPost, At
<1> QED
  BY <1>1, <1>2, <1>3, <1>4, <1>5, <1>6, <1>7, <1>8, <1>9, <1>10, <1>11, <1>12
  DEF Next, Navigation

LEMMA OwnedInit == Init => Owned
BY DEF Init, Owned, EntryDescribes, PushedTogether, FormsOwn

(* What holds of a behaviour whose index stays in range. *)
LEMMA AlwaysOwned == Spec /\ []IndexInRange => [](CallsInv /\ Owned)
<1>1. IndexInRange /\ CallsInv /\ Owned /\ [Next]_vars => (CallsInv /\ Owned)'
  BY CallsInvStep, OwnedStep
<1>2. Init => CallsInv /\ Owned
  BY CallsInvInit, OwnedInit
<1> QED
  BY <1>1, <1>2, PTL DEF Spec

(* As long as the index stays in range, the entry at it describes the       *)
(* document whenever a script or the test can look, however flushes, pushes *)
(* and traversals interleave with the commits (record_history,              *)
(* perform_history_traverse, boot_response_into_ctx).                       *)
THEOREM IndexAlwaysDescribes == Spec /\ []IndexInRange => []IndexDescribesDocument
<1>1. CallsInv /\ Owned => IndexDescribesDocument
  BY DEF Owned, EntryDescribes, Awaited, Requests, OfPost, At, IndexDescribesDocument
<1> QED
  BY <1>1, AlwaysOwned, PTL

(* As long as the index stays in range, the form state an entry keeps is    *)
(* its own document's (capture_outgoing_form_state).                        *)
THEOREM FormStateAlwaysOwn == Spec /\ []IndexInRange => []FormStateOwn
<1>1. CallsInv /\ Owned => FormStateOwn
  BY DEF Owned, FormsOwn, FormStateOwn
<1> QED
  BY <1>1, AlwaysOwned, PTL

(* As long as the index stays in range, popstate is fired on the document   *)
(* whose push made the entry (same_document_traversal?, history_go).        *)
THEOREM PopStateAlwaysToOwner == Spec /\ []IndexInRange => PopStateToOwner
<1> DEFINE Fired == idx' # idx /\ UNCHANGED <<history, doc>> /\ ~At("move") /\ strays = 0 =>
                        history[idx'].doc = doc
<1>1. ASSUME CallsInv, Owned, IndexInRange, Owned', IndexInRange', [Next]_vars
      PROVE  Fired
  <2> SUFFICES ASSUME idx' # idx, UNCHANGED <<history, doc>>, ~At("move"), strays = 0
               PROVE  history[idx'].doc = doc
    OBVIOUS
  <2>1. idx' \in DOMAIN history
    <3>1. idx' \in 0 .. Len(history) /\ idx \in 0 .. Len(history)
          /\ (idx' = 0 => history = <<>>)
      BY <1>1 DEF IndexInRange
    <3>2. history \in Seq(Entry) /\ Len(history) \in Nat /\ DOMAIN history = 1 .. Len(history)
      BY <1>1, LenProperties DEF CallsInv, TypeOK
    <3>3. history = <<>> => Len(history) = 0
      BY EmptySeq
    <3> QED
      BY <3>1, <3>2, <3>3
  <2>2. ASSUME UNCHANGED <<todo, strays>>, ~Awaited PROVE history[idx'].doc = doc
    BY <1>1, <2>1, <2>2 DEF Owned, EntryDescribes, Awaited, Requests, OfPost, At
  <2>3. CASE PushState \/ HistoryGo
    BY <2>2, <2>3 DEF PushState, HistoryGo, Stash, MoveInDocument, slotVars, At, Awaited,
                       Requests, OfPost
  <2>4. ASSUME NEW d \in {-1, 1}, GoBackOrForward(d) PROVE history[idx'].doc = doc
    BY <2>2, <2>4 DEF GoBackOrForward, MoveInDocument, Call, At, Awaited, Requests, OfPost
  <2>5. ~RecordEntry
    <3> SUFFICES ASSUME RecordEntry PROVE FALSE
      OBVIOUS
    <3>1. history'[idx'].doc = FreshDoc
      BY <1>1, RecordEntryDoes DEF CallsInv
    <3>2. history[idx'].doc # FreshDoc
      BY <1>1, <2>1, FreshDocFree DEF CallsInv, TypeOK
    <3> QED
      BY <3>1, <3>2
  <2>6. ~MoveIndex
    BY DEF MoveIndex
  <2>7. CASE Visit \/ Submit \/ Refresh \/ RunScripts
    BY <2>7 DEF Visit, Submit, Refresh, RunScripts, Call
  <2>8. CASE ReplaceState \/ LocationAssign \/ LocationReload \/ ScriptEnds
    BY <2>8 DEF ReplaceState, LocationAssign, LocationReload, ScriptEnds, Stash
  <2>9. CASE ConsumeSlots
    BY <2>9 DEF ConsumeSlots, Consume
  <2>10. CASE \/ FlushNothing \/ FlushBegins \/ FlushEnds \/ Replay \/ Commit \/ Download
              \/ Redirect \/ Raise \/ RestoreForm \/ RestoreNothing \/ RestoreIntents
              \/ RestoreEnds
    BY <2>10 DEF FlushNothing, FlushBegins, FlushEnds, Replay, Commit, Download, Redirect, Raise,
                 Strays, RestoreForm, RestoreNothing, RestoreIntents, RestoreEnds
  <2>11. CASE UNCHANGED vars
    BY <2>11 DEF vars
  <2> QED
    BY <1>1, <2>3, <2>4, <2>5, <2>6, <2>7, <2>8, <2>9, <2>10, <2>11
    DEF Next, Test, PageScript, Navigation
<1>2. (CallsInv /\ Owned) /\ (CallsInv /\ Owned)' /\ IndexInRange /\ IndexInRange' /\ [Next]_vars
      => [Fired]_vars
  BY <1>1
<1>3. Spec /\ []IndexInRange => [][Fired]_vars
  BY <1>2, AlwaysOwned, PTL DEF Spec
<1> QED
  BY <1>3 DEF PopStateToOwner

----------------------------------------------------------------------------
(* The index leaves the range only by a traversal whose target was cut off  *)
(* the list while it waited: every other way to move the index, and every   *)
(* way a target takes from history_go to the move, keeps it inside.         *)

(* A traversal that has still to be made names the entry t: one a page      *)
(* stashed, or one whose flush is under way, if it goes further than the    *)
(* next entry (a test's goes one back or forward, and a push leaves that).  *)
Target(t) ==
    \/ t \in {intents["traverse"], saved["traverse"], flushed["traverse"]}
    \/ t > idx + 1 /\ \E i \in DOMAIN todo : todo[i].op = "move" /\ todo[i].to = t

(* No step leaves the list without an entry that is still to be gone to.    *)
TargetsKept == \A t \in 1 .. Len(history) : Target(t) => t <= Len(history')

SlotsSound == {intents["traverse"], saved["traverse"], flushed["traverse"]} \subseteq 0 .. Len(history)

(* A move still to be made is next, or its own flush is under way. *)
MovesSound ==
    \A i \in DOMAIN todo : todo[i].op = "move" =>
        /\ todo[i].to \in 1 .. Len(history)
        /\ \A j \in 1 .. i - 1 : todo[j].op \in {"script", "flush", "flushed"}

RangeInv == TypeOK /\ IndexInRange /\ SlotsSound /\ MovesSound

(* At any other step no move is left. *)
LEMMA NoMoveLeft ==
    ASSUME RangeInv, todo # <<>>, Head(todo).op \notin {"script", "flush", "flushed", "move"}
    PROVE  \A i \in DOMAIN todo : todo[i].op # "move"
<1>1. todo \in Seq(RubyStep)
  BY DEF RangeInv, TypeOK, RubyStep
<1>2. Head(todo) = todo[1] /\ DOMAIN todo = 1 .. Len(todo) /\ Len(todo) \in Nat
  BY <1>1, TailOf, LenProperties
<1>3. SUFFICES ASSUME NEW i \in DOMAIN todo, todo[i].op = "move" PROVE FALSE
  OBVIOUS
<1>4. i = 1 \/ 1 \in 1 .. i - 1
  BY <1>2, <1>3
<1> QED
  BY <1>2, <1>3, <1>4 DEF RangeInv, MovesSound

(* The moves that were there before are still entries. *)
MovesKept == \A i \in DOMAIN todo : todo[i].op = "move" => todo[i].to \in 1 .. Len(history')

(* A body without a move, in front of what is left. *)
LEMMA MovesInFront ==
    ASSUME RangeInv, todo # <<>>, NEW b \in Seq(RubyStep),
           \A i \in 1 .. Len(b) :
               \/ b[i].op \in {"script", "flush", "flushed"}
               \/ /\ b[i].op # "move"
                  /\ Head(todo).op \notin {"script", "flush", "flushed", "move"},
           todo' = b \o Tail(todo), MovesKept
    PROVE  MovesSound'
<1>1. todo \in Seq(RubyStep)
  BY DEF RangeInv, TypeOK, RubyStep
<1>2. /\ todo' \in Seq(RubyStep) /\ Len(todo') = Len(b) + Len(todo) - 1
      /\ \A i \in 1 .. Len(b) : todo'[i] = b[i]
      /\ \A i \in 2 .. Len(todo) : todo'[Len(b) + i - 1] = todo[i]
  BY <1>1, InFront
<1>3. /\ DOMAIN todo' = 1 .. Len(todo') /\ DOMAIN todo = 1 .. Len(todo) /\ Head(todo) = todo[1]
      /\ Len(todo) \in Nat \ {0} /\ Len(b) \in Nat
  BY <1>1, <1>2, TailOf, LenProperties
<1> DEFINE Early == {"script", "flush", "flushed"}
<1>4. SUFFICES ASSUME NEW i \in 1 .. Len(todo'), todo'[i].op = "move"
               PROVE  /\ todo'[i].to \in 1 .. Len(history')
                      /\ \A j \in 1 .. i - 1 : todo'[j].op \in Early
  BY <1>3 DEF MovesSound
<1>5. ~(i \in 1 .. Len(b))
  BY <1>2, <1>4
<1>6. PICK k \in 2 .. Len(todo) : i = Len(b) + k - 1
  <2>1. i - Len(b) + 1 \in 2 .. Len(todo)
    BY <1>2, <1>3, <1>4, <1>5
  <2>2. i = Len(b) + (i - Len(b) + 1) - 1
    BY <1>3, <1>4
  <2> QED
    BY <2>1, <2>2
<1>7. k \in DOMAIN todo /\ todo'[i] = todo[k] /\ todo[k].op = "move"
  BY <1>2, <1>3, <1>4, <1>6
<1>8. /\ todo[k].to \in 1 .. Len(history')
      /\ \A j \in 1 .. k - 1 : todo[j].op \in Early
  BY <1>7 DEF RangeInv, MovesSound, MovesKept
<1>9. Head(todo).op \in {"script", "flush", "flushed", "move"}
  BY <1>7, NoMoveLeft
<1>10. ASSUME NEW j \in 1 .. i - 1 PROVE todo'[j].op \in Early
  <2>1. CASE j \in 1 .. Len(b)
    BY <1>2, <1>9, <2>1
  <2>2. CASE ~(j \in 1 .. Len(b))
    <3> DEFINE m == j - Len(b) + 1
    <3>1. m \in 2 .. k - 1 /\ j = Len(b) + m - 1 /\ m \in 2 .. Len(todo)
      BY <1>3, <1>6, <1>10, <2>2
    <3> HIDE DEF m
    <3>2. todo'[j] = todo[m] /\ m \in 1 .. k - 1
      BY <1>2, <1>6, <3>1
    <3> QED
      BY <1>8, <3>2
  <2> QED
    BY <2>1, <2>2
<1> QED
  BY <1>7, <1>8, <1>10

(* A traversal consumed from its slot, in front of what is left. *)
LEMMA TraverseInFront ==
    ASSUME RangeInv, At("traverse"), NEW t \in 1 .. Len(history), UNCHANGED history,
           todo' = TraverseTo(t) \o Tail(todo)
    PROVE  MovesSound'
<1>1. todo \in Seq(RubyStep) /\ todo # <<>> /\ Len(history) \in Nat
  BY LenProperties DEF RangeInv, TypeOK, RubyStep, At
<1>2. \A i \in DOMAIN todo : todo[i].op # "move"
  BY <1>1, NoMoveLeft DEF At
<1> DEFINE b == TraverseTo(t)
<1>3. b \in Seq(RubyStep) /\ todo' = b \o Tail(todo)
  BY <1>1, BodyTypes
<1>4. /\ Len(b) = 5 /\ \A i \in 1 .. 5 : b[i].op = "move" => i = 2
      /\ b[2].to = t /\ b[1].op = "flush"
  BY DEF TraverseTo, Do
<1> HIDE DEF b
<1>5. /\ todo' \in Seq(RubyStep) /\ Len(todo') = 5 + Len(todo) - 1
      /\ \A i \in 1 .. 5 : todo'[i] = b[i]
      /\ \A i \in 2 .. Len(todo) : todo'[5 + i - 1] = todo[i]
  <2> DEFINE r == b \o Tail(todo)
  <2>1. /\ r \in Seq(RubyStep) /\ Len(r) = Len(b) + Len(todo) - 1
        /\ \A i \in 1 .. Len(b) : r[i] = b[i]
        /\ \A i \in 2 .. Len(todo) : r[Len(b) + i - 1] = todo[i]
    <3>1. todo \in Seq(RubyStep) /\ todo # <<>> /\ b \in Seq(RubyStep)
      BY <1>1, <1>3
    <3> QED
      BY <3>1, InFront
  <2>2. todo' = r
    BY <1>3
  <2> HIDE DEF r
  <2> QED
    BY <1>4, <2>1, <2>2
<1>6. DOMAIN todo' = 1 .. Len(todo') /\ DOMAIN todo = 1 .. Len(todo) /\ Len(todo) \in Nat
  BY <1>1, <1>5, LenProperties
<1>7. ASSUME NEW i \in DOMAIN todo', todo'[i].op = "move" PROVE i = 2
  <2>1. CASE i \in 1 .. 5
    BY <1>4, <1>5, <1>7, <2>1
  <2>2. CASE ~(i \in 1 .. 5)
    <3> DEFINE k == i - 4
    <3>1. i \in 1 .. 5 + Len(todo) - 1
      BY <1>5, <1>6, <1>7
    <3>2. k \in 2 .. Len(todo) /\ 5 + k - 1 = i
      <4>1. Len(todo) \in Nat
        BY <1>6
      <4>2. i \in Int /\ 1 <= i /\ i <= Len(todo) + 4
        BY <3>1, <4>1
      <4>3. i > 5
        BY <2>2, <4>2
      <4> QED
        BY <4>1, <4>2, <4>3
    <3> HIDE DEF k
    <3>3. todo'[i] = todo[k] /\ k \in DOMAIN todo
      <4>1. todo'[5 + k - 1] = todo[k]
        BY <1>5, <3>2
      <4>2. k \in 1 .. Len(todo)
        BY <3>2
      <4> QED
        BY <1>6, <3>2, <4>1, <4>2
    <3> QED
      BY <1>2, <1>7, <3>3
  <2> QED
    BY <2>1, <2>2
<1>8. todo'[2].to = t /\ todo'[1].op = "flush"
  BY <1>4, <1>5
<1>9. 1 .. 2 - 1 = {1}
  OBVIOUS
<1> QED
  BY <1>7, <1>8, <1>9 DEF MovesSound

LEMMA KeptLength ==
    ASSUME NEW m \in Nat, NEW n \in Nat, m <= n PROVE (IF m < n THEN m ELSE n) = m
OBVIOUS

LEMMA MovesGone ==
    ASSUME \A i \in DOMAIN todo' : todo'[i].op # "move" PROVE MovesSound'
BY DEF MovesSound

LEMMA RangeStep ==
    CallsInv /\ RangeInv /\ [Next]_vars /\ [TargetsKept]_vars => RangeInv'
<1> SUFFICES ASSUME CallsInv, RangeInv, [Next]_vars, [TargetsKept]_vars PROVE RangeInv'
  OBVIOUS
<1>1. TypeOK' /\ TypeOK /\ RequestOfEntry
  BY CallsInvStep DEF CallsInv
<1>2. /\ history \in Seq(Entry) /\ Len(history) \in Nat /\ DOMAIN history = 1 .. Len(history)
      /\ idx \in Nat /\ idx <= Len(history) /\ (idx = 0 => history = <<>>)
      /\ todo \in Seq(RubyStep)
  BY LenProperties DEF RangeInv, TypeOK, IndexInRange, RubyStep
<1>3. ASSUME UNCHANGED <<history, idx>> PROVE IndexInRange'
  BY <1>3 DEF RangeInv, IndexInRange
<1>4. ASSUME todo # <<>>, todo' = Tail(todo), MovesKept
      PROVE  MovesSound'
  <2> DEFINE b == <<>>
  <2>1. b \in Seq(RubyStep) /\ Len(b) = 0
    BY EmptySeq
  <2>2. todo' = b \o Tail(todo)
    <3>1. Tail(todo) \in Seq(RubyStep)
      BY <1>2, <1>4, TailOf
    <3> QED
      BY <1>4, <3>1, ConcatEmptySeq
  <2> HIDE DEF b
  <2>3. \A i \in 1 .. Len(b) : FALSE
    BY <2>1
  <2> QED
    BY <1>4, <2>1, <2>2, <2>3, MovesInFront
<1>5. ASSUME UNCHANGED todo, MovesKept PROVE MovesSound'
  BY <1>5 DEF RangeInv, MovesSound, MovesKept
<1>6. ASSUME Len(history') = Len(history) PROVE MovesKept
  BY <1>6 DEF RangeInv, MovesSound, MovesKept
<1>19. ASSUME Len(history') = Len(history), UNCHANGED <<intents, saved, flushed>>
       PROVE  SlotsSound'
  BY <1>19 DEF RangeInv, SlotsSound
<1>20. ASSUME UNCHANGED <<intents, saved, flushed>>, TargetsKept, TypeOK' PROVE SlotsSound'
  <2>1. Len(history') \in Nat
    BY <1>20, LenProperties DEF TypeOK
  <2>2. ASSUME NEW t \in {intents["traverse"], saved["traverse"], flushed["traverse"]}
        PROVE  t \in 0 .. Len(history')
    <3>1. t \in 0 .. Len(history) /\ (t \in 1 .. Len(history) => t <= Len(history'))
      BY <1>20, <2>2 DEF RangeInv, SlotsSound, TargetsKept, Target
    <3> QED
      BY <1>2, <2>1, <3>1
  <2> QED
    BY <1>20, <2>2 DEF SlotsSound
<1>18. CASE UNCHANGED vars
  <2>1. UNCHANGED <<history, idx, todo, intents, saved, flushed>>
    BY <1>18 DEF vars, slotVars
  <2> QED
    BY <1>1, <1>3, <1>5, <1>6, <1>19, <2>1 DEF RangeInv
<1>21. SUFFICES ASSUME Next, TargetsKept PROVE RangeInv'
  BY <1>18
<1>23. idx \in Nat /\ Len(history) \in Nat /\ idx <= Len(history)
  BY <1>2
<1>22. Nothing["traverse"] = 0
  BY DEF Nothing, Slot, NoIntent
<1>7. CASE Test
  <2>0. UNCHANGED <<history, intents, saved, flushed>>
    BY <1>7 DEF Test, Visit, Submit, Refresh, RunScripts, GoBackOrForward, Call, MoveInDocument,
                slotVars
  <2>1. SlotsSound'
    BY <1>19, <2>0
  <2>2. CASE Visit \/ Submit \/ Refresh
    <3>1. UNCHANGED <<history, idx>> /\ todo' \in {Navigate, NavigatePost, Reload}
      BY <2>2 DEF Visit, Submit, Refresh, Call
    <3>2. \A b \in {Navigate, NavigatePost, Reload} : \A i \in DOMAIN b : b[i].op # "move"
      BY DEF Navigate, NavigatePost, Reload, Do
    <3> QED
      BY <1>1, <1>3, <2>1, <3>1, <3>2, MovesGone DEF RangeInv
  <2>3. CASE RunScripts
    <3>1. UNCHANGED <<history, idx>> /\ todo' = <<Do("script")>> \o Drain
      BY <2>3 DEF RunScripts, Call
    <3> DEFINE a == <<Do("script")>>
    <3>2. /\ a \in Seq(RubyStep) /\ Len(a) = 1 /\ a[1].op # "move"
          /\ Drain \in Seq(RubyStep) /\ Len(Drain) = 3 /\ \A i \in 1 .. 3 : Drain[i].op # "move"
      <4>1. a \in Seq(RubyStep) /\ Len(a) = 1 /\ a[1].op # "move"
        BY DoType DEF Op
      <4>2. Drain \in Seq(RubyStep)
        BY BodyTypes
      <4>3. Len(Drain) = 3 /\ \A i \in 1 .. 3 : Drain[i].op # "move"
        BY DEF Drain, Do
      <4> QED
        BY <4>1, <4>2, <4>3
    <3>3. \A i \in DOMAIN todo' : todo'[i].op # "move"
      <4> HIDE DEF a
      <4>1. a \o Drain \in Seq(RubyStep) /\ Len(a \o Drain) = Len(a) + Len(Drain)
            /\ \A i \in 1 .. Len(a) + Len(Drain) :
                  (a \o Drain)[i] = IF i <= Len(a) THEN a[i] ELSE Drain[i - Len(a)]
        BY <3>2, ConcatProperties
      <4>2. todo' = a \o Drain
        BY <3>1 DEF a
      <4>3. DOMAIN todo' = 1 .. 4
        BY <3>2, <4>1, <4>2, LenProperties
      <4>4. \A i \in 1 .. 4 : i = 1 \/ (i - 1 \in 1 .. 3 /\ ~(i <= 1))
        OBVIOUS
      <4> QED
        BY <3>2, <4>1, <4>2, <4>3, <4>4
    <3> QED
      BY <1>1, <1>3, <2>1, <3>1, <3>3, MovesGone DEF RangeInv
  <2>4. ASSUME NEW d \in {-1, 1}, GoBackOrForward(d) PROVE RangeInv'
    <3>1. idx + d \in 1 .. Len(history) /\ todo = <<>>
      BY <1>2, <2>4 DEF GoBackOrForward, InRange
    <3>2. CASE SameDocument(idx, idx + d)
      <4>1. UNCHANGED <<history, todo>> /\ idx' = idx + d
        BY <2>4, <3>2 DEF GoBackOrForward, MoveInDocument
      <4>2. IndexInRange'
        BY <1>2, <3>1, <4>1 DEF IndexInRange
      <4>3. MovesSound'
        BY <3>1, <4>1, MovesGone
      <4> QED
        BY <1>1, <2>1, <4>2, <4>3 DEF RangeInv
    <3>3. CASE ~SameDocument(idx, idx + d)
      <4>1. UNCHANGED <<history, idx>> /\ todo' = TraverseTo(idx + d)
        BY <2>4, <3>3 DEF GoBackOrForward, Call
      <4>2. \A i \in DOMAIN TraverseTo(idx + d) : TraverseTo(idx + d)[i].op = "move" => i = 2
        BY DEF TraverseTo, Do
      <4>3. TraverseTo(idx + d)[2].to = idx + d /\ TraverseTo(idx + d)[1].op = "flush"
        BY DEF TraverseTo, Do
      <4>4. 1 .. 2 - 1 = {1}
        OBVIOUS
      <4>5. MovesSound'
        BY <3>1, <4>1, <4>2, <4>3, <4>4 DEF MovesSound
      <4> QED
        BY <1>1, <1>3, <2>1, <4>1, <4>5 DEF RangeInv
    <3> QED
      BY <3>2, <3>3
  <2> QED
    BY <1>7, <2>2, <2>3, <2>4 DEF Test
<1>8. CASE PageScript
  <2>1. At("script") /\ (UNCHANGED todo \/ todo' = Tail(todo)) /\ todo # <<>>
    BY <1>8 DEF PageScript, PushState, ReplaceState, LocationAssign, LocationReload, HistoryGo,
                ScriptEnds, At
  <2>2. CASE HistoryGo
    <3>1. PICK delta \in PageDelta :
              /\ InRange(idx + delta)
              /\ IF SameDocument(idx, idx + delta)
                 THEN MoveInDocument(idx + delta)
                 ELSE Stash("traverse", idx + delta)
      BY <2>2 DEF HistoryGo
    <3>2. idx + delta \in 1 .. Len(history) /\ UNCHANGED todo
      BY <1>2, <2>2, <3>1, HistoryAssumption DEF InRange, HistoryGo
    <3>3. CASE SameDocument(idx, idx + delta)
      <4>1. UNCHANGED <<history, intents, saved, flushed>> /\ idx' = idx + delta
        BY <3>1, <3>3 DEF MoveInDocument, slotVars
      <4>2. IndexInRange'
        BY <1>2, <3>2, <4>1 DEF IndexInRange
      <4> QED
        BY <1>1, <1>5, <1>6, <1>19, <3>2, <4>1, <4>2 DEF RangeInv
    <3>4. CASE ~SameDocument(idx, idx + delta)
      <4>1. UNCHANGED <<history, idx, saved, flushed>>
            /\ intents' = [intents EXCEPT !["traverse"] = idx + delta]
        BY <3>1, <3>4 DEF Stash
      <4>2. intents'["traverse"] = idx + delta
        BY <4>1, <1>1 DEF TypeOK, Intents, Slot
      <4>3. SlotsSound'
        BY <1>2, <3>2, <4>1, <4>2 DEF RangeInv, SlotsSound
      <4> QED
        BY <1>1, <1>3, <1>5, <1>6, <3>2, <4>1, <4>3 DEF RangeInv
    <3> QED
      BY <3>3, <3>4
  <2>3. CASE LocationAssign \/ LocationReload
    <3>1. PICK slot \in {"location", "reload"} : Stash(slot, 1)
      BY <2>3 DEF LocationAssign, LocationReload
    <3>2. UNCHANGED <<history, idx, saved, flushed, todo>> /\ intents' = [intents EXCEPT ![slot] = 1]
      BY <2>3, <3>1 DEF Stash, LocationAssign, LocationReload
    <3>3. intents'["traverse"] = intents["traverse"]
      BY <1>1, <3>1, <3>2 DEF TypeOK, Intents, Slot
    <3>4. SlotsSound'
      BY <3>2, <3>3 DEF RangeInv, SlotsSound
    <3> QED
      BY <1>1, <1>3, <1>5, <1>6, <3>2, <3>4 DEF RangeInv
  <2>4. CASE ScriptEnds
    <3>1. UNCHANGED <<history, idx, intents, saved, flushed>> /\ todo' = Tail(todo)
      BY <2>4 DEF ScriptEnds, slotVars
    <3> QED
      BY <1>1, <1>3, <1>4, <1>6, <1>19, <2>1, <3>1 DEF RangeInv
  <2>5. CASE ReplaceState
    <3>1. UNCHANGED <<idx, todo, intents, saved, flushed>>
      BY <2>5 DEF ReplaceState, slotVars
    <3>2. Len(history') = Len(history)
      <4>1. DOMAIN history' = DOMAIN history /\ history' \in Seq(Entry)
        BY <1>1, <2>5 DEF ReplaceState, TypeOK
      <4>2. Len(history') \in Nat /\ DOMAIN history' = 1 .. Len(history')
        BY <4>1, LenProperties
      <4> QED
        BY <1>2, <4>1, <4>2
    <3>3. IndexInRange'
      <4>1. Len(history') = 0 => history' = <<>>
        BY <1>1, EmptySeq DEF TypeOK
      <4>2. history = <<>> => Len(history) = 0
        BY EmptySeq
      <4> QED
        BY <1>2, <3>1, <3>2, <4>1, <4>2 DEF IndexInRange
    <3> QED
      BY <1>1, <1>5, <1>6, <1>19, <3>1, <3>2, <3>3 DEF RangeInv
  <2>6. CASE PushState
    <3>1. PICK s \in State \cup {NoState} :
              history' = Recorded(history, [doc |-> doc, kind |-> "push_state", state |-> s,
                                            form |-> NoForm])
      BY <2>6 DEF PushState
    <3> DEFINE e == [doc |-> doc, kind |-> "push_state", state |-> s, form |-> NoForm]
    <3>2. e \in Entry
      BY <1>1 DEF Entry, TypeOK
    <3> HIDE DEF e
    <3>3. history' = Recorded(history, e)
      BY <3>1 DEF e
    <3> DEFINE n == IF idx < Len(history) THEN idx ELSE Len(history)
    <3>4. n = idx
      BY <1>23, KeptLength
    <3> HIDE DEF n
    <3>5. Len(history') = n + 1
      BY <1>2, <3>2, <3>3, RecordedType DEF n
    <3>6. /\ Len(history') = idx + 1 /\ idx' = idx + 1
          /\ UNCHANGED <<todo, intents, saved, flushed>>
      BY <2>6, <3>4, <3>5 DEF PushState, slotVars
    <3>7. IndexInRange'
      BY <1>2, <3>6 DEF IndexInRange
    <3>8. MovesKept
      <4>1. SUFFICES ASSUME NEW i \in DOMAIN todo, todo[i].op = "move"
                     PROVE  todo[i].to \in 1 .. Len(history')
        BY DEF MovesKept
      <4>2. todo[i].to \in 1 .. Len(history)
        BY <4>1 DEF RangeInv, MovesSound
      <4>3. todo[i].to > idx + 1 => todo[i].to <= Len(history')
        BY <1>21, <4>1, <4>2 DEF TargetsKept, Target
      <4> QED
        BY <1>2, <3>6, <4>2, <4>3
    <3> QED
      BY <1>1, <1>5, <1>20, <1>21, <3>6, <3>7, <3>8 DEF RangeInv
  <2> QED
    BY <1>8, <2>2, <2>3, <2>4, <2>5, <2>6 DEF PageScript
<1>9. CASE ConsumeSlots
  <2>1. UNCHANGED <<history, idx, saved, flushed>> /\ todo # <<>>
        /\ Head(todo).op \notin {"script", "flush", "flushed", "move"}
    BY <1>9 DEF ConsumeSlots, Consume, At
  <2>2. SlotsSound'
    <3>1. /\ intents["traverse"] \in 0 .. Len(history) /\ saved["traverse"] \in 0 .. Len(history)
          /\ flushed["traverse"] \in 0 .. Len(history)
      BY DEF RangeInv, SlotsSound
    <3>2. intents' = intents \/ \E slot \in Slot : intents' = [intents EXCEPT ![slot] = 0]
      BY <1>9 DEF ConsumeSlots, Consume, NoIntent, Slot
    <3>3. intents'["traverse"] \in {0, intents["traverse"]}
      BY <1>1, <3>2 DEF TypeOK, Intents, Slot
    <3> QED
      BY <1>2, <2>1, <3>1, <3>3 DEF SlotsSound
  <2>3. CASE todo' = Tail(todo)
    BY <1>1, <1>3, <1>4, <1>6, <2>1, <2>2, <2>3 DEF RangeInv
  <2>4. ASSUME NEW b \in {Navigate, Reload}, todo' = b \o Tail(todo) PROVE RangeInv'
    <3>1. b \in Seq(RubyStep)
      BY BodyTypes
    <3>2. Len(Navigate) = 4 /\ \A i \in 1 .. 4 : Navigate[i].op # "move"
      BY DEF Navigate, Do
    <3>3. Len(Reload) = 3 /\ \A i \in 1 .. 3 : Reload[i].op # "move"
      BY DEF Reload, Do
    <3>4. \A i \in 1 .. Len(b) : b[i].op # "move"
      BY <3>2, <3>3
    <3>5. MovesSound'
      BY <1>6, <2>1, <2>4, <3>1, <3>4, MovesInFront
    <3> QED
      BY <1>1, <1>3, <2>1, <2>2, <3>5 DEF RangeInv
  <2>5. ASSUME At("traverse"), intents["traverse"] # NoIntent,
               todo' = TraverseTo(intents["traverse"]) \o Tail(todo)
        PROVE  RangeInv'
    <3>1. intents["traverse"] \in 1 .. Len(history)
      BY <1>2, <2>5 DEF RangeInv, SlotsSound, NoIntent
    <3>2. MovesSound'
      BY <2>1, <2>5, <3>1, TraverseInFront
    <3> QED
      BY <1>1, <1>3, <2>1, <2>2, <3>2 DEF RangeInv
  <2>6. CASE Consume("location", Navigate) \/ Consume("reload", Reload)
    BY <2>3, <2>4, <2>6 DEF Consume
  <2>7. CASE Consume("traverse", TraverseTo(intents["traverse"]))
    BY <2>3, <2>5, <2>7 DEF Consume
  <2> QED
    BY <1>9, <2>6, <2>7 DEF ConsumeSlots
<1>10. CASE FlushNothing \/ RestoreForm \/ RestoreNothing \/ RestoreEnds
  <2>1. UNCHANGED <<history, idx>> /\ todo # <<>> /\ todo' = Tail(todo)
    BY <1>10 DEF FlushNothing, RestoreForm, RestoreNothing, RestoreEnds, At
  <2>2. SlotsSound'
    <3>1. UNCHANGED <<intents, saved>> /\ flushed' \in {flushed, Nothing}
      BY <1>10 DEF FlushNothing, RestoreForm, RestoreNothing, RestoreEnds, Stashed, slotVars
    <3> QED
      BY <1>2, <1>22, <2>1, <3>1 DEF RangeInv, SlotsSound
  <2> QED
    BY <1>1, <1>3, <1>4, <1>6, <2>1, <2>2 DEF RangeInv
<1>11. CASE FlushEnds
  <2>1. UNCHANGED <<history, idx>> /\ todo # <<>> /\ todo' = Tail(todo)
    BY <1>11 DEF FlushEnds, At
  <2>2. SlotsSound'
    BY <1>2, <1>11, <1>22 DEF FlushEnds, Stashed, RangeInv, SlotsSound
  <2> QED
    BY <1>1, <1>3, <1>4, <1>6, <2>1, <2>2 DEF RangeInv
<1>12. CASE FlushBegins
  <2> DEFINE b == <<Do("script"), Do("flushed")>>
  <2>1. UNCHANGED <<history, idx>> /\ todo # <<>> /\ todo' = b \o Tail(todo)
    BY <1>12 DEF FlushBegins, At
  <2>2. b \in Seq(RubyStep) /\ \A i \in 1 .. Len(b) : b[i].op \in {"script", "flush", "flushed"}
    BY DoType DEF Op, Do
  <2> HIDE DEF b
  <2>3. MovesSound'
    BY <1>6, <2>1, <2>2, MovesInFront
  <2>4. SlotsSound'
    BY <1>2, <1>12, <1>22 DEF FlushBegins, RangeInv, SlotsSound
  <2> QED
    BY <1>1, <1>3, <2>1, <2>3, <2>4 DEF RangeInv
<1>13. CASE RecordEntry
  <2>1. /\ todo # <<>> /\ todo' = Tail(todo) /\ UNCHANGED <<intents, saved, flushed>>
        /\ Head(todo).op \notin {"script", "flush", "flushed", "move"}
    BY <1>13 DEF RecordEntry, At, slotVars
  <2> DEFINE n == IF idx < Len(history) THEN idx ELSE Len(history)
  <2>2. n = idx
    BY <1>23, KeptLength
  <2> HIDE DEF n
  <2>3. idx' = n + 1 /\ DOMAIN history' = 1 .. n + 1
    BY <1>1, <1>13, RecordEntryDoes DEF n
  <2>4. Len(history') \in Nat /\ DOMAIN history' = 1 .. Len(history')
    BY <1>1, LenProperties DEF TypeOK
  <2>5. Len(history') = idx + 1 /\ idx' = idx + 1
    BY <1>2, <2>2, <2>3, <2>4
  <2>6. IndexInRange'
    BY <1>2, <2>5 DEF IndexInRange
  <2>7. MovesKept
    BY <2>1, NoMoveLeft DEF MovesKept
  <2> QED
    BY <1>1, <1>4, <1>20, <1>21, <2>1, <2>6, <2>7 DEF RangeInv
<1>14. CASE MoveIndex
  <2>1. /\ todo # <<>> /\ todo' = Tail(todo) /\ Head(todo).op = "move"
        /\ idx' = Head(todo).to /\ history' = Captured(history)
        /\ UNCHANGED <<intents, saved, flushed>>
    BY <1>14 DEF MoveIndex, At, slotVars
  <2>2. Len(history') = Len(history)
    BY <1>1, <2>1, CapturedType
  <2>3. Head(todo) = todo[1] /\ 1 \in DOMAIN todo /\ DOMAIN todo = 1 .. Len(todo)
        /\ Len(todo) \in Nat
    BY <1>2, <2>1, TailOf, LenProperties
  <2>4. idx' \in 1 .. Len(history)
    BY <2>1, <2>3 DEF RangeInv, MovesSound
  <2>5. IndexInRange'
    BY <1>2, <2>2, <2>4 DEF IndexInRange
  <2>6. \A i \in DOMAIN todo' : todo'[i].op # "move"
    <3>1. todo' \in Seq(RubyStep) /\ Len(todo') = Len(todo) - 1
          /\ \A i \in 1 .. Len(todo) - 1 : todo'[i] = todo[i + 1]
      BY <1>2, <2>1, TailOf
    <3>2. DOMAIN todo' = 1 .. Len(todo) - 1
      BY <3>1, LenProperties
    <3>3. SUFFICES ASSUME NEW i \in 1 .. Len(todo) - 1, todo[i + 1].op = "move" PROVE FALSE
      BY <3>1, <3>2
    <3>4. i + 1 \in DOMAIN todo /\ 1 \in 1 .. i + 1 - 1
      BY <2>3, <3>3
    <3>5. todo[1].op \in {"script", "flush", "flushed"}
      BY <3>3, <3>4 DEF RangeInv, MovesSound
    <3> QED
      BY <2>1, <2>3, <3>5
  <2> QED
    BY <1>1, <1>19, <2>1, <2>2, <2>5, <2>6, MovesGone DEF RangeInv
<1>15. CASE Replay \/ Commit \/ Download \/ Redirect
  <2>1. UNCHANGED <<history, idx>> /\ todo # <<>>
        /\ Head(todo).op \notin {"script", "flush", "flushed", "move"}
    BY <1>15 DEF Replay, Commit, Download, Strays, Redirect, Requests, OfPost, At
  <2>2. SlotsSound'
    <3>1. UNCHANGED <<intents, saved>> /\ flushed' \in {flushed, Nothing}
      BY <1>15 DEF Replay, Commit, Download, Strays, Redirect, Stashed, slotVars
    <3> QED
      BY <1>2, <1>22, <2>1, <3>1 DEF RangeInv, SlotsSound
  <2> DEFINE B == {<<>>, <<Do("post")>>, <<Do("fetch"), Do("restore")>>, <<Do("script")>>,
                   <<Do("putBack")>>, <<Do("redirected")>>}
  <2>3. PICK b \in B : todo' = b \o Tail(todo)
    BY <1>15 DEF Replay, Commit, Download, Redirect
  <2>4. \A c \in B : c \in Seq(RubyStep) /\ \A i \in 1 .. Len(c) : c[i].op # "move"
    <3>1. <<>> \in Seq(RubyStep) /\ \A i \in 1 .. Len(<<>>) : FALSE
      BY EmptySeq
    <3>2. ASSUME NEW op \in Op \ {"move"}
          PROVE  <<Do(op)>> \in Seq(RubyStep)
                 /\ \A i \in 1 .. Len(<<Do(op)>>) : <<Do(op)>>[i].op # "move"
      BY DoType
    <3>3. LET c == <<Do("fetch"), Do("restore")>> IN
          c \in Seq(RubyStep) /\ \A i \in 1 .. Len(c) : c[i].op # "move"
      BY DoType DEF Op
    <3> QED
      BY <3>1, <3>2, <3>3 DEF Op
  <2>5. MovesSound'
    BY <1>6, <2>1, <2>3, <2>4, MovesInFront
  <2> QED
    BY <1>1, <1>3, <2>1, <2>2, <2>5 DEF RangeInv
<1>16. CASE Raise
  <2>1. UNCHANGED <<history, idx, intents, saved, flushed>> /\ todo' = Ensured
    BY <1>16 DEF Raise, Strays
  <2> QED
    BY <1>1, <1>3, <1>19, <2>1, EnsuredSteps, MovesGone DEF RangeInv
<1>17. CASE RestoreIntents
  <2> DEFINE b == <<Do("location"), Do("reload"), Do("traverse"), Do("restored")>>
  <2>1. UNCHANGED <<history, idx>> /\ todo # <<>>
        /\ Head(todo).op \notin {"script", "flush", "flushed", "move"}
    BY <1>17 DEF RestoreIntents, At
  <2>2. todo' = b \o Tail(todo)
    BY <1>17 DEF RestoreIntents, Drain
  <2>3. b \in Seq(RubyStep) /\ \A i \in 1 .. Len(b) : b[i].op # "move"
    BY DoType DEF Op, Do
  <2> HIDE DEF b
  <2>4. MovesSound'
    BY <1>6, <2>1, <2>2, <2>3, MovesInFront
  <2>5. SlotsSound'
    <3>1. flushed' = Nothing /\ UNCHANGED saved
          /\ intents'["traverse"] \in {intents["traverse"], flushed["traverse"]}
      BY <1>17 DEF RestoreIntents, Stashed, Slot
    <3> QED
      BY <1>2, <1>22, <2>1, <3>1 DEF RangeInv, SlotsSound
  <2> QED
    BY <1>1, <1>3, <2>1, <2>4, <2>5 DEF RangeInv
<1> QED
  BY <1>7, <1>8, <1>9, <1>10, <1>11, <1>12, <1>13, <1>14, <1>15, <1>16, <1>17, <1>21
  DEF Next, Navigation

(* The index leaves the range only when the list was cut off behind a       *)
(* traversal that a page had asked for and that was still to be made:       *)
(* however pages and tests go about in the list, push, replace and          *)
(* navigate, in a flush or not, a behaviour that never cuts such a target   *)
(* off keeps the index inside (history_go, record_history,                  *)
(* consume_pending_history_traverse, perform_history_traverse).             *)
THEOREM OnlyCutTargetsLeaveRange == Spec /\ [][TargetsKept]_vars => []IndexInRange
<1>1. Init => RangeInv
  <2>1. Init => IndexInRange /\ SlotsSound /\ MovesSound
    BY DEF Init, IndexInRange, SlotsSound, MovesSound, Nothing, Slot, NoIntent
  <2> QED
    BY <2>1, InitType DEF RangeInv
<1>2. RangeInv => IndexInRange
  BY DEF RangeInv
<1>3. CallsInv /\ RangeInv /\ [Next]_vars /\ [TargetsKept]_vars => (CallsInv /\ RangeInv)'
  BY CallsInvStep, RangeStep
<1> QED
  BY <1>1, <1>2, <1>3, CallsInvInit, PTL DEF Spec
=============================================================================
