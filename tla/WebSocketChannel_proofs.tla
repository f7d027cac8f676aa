----------------------- MODULE WebSocketChannel_proofs -----------------------
(* Theorems about WebSocketChannel, for any number of connections, frames   *)
(* and answers.                                                             *)
EXTENDS WebSocketChannel, TLAPS, SequenceTheorems, FiniteSetTheorems

----------------------------------------------------------------------------
(* Sequences. *)

LEMMA ConcatEmptyRight ==
    ASSUME NEW S, NEW s \in Seq(S), NEW t, t = <<>> PROVE s \o t = s /\ t \o s = s
BY ConcatEmptySeq

(* What is appended at the end of the last part is at the end of the whole. *)
LEMMA ConcatAppend ==
    ASSUME NEW S, NEW s \in Seq(S), NEW t \in Seq(S), NEW e \in S
    PROVE  s \o Append(t, e) = Append(s \o t, e)
<1> DEFINE l == s \o Append(t, e)
           r == Append(s \o t, e)
<1>1. Append(t, e) \in Seq(S) /\ Len(Append(t, e)) = Len(t) + 1
      /\ (\A i \in 1 .. Len(t) : Append(t, e)[i] = t[i]) /\ Append(t, e)[Len(t) + 1] = e
  BY AppendProperties
<1>2. s \o t \in Seq(S) /\ Len(s \o t) = Len(s) + Len(t)
      /\ \A i \in 1 .. Len(s) + Len(t) :
            (s \o t)[i] = IF i <= Len(s) THEN s[i] ELSE t[i - Len(s)]
  BY ConcatProperties
<1>3. Len(s) \in Nat /\ Len(t) \in Nat
  BY LenProperties
<1>4. l \in Seq(S) /\ Len(l) = Len(s) + (Len(t) + 1)
      /\ \A i \in 1 .. Len(s) + (Len(t) + 1) :
            l[i] = IF i <= Len(s) THEN s[i] ELSE Append(t, e)[i - Len(s)]
  <2>1. l \in Seq(S) /\ Len(l) = Len(s) + Len(Append(t, e))
        /\ \A i \in 1 .. Len(s) + Len(Append(t, e)) :
              l[i] = IF i <= Len(s) THEN s[i] ELSE Append(t, e)[i - Len(s)]
    BY <1>1, ConcatProperties
  <2> QED
    BY <1>1, <2>1
<1>5. r \in Seq(S) /\ Len(r) = Len(s) + Len(t) + 1
      /\ (\A i \in 1 .. Len(s) + Len(t) : r[i] = (s \o t)[i]) /\ r[Len(s) + Len(t) + 1] = e
  <2>1. r \in Seq(S) /\ Len(r) = Len(s \o t) + 1
        /\ (\A i \in 1 .. Len(s \o t) : r[i] = (s \o t)[i]) /\ r[Len(s \o t) + 1] = e
    BY <1>2, AppendProperties
  <2> QED
    BY <1>2, <2>1
<1> HIDE DEF l, r
<1>6. ASSUME NEW i \in 1 .. Len(s) + (Len(t) + 1) PROVE l[i] = r[i]
  <2>1. CASE i <= Len(s)
    <3>1. i \in 1 .. Len(s) + Len(t)
      BY <1>3, <2>1
    <3> QED
      BY <1>2, <1>4, <1>5, <1>6, <2>1, <3>1
  <2>2. CASE i \in Len(s) + 1 .. Len(s) + Len(t)
    <3>1. i - Len(s) \in 1 .. Len(t) /\ ~(i <= Len(s)) /\ i \in 1 .. Len(s) + Len(t)
      BY <1>3, <2>2
    <3> QED
      BY <1>1, <1>2, <1>4, <1>5, <1>6, <3>1
  <2>3. CASE i = Len(s) + Len(t) + 1
    <3>1. i - Len(s) = Len(t) + 1 /\ ~(i <= Len(s))
      BY <1>3, <2>3
    <3> QED
      BY <1>1, <1>4, <1>5, <1>6, <2>3, <3>1
  <2> QED
    BY <1>3, <2>1, <2>2, <2>3
<1>7. l = r
  BY <1>3, <1>4, <1>5, <1>6, SeqEqual
<1> QED
  BY <1>7 DEF l, r

LEMMA HeadTail ==
    ASSUME NEW S, NEW s \in Seq(S), s # <<>>
    PROVE  <<Head(s)>> \o Tail(s) = s /\ <<Head(s)>> \in Seq(S) /\ Tail(s) \in Seq(S)
<1>1. Len(s) \in Nat \ {0} /\ Tail(s) \in Seq(S) /\ Tail(s) = SubSeq(s, 2, Len(s))
  BY EmptySeq, HeadTailProperties, TailIsSubSeq
<1>2. 1 \in 1 .. Len(s) /\ Len(s) \in 1 .. Len(s) /\ 1 + 1 = 2
  BY <1>1
<1>3. SubSeq(s, 1, Len(s)) = <<s[1]>> \o SubSeq(s, 2, Len(s))
  BY <1>2, SubSeqRecursiveFirst
<1>4. SubSeq(s, 1, Len(s)) = s /\ Head(s) = s[1]
  BY SubSeqFull
<1>5. Head(s) \in S
  BY HeadTailProperties
<1> QED
  BY <1>1, <1>3, <1>4, <1>5

----------------------------------------------------------------------------
(* Type correctness. *)

LEMMA EventType ==
    ASSUME NEW s \in Socket, NEW type \in Kind, NEW n \in Nat
    PROVE  [id |-> s, type |-> type, n |-> n] \in Event
BY DEF Event

LEMMA EnqueueType ==
    ASSUME TypeOK, NEW s \in Socket, NEW type \in Kind, NEW n \in Nat, Enqueue(s, type, n)
    PROVE  queue' \in Seq(Event)
BY EventType, AppendProperties DEF TypeOK, Enqueue

LEMMA ReaderStepType ==
    ASSUME TypeOK, NEW s \in Socket, NEW from, NEW type \in Kind, NEW n \in Nat,
           NEW to \in {"none", "handshake", "reading", "done", "killed"},
           ReaderStep(s, from, to, type, n)
    PROVE  TypeOK'
<1>1. queue' \in Seq(Event)
  BY EnqueueType DEF ReaderStep
<1> QED
  BY <1>1 DEF ReaderStep, TypeOK, pageVars, holdVars, deliveryVars

LEMMA DeliverType ==
    ASSUME TypeOK, NEW next \in {"idle", "hold"}, Deliver(next)
    PROVE  /\ queue' \in Seq(Event) /\ head' \in Seq(Event) /\ batch' \in Seq(Event)
           /\ Len(head') <= 1 /\ pos' \in 0 .. Len(batch') /\ handler' \in BOOLEAN
           /\ pc' \in {"idle", "hold", "deliver"} /\ back' \in {"idle", "hold"}
<1>1. head' = <<>> /\ queue' = <<>> /\ <<>> \in Seq(Event) /\ Len(<<>>) = 0
  BY EmptySeq DEF Deliver
<1>2. head \o queue \in Seq(Event)
  BY ConcatProperties DEF TypeOK
<1>3. Len(head \o queue) \in Nat
  BY <1>2, LenProperties
<1>4. 0 \in 0 .. Len(head \o queue)
  BY <1>3
<1>5. CASE head \o queue = <<>>
  <2>1. back' = back /\ batch' = batch /\ pos' = pos /\ handler' = handler /\ pc' = next
    BY <1>5 DEF Deliver, deliveryVars
  <2>2. pos' \in 0 .. Len(batch')
    BY <2>1 DEF TypeOK
  <2> QED
    BY <1>1, <2>1, <2>2 DEF TypeOK
<1>6. CASE head \o queue # <<>>
  <2>1. back' = next /\ batch' = head \o queue /\ pos' = 0 /\ handler' = FALSE /\ pc' = "deliver"
    BY <1>6 DEF Deliver
  <2>2. pos' \in 0 .. Len(batch') /\ batch' \in Seq(Event)
    BY <1>2, <1>4, <2>1
  <2>3. Len(head') <= 1
    BY <1>1
  <2> QED
    BY <1>1, <2>1, <2>2, <2>3
<1> QED
  BY <1>5, <1>6

LEMMA NoticesType ==
    /\ \A s \in [Socket -> Seq(Notice)], t \in Socket :
          s[t] \o <<>> \in Seq(Notice)
    /\ \A s \in [Socket -> Seq(Notice)], t \in Socket, a, b \in Notice :
          s[t] \o <<a>> \in Seq(Notice) /\ s[t] \o <<a, b>> \in Seq(Notice)
<1>1. <<>> \in Seq(Notice)
  BY EmptySeq
<1>2. \A a, b \in Notice : <<a>> \in Seq(Notice) /\ <<a, b>> \in Seq(Notice)
  OBVIOUS
<1> QED
  BY <1>1, <1>2, ConcatProperties

(* How many events of a delivery, and how many connections, have ended.     *)
LEMMA EndsFinite ==
    ASSUME TypeOK, NEW types
    PROVE  /\ Ends(types) \in Nat
           /\ IsFiniteSet({i \in DOMAIN batch : batch[i].type \in types})
<1>1. DOMAIN batch = 1 .. Len(batch) /\ Len(batch) \in Nat
  BY LenProperties DEF TypeOK
<1>2. IsFiniteSet(DOMAIN batch)
  BY <1>1, FS_Interval
<1> QED
  BY <1>2, FS_Subset, FS_CardinalityType DEF Ends

Ended == {batch[i].id : i \in {j \in DOMAIN batch : batch[j].type \in Terminal}}

LEMMA EndedFinite ==
    ASSUME TypeOK
    PROVE  Ended \subseteq Socket /\ IsFiniteSet(Ended) /\ IsFiniteSet(inFlight)
           /\ Cardinality(Ended) \in Nat /\ Cardinality(inFlight) \in Nat
           /\ Cardinality(Ended \ inFlight) \in Nat
<1>1. \A i \in DOMAIN batch : batch[i] \in Event
  BY ElementOfSeq, LenProperties DEF TypeOK
<1>2. Ended \subseteq Socket /\ inFlight \subseteq Socket
  BY <1>1 DEF Ended, Event, TypeOK
<1> QED
  BY <1>2, WebSocketAssumption, FS_Subset, FS_CardinalityType

LEMMA InitType == Init => TypeOK
<1>1. <<>> \in Seq(Event) /\ <<>> \in Seq(Notice) /\ Len(<<>>) = 0 /\ 0 \in 0 .. Len(<<>>)
  BY EmptySeq
<1> SUFFICES ASSUME Init PROVE TypeOK
  OBVIOUS
<1>2. seen \in [Socket -> Seq(Notice)]
  BY <1>1 DEF Init
<1>3. queue \in Seq(Event) /\ head \in Seq(Event) /\ batch \in Seq(Event) /\ Len(head) <= 1
      /\ pos \in 0 .. Len(batch)
  BY <1>1 DEF Init
<1>4. /\ js \in [Socket -> {"unborn", "connecting", "open", "closing", "closed", "gone"}]
      /\ failed \in [Socket -> BOOLEAN]
      /\ reader \in [Socket -> {"none", "handshake", "reading", "done", "killed"}]
      /\ sent \in [Socket -> Nat]
  BY DEF Init
<1> QED
  BY <1>2, <1>3, <1>4 DEF Init, TypeOK

LEMMA PageType == TypeOK /\ Page => TypeOK'
<1> SUFFICES ASSUME TypeOK, Page PROVE TypeOK'
  OBVIOUS
<1> USE DEF pageVars, readerVars, deliveryVars, holdVars
<1>1. ASSUME NEW s \in Socket, Open(s) PROVE TypeOK'
  <2>1. queue' \in Seq(Event)
    BY <1>1, EnqueueType DEF Open, Kind, TypeOK
  <2> QED
    BY <1>1, <2>1 DEF Open, TypeOK
<1>2. ASSUME NEW s \in Socket, Close(s) PROVE TypeOK'
  BY <1>2 DEF Close, TypeOK
<1>3. PageGone => js' \in [Socket -> {"unborn", "gone"}] /\ failed' \in [Socket -> BOOLEAN]
                  /\ seen' \in [Socket -> Seq(Notice)]
  BY EmptySeq DEF PageGone
<1>4. CASE Navigate
  BY <1>3, <1>4 DEF Navigate, TypeOK
<1>5. CASE Reset
  <2>1. <<>> \in Seq(Event) /\ Len(<<>>) = 0
    BY EmptySeq
  <2> QED
    BY <1>3, <1>5, <2>1 DEF Reset, TypeOK
<1> QED
  BY <1>1, <1>2, <1>4, <1>5 DEF Page

LEMMA ReaderType == TypeOK /\ Reader => TypeOK'
<1> SUFFICES ASSUME TypeOK, Reader PROVE TypeOK'
  OBVIOUS
<1>1. \A s \in Socket : sent[s] \in Nat
  BY DEF TypeOK
<1>2. 0 \in Nat /\ \A s \in Socket : sent[s] + 1 \in Nat
  BY <1>1
<1> QED
  BY <1>1, <1>2, ReaderStepType
  DEF Reader, Upgraded, Refused, ReadMessage, ReadEnd, Straggles, Kind, Terminal

LEMMA DeliveryType == TypeOK /\ Delivery => TypeOK'
<1> SUFFICES ASSUME TypeOK, Delivery PROVE TypeOK'
  OBVIOUS
<1> USE DEF pageVars, readerVars, deliveryVars, holdVars
<1>1. CASE DeliverOne
  <2> DEFINE e == batch[pos + 1]
  <2>1. Len(batch) \in Nat /\ pos \in Nat /\ pos < Len(batch)
    BY <1>1, LenProperties DEF TypeOK, DeliverOne
  <2>2. e \in Event
    BY <2>1, ElementOfSeq DEF TypeOK
  <2>3. pos' \in 0 .. Len(batch)
    BY <1>1, <2>1 DEF DeliverOne
  <2> HIDE DEF e
  <2>4. /\ js' \in [Socket -> {"unborn", "connecting", "open", "closing", "closed", "gone"}]
        /\ seen' \in [Socket -> Seq(Notice)] /\ handler' \in BOOLEAN
    <3>1. CASE ~Listed(e.id)
      BY <1>1, <3>1 DEF DeliverOne, e, TypeOK
    <3>2. ASSUME NEW state \in {"unborn", "connecting", "open", "closing", "closed", "gone"},
                 NEW notices, seen[e.id] \o notices \in Seq(Notice), Tell(e.id, state, notices)
          PROVE  /\ js' \in [Socket -> {"unborn", "connecting", "open", "closing", "closed", "gone"}]
                 /\ seen' \in [Socket -> Seq(Notice)] /\ handler' \in BOOLEAN
      BY <3>2 DEF Tell, TypeOK
    <3>3. CASE Listed(e.id)
      <4>1. Handle(e)
        BY <1>1, <3>3 DEF DeliverOne, e
      <4>2. e.id \in Socket /\ e.n \in Nat /\ e.type \in Kind /\ js[e.id] \in
              {"unborn", "connecting", "open", "closing", "closed", "gone"}
        BY <2>2 DEF Event, TypeOK
      <4>3. \A what \in {"open", "message", "error", "clean", "abnormal"}, n \in Nat :
                Note(what, n) \in Notice
        BY DEF Note, Notice
      <4>4. /\ seen[e.id] \o <<>> \in Seq(Notice)
            /\ \A a, b \in Notice : seen[e.id] \o <<a>> \in Seq(Notice)
                                    /\ seen[e.id] \o <<a, b>> \in Seq(Notice)
        BY <4>2, NoticesType DEF TypeOK
      <4> QED
        BY <3>2, <4>1, <4>2, <4>3, <4>4 DEF Handle, Kind
    <3> QED
      BY <3>1, <3>3
  <2> QED
    BY <1>1, <2>3, <2>4 DEF DeliverOne, TypeOK
<1>2. CASE DeliveryEnds
  <2>1. pending' \in Nat
    <3>1. pending' = Larger(pending - Ends(Terminal), 0)
      BY <1>2 DEF DeliveryEnds, Release
    <3>2. Ends(Terminal) \in Nat /\ pending \in Nat
      BY EndsFinite DEF TypeOK
    <3> QED
      BY <3>1, <3>2 DEF Larger
  <2>2. unsolicited' \in Nat /\ inFlight' \subseteq Socket
    BY <1>2, EndedFinite DEF DeliveryEnds, Release, Ended, TypeOK
  <2>3. <<>> \in Seq(Event) /\ Len(<<>>) = 0 /\ 0 \in 0 .. Len(<<>>)
    BY EmptySeq
  <2>4. batch' = <<>> /\ pos' = 0 /\ pos' \in 0 .. Len(batch')
    BY <1>2, <2>3 DEF DeliveryEnds, Release
  <2> QED
    BY <1>2, <2>1, <2>2, <2>3, <2>4 DEF DeliveryEnds, Release, TypeOK
<1> QED
  BY <1>1, <1>2 DEF Delivery

LEMMA MainType == TypeOK /\ (Frame \/ Settle \/ BudgetRunsOut) => TypeOK'
<1> SUFFICES ASSUME TypeOK, Frame \/ Settle \/ BudgetRunsOut PROVE TypeOK'
  OBVIOUS
<1> USE DEF pageVars, readerVars, deliveryVars, holdVars
<1>1. CASE Settle \/ LastTurn \/ HoldDelivers \/ Advance
  <2>1. (Deliver("idle") \/ Deliver("hold")) /\ deadline' \in {deadline, "none"}
    BY <1>1 DEF Settle, LastTurn, HoldDelivers, Advance
  <2>2. /\ queue' \in Seq(Event) /\ head' \in Seq(Event) /\ batch' \in Seq(Event)
        /\ Len(head') <= 1 /\ pos' \in 0 .. Len(batch') /\ handler' \in BOOLEAN
        /\ pc' \in {"idle", "hold", "deliver"} /\ back' \in {"idle", "hold"}
    BY <2>1, DeliverType
  <2> QED
    BY <1>1, <2>1, <2>2 DEF Settle, LastTurn, HoldDelivers, Advance, TypeOK
<1>2. CASE Park
  <2>1. <<Head(queue)>> \in Seq(Event) /\ Tail(queue) \in Seq(Event) /\ Len(<<Head(queue)>>) = 1
    BY <1>2, HeadTail DEF Park, TypeOK
  <2> QED
    BY <1>2, <2>1 DEF Park, TypeOK
<1>3. CASE NoHold \/ HoldWaits \/ ParkTimesOut \/ BudgetRunsOut
  BY <1>3 DEF NoHold, HoldWaits, ParkTimesOut, BudgetRunsOut, TypeOK
<1> QED
  BY <1>1, <1>2, <1>3 DEF Frame

LEMMA TypeStep == TypeOK /\ [Next]_vars => TypeOK'
<1>1. TypeOK /\ UNCHANGED vars => TypeOK'
  BY DEF vars, pageVars, readerVars, deliveryVars, holdVars, TypeOK
<1> QED
  BY <1>1, PageType, ReaderType, DeliveryType, MainType DEF Next

(* Every variable of the channel keeps its type in every behaviour.         *)
THEOREM TypeCorrect == Spec => []TypeOK
BY InitType, TypeStep, PTL DEF Spec

----------------------------------------------------------------------------
(* What a page was told, as a sequence of notices. *)

TimesIn(q, what) == {i \in DOMAIN q : q[i].what = what}
Told(q) == Cardinality(TimesIn(q, "message"))

Numbered(q) ==
    \A i \in TimesIn(q, "message") :
        q[i].n = Cardinality({j \in TimesIn(q, "message") : j <= i})

(* A life so far, and one that may be over. *)
Living(q, f) ==
    /\ TimesIn(q, "open") \subseteq {1}
    /\ f => TimesIn(q, "open") = {}
    /\ TimesIn(q, "clean") = {} /\ TimesIn(q, "abnormal") = {}
    /\ Numbered(q)

Lived(q, f) ==
    /\ TimesIn(q, "open") \subseteq {1}
    /\ f => TimesIn(q, "open") \cup TimesIn(q, "clean") = {}
    /\ TimesIn(q, "clean") \cup TimesIn(q, "abnormal") \subseteq {Len(q)}
    /\ TimesIn(q, "clean") # {} => 1 \in TimesIn(q, "open")
    /\ Numbered(q)
    /\ \A i \in TimesIn(q, "clean") : q[i].n = Told(q)

LEMMA ToldFinite ==
    ASSUME NEW q \in Seq(Notice), NEW what
    PROVE  /\ TimesIn(q, what) \subseteq 1 .. Len(q) /\ IsFiniteSet(TimesIn(q, what))
           /\ Cardinality(TimesIn(q, what)) \in Nat
<1>1. DOMAIN q = 1 .. Len(q) /\ Len(q) \in Nat
  BY LenProperties
<1>2. TimesIn(q, what) \in SUBSET (1 .. Len(q))
  BY <1>1 DEF TimesIn
<1>3. IsFiniteSet(1 .. Len(q))
  BY <1>1, FS_Interval
<1>4. IsFiniteSet(TimesIn(q, what))
  BY <1>2, <1>3, FS_Subset
<1> QED
  BY <1>2, <1>4, FS_CardinalityType

LEMMA LivingLived == ASSUME NEW q, NEW f, Living(q, f) PROVE Lived(q, f)
BY DEF Living, Lived

LEMMA NothingToldYet == ASSUME NEW f PROVE Living(<<>>, f) /\ Told(<<>>) = 0
<1>1. \A what : TimesIn(<<>>, what) = {}
  BY DEF TimesIn
<1> QED
  BY <1>1, FS_EmptySet DEF Living, Numbered, Told

(* One notice more. *)
Extends(q, a, r) ==
    /\ r \in Seq(Notice) /\ Len(r) = Len(q) + 1 /\ Len(q) \in Nat /\ r # <<>>
    /\ \A i \in 1 .. Len(q) : r[i] = q[i]
    /\ r[Len(q) + 1] = a
    /\ TimesIn(r, a.what) = TimesIn(q, a.what) \cup {Len(q) + 1}
    /\ \A what : what # a.what => TimesIn(r, what) = TimesIn(q, what)

LEMMA OneMore ==
    ASSUME NEW q \in Seq(Notice), NEW a \in Notice
    PROVE  Extends(q, a, q \o <<a>>)
<1> DEFINE r == q \o <<a>>
<1>1. r = Append(q, a)
  BY AppendIsConcat
<1>2. /\ r \in Seq(Notice) /\ Len(r) = Len(q) + 1 /\ r # <<>>
      /\ \A i \in 1 .. Len(q) : r[i] = q[i]
      /\ r[Len(q) + 1] = a
  BY <1>1, AppendProperties
<1> HIDE DEF r
<1>3. DOMAIN r = 1 .. Len(q) + 1 /\ DOMAIN q = 1 .. Len(q) /\ Len(q) \in Nat
  BY <1>2, LenProperties
<1>4. 1 .. Len(q) + 1 = 1 .. Len(q) \cup {Len(q) + 1}
  BY <1>3
<1>5. \A i \in DOMAIN r : i \in DOMAIN q \/ i = Len(q) + 1
  BY <1>3, <1>4
<1>6. \A i \in DOMAIN q : i \in DOMAIN r
  BY <1>3, <1>4
<1>7. Len(q) + 1 \in DOMAIN r
  BY <1>3, <1>4
<1>8. TimesIn(r, a.what) = TimesIn(q, a.what) \cup {Len(q) + 1}
  BY <1>2, <1>3, <1>5, <1>6, <1>7 DEF TimesIn
<1>9. \A what : what # a.what => TimesIn(r, what) = TimesIn(q, what)
  BY <1>2, <1>3, <1>5, <1>6, <1>7 DEF TimesIn
<1>10. Extends(q, a, r)
  BY <1>2, <1>3, <1>8, <1>9 DEF Extends
<1> QED
  BY <1>10 DEF r

(* A notice that is no frame leaves the numbering alone. *)
LEMMA NumberedKept ==
    ASSUME NEW q \in Seq(Notice), NEW a \in Notice, a.what # "message", Numbered(q),
           NEW r, Extends(q, a, r)
    PROVE  Numbered(r) /\ Told(r) = Told(q)
<1>1. /\ \A i \in 1 .. Len(q) : r[i] = q[i]
      /\ TimesIn(r, "message") = TimesIn(q, "message")
  BY DEF Extends
<1>2. TimesIn(q, "message") \subseteq 1 .. Len(q)
  BY ToldFinite
<1> QED
  BY <1>1, <1>2 DEF Numbered, Told

(* The next frame. *)
LEMMA MessageTold ==
    ASSUME NEW q \in Seq(Notice), NEW f, Living(q, f), NEW a \in Notice,
           a.what = "message", a.n = Told(q) + 1
    PROVE  Living(q \o <<a>>, f) /\ Told(q \o <<a>>) = Told(q) + 1
<1> DEFINE r == q \o <<a>>
           M == TimesIn(q, "message")
           k == Len(q) + 1
<1>0. Extends(q, a, r)
  BY OneMore
<1> HIDE DEF r
<1>1. /\ \A i \in 1 .. Len(q) : r[i] = q[i]
      /\ r[k] = a /\ Len(q) \in Nat
      /\ TimesIn(r, "message") = M \cup {k}
      /\ \A what : what # "message" => TimesIn(r, what) = TimesIn(q, what)
  BY <1>0 DEF Extends
<1>2. M \subseteq 1 .. Len(q) /\ IsFiniteSet(M)
  BY ToldFinite
<1>3. Told(q) = Cardinality(M)
  BY DEF Told
<1>4. \A i \in M : i \in 1 .. Len(q) /\ i <= k /\ ~(k <= i)
  BY <1>1, <1>2
<1>5. \A i \in M : {j \in M \cup {k} : j <= i} = {j \in M : j <= i}
  BY <1>4
<1>6. {j \in M \cup {k} : j <= k} = M \cup {k}
  BY <1>1, <1>4
<1>7. Cardinality(M \cup {k}) = Cardinality(M) + 1
  BY <1>2, <1>4, FS_AddElement
<1>8. Numbered(r)
  <2>1. \A i \in M : r[i].n = Cardinality({j \in M \cup {k} : j <= i})
    <3>1. \A i \in M : q[i].n = Cardinality({j \in M : j <= i})
      BY DEF Living, Numbered
    <3> QED
      BY <1>1, <1>4, <1>5, <3>1
  <2>2. r[k].n = Cardinality({j \in M \cup {k} : j <= k})
    BY <1>1, <1>3, <1>6, <1>7
  <2> HIDE DEF M, k
  <2> QED
    BY <1>1, <2>1, <2>2 DEF Numbered
<1>9. Told(r) = Told(q) + 1
  BY <1>1, <1>3, <1>7 DEF Told
<1>10. Living(r, f)
  BY <1>1, <1>8 DEF Living
<1> QED
  BY <1>9, <1>10 DEF r

LEMMA OpenTold ==
    ASSUME NEW a \in Notice, a.what = "open"
    PROVE  LET r == <<>> \o <<a>> IN
           Living(r, FALSE) /\ Told(r) = 0 /\ r # <<>> /\ r[1].what = "open"
<1> DEFINE q == <<>>  r == q \o <<a>>
<1>1. q \in Seq(Notice) /\ Len(q) = 0 /\ Numbered(q) /\ Told(q) = 0
      /\ \A what : TimesIn(q, what) = {}
  BY EmptySeq, NothingToldYet DEF Living, TimesIn
<1>0. Extends(q, a, r)
  <2> HIDE DEF q
  <2> QED
    BY <1>1, OneMore
<1> HIDE DEF q, r
<1>2. /\ r # <<>> /\ r[1] = a /\ TimesIn(r, a.what) = {1}
      /\ \A what : what # a.what => TimesIn(r, what) = {}
  <2>1. /\ r # <<>> /\ r[Len(q) + 1] = a
        /\ TimesIn(r, a.what) = TimesIn(q, a.what) \cup {Len(q) + 1}
        /\ \A what : what # a.what => TimesIn(r, what) = TimesIn(q, what)
    BY <1>0, <1>1 DEF Extends
  <2> QED
    BY <1>1, <2>1
<1>3. Numbered(r) /\ Told(r) = 0
  BY <1>0, <1>1, NumberedKept
<1>4. Living(r, FALSE)
  BY <1>2, <1>3 DEF Living
<1> QED
  BY <1>2, <1>3, <1>4 DEF q, r

(* The close event. *)
LEMMA CloseTold ==
    ASSUME NEW q \in Seq(Notice), NEW f \in BOOLEAN, Living(q, f), NEW a \in Notice,
           a.what = IF f THEN "abnormal" ELSE "clean",
           ~f => a.n = Told(q) /\ q # <<>> /\ q[1].what = "open"
    PROVE  Lived(q \o <<a>>, f)
<1> DEFINE r == q \o <<a>>  k == Len(q) + 1
<1>0. Extends(q, a, r)
  BY OneMore
<1> HIDE DEF r
<1>1. /\ \A i \in 1 .. Len(q) : r[i] = q[i]
      /\ r[k] = a /\ Len(q) \in Nat /\ Len(r) = k
      /\ TimesIn(r, a.what) = TimesIn(q, a.what) \cup {k}
      /\ \A what : what # a.what => TimesIn(r, what) = TimesIn(q, what)
  BY <1>0 DEF Extends
<1>2. Numbered(r) /\ Told(r) = Told(q)
  BY <1>0, NumberedKept DEF Living
<1>3. q # <<>> => 1 \in DOMAIN q
  BY EmptySeq, LenProperties
<1> HIDE DEF k
<1>4. ~f => 1 \in TimesIn(q, "open")
  BY <1>3 DEF TimesIn
<1>5. Lived(r, f)
  BY <1>1, <1>2, <1>4 DEF Living, Lived
<1> QED
  BY <1>5 DEF r

(* An error, and the close event that goes with it. *)
LEMMA ErrorTold ==
    ASSUME NEW q \in Seq(Notice), NEW f, Living(q, f), NEW a \in Notice, NEW b \in Notice,
           a.what = "error", b.what = "abnormal"
    PROVE  Lived(q \o <<a, b>>, f)
<1> DEFINE p == q \o <<a>>  r == p \o <<b>>
<1>1. p \in Seq(Notice) /\ r = q \o <<a, b>>
  <2>1. <<a>> \in Seq(Notice) /\ <<b>> \in Seq(Notice) /\ <<a, b>> \in Seq(Notice)
    OBVIOUS
  <2>2. <<a>> \o <<b>> = <<a, b>>
    <3> DEFINE s == <<a>>  t == <<b>>  u == <<a, b>>
    <3>1. /\ s \o t \in Seq(Notice) /\ Len(s \o t) = Len(s) + Len(t)
          /\ \A i \in 1 .. Len(s) + Len(t) :
                (s \o t)[i] = IF i <= Len(s) THEN s[i] ELSE t[i - Len(s)]
      <4> HIDE DEF s, t
      <4> QED
        BY <2>1, ConcatProperties DEF s, t
    <3>2. Len(s) = 1 /\ Len(t) = 1 /\ Len(u) = 2 /\ s[1] = a /\ t[1] = b /\ u[1] = a /\ u[2] = b
      OBVIOUS
    <3> HIDE DEF s, t, u
    <3>3. \A i \in 1 .. 2 : i = 1 \/ (i = 2 /\ i - 1 = 1 /\ ~(i <= 1))
      OBVIOUS
    <3>4. Len(s \o t) = 2 /\ \A i \in 1 .. 2 : (s \o t)[i] = u[i]
      BY <3>1, <3>2, <3>3
    <3>5. s \o t = u
      BY <2>1, <3>1, <3>2, <3>4, SeqEqual DEF u
    <3> QED
      BY <3>5 DEF s, t, u
  <2>3. p \in Seq(Notice)
    BY OneMore
  <2>4. (q \o <<a>>) \o <<b>> = q \o (<<a>> \o <<b>>)
    BY <2>1, ConcatAssociative
  <2> QED
    BY <2>2, <2>3, <2>4
<1>0. Extends(q, a, p) /\ Extends(p, b, r)
  BY <1>1, OneMore
<1> HIDE DEF p, r
<1>2. \A what : what # "error" => TimesIn(p, what) = TimesIn(q, what)
  BY <1>0 DEF Extends
<1>3. Numbered(p)
  BY <1>0, NumberedKept DEF Living
<1>4. /\ Len(r) = Len(p) + 1
      /\ TimesIn(r, "abnormal") = TimesIn(p, "abnormal") \cup {Len(p) + 1}
      /\ \A what : what # "abnormal" => TimesIn(r, what) = TimesIn(p, what)
  BY <1>0, <1>1 DEF Extends
<1>5. Numbered(r)
  BY <1>0, <1>1, <1>3, NumberedKept
<1>6. Lived(r, f)
  BY <1>2, <1>4, <1>5 DEF Living, Lived
<1> QED
  BY <1>1, <1>6

----------------------------------------------------------------------------
(* The way of the events: what is being delivered, the parked event, the    *)
(* queue; and what of it no page object has seen yet.                       *)

Path == batch \o (head \o queue)
Flow == SubSeq(Path, pos + 1, Len(Path))

(* Where the main thread may leave events, and where a parked one may be.   *)
ThreadInv ==
    /\ pc # "deliver" => batch = <<>> /\ pos = 0
    /\ pc \in {"park", "deliver"} => head = <<>>

(* g is f with e behind it, and f without its first.                        *)
Longer(f, e, g) ==
    /\ Len(f) \in Nat /\ Len(g) = Len(f) + 1
    /\ DOMAIN f = 1 .. Len(f) /\ DOMAIN g = 1 .. Len(f) + 1
    /\ \A i \in 1 .. Len(f) : g[i] = f[i]
    /\ g[Len(f) + 1] = e

Shorter(f, g) ==
    /\ Len(f) \in Nat \ {0} /\ Len(g) = Len(f) - 1
    /\ DOMAIN f = 1 .. Len(f) /\ DOMAIN g = 1 .. Len(f) - 1
    /\ \A i \in 1 .. Len(f) - 1 : g[i] = f[i + 1]

LEMMA PathType ==
    ASSUME TypeOK
    PROVE  /\ head \o queue \in Seq(Event) /\ Path \in Seq(Event) /\ Len(Path) \in Nat
           /\ DOMAIN Path = 1 .. Len(Path) /\ \A i \in 1 .. Len(Path) : Path[i] \in Event
           /\ Len(batch) \in Nat /\ DOMAIN batch = 1 .. Len(batch)
           /\ pos \in 0 .. Len(batch) /\ pos \in Nat
           /\ Len(Path) = Len(batch) + Len(head \o queue)
           /\ Len(head \o queue) \in Nat
           /\ \A i \in 1 .. Len(batch) : Path[i] = batch[i]
           /\ \A i \in 1 .. Len(head \o queue) : Path[Len(batch) + i] = (head \o queue)[i]
<1> DEFINE q == head \o queue
<1>1. q \in Seq(Event) /\ batch \in Seq(Event)
  BY ConcatProperties DEF TypeOK
<1>2. Len(q) \in Nat /\ Len(batch) \in Nat /\ DOMAIN batch = 1 .. Len(batch)
  BY <1>1, LenProperties
<1> HIDE DEF q
<1>3. /\ batch \o q \in Seq(Event) /\ Len(batch \o q) = Len(batch) + Len(q)
      /\ \A i \in 1 .. Len(batch) + Len(q) :
            (batch \o q)[i] = IF i <= Len(batch) THEN batch[i] ELSE q[i - Len(batch)]
  BY <1>1, ConcatProperties
<1>4. Path = batch \o q
  BY DEF Path, q
<1>5. \A i \in 1 .. Len(batch) : i \in 1 .. Len(batch) + Len(q) /\ i <= Len(batch)
  BY <1>2
<1>6. \A i \in 1 .. Len(q) : /\ Len(batch) + i \in 1 .. Len(batch) + Len(q)
                             /\ ~(Len(batch) + i <= Len(batch))
                             /\ Len(batch) + i - Len(batch) = i
  BY <1>2
<1>7. /\ \A i \in 1 .. Len(batch) : Path[i] = batch[i]
      /\ \A i \in 1 .. Len(q) : Path[Len(batch) + i] = q[i]
  BY <1>3, <1>4, <1>5, <1>6
<1>8. Len(Path) \in Nat /\ DOMAIN Path = 1 .. Len(Path)
      /\ \A i \in 1 .. Len(Path) : Path[i] \in Event
  BY <1>3, <1>4, LenProperties, ElementOfSeq
<1>9. pos \in 0 .. Len(batch) /\ pos \in Nat
  BY <1>2 DEF TypeOK
<1> QED
  BY <1>1, <1>2, <1>3, <1>4, <1>7, <1>8, <1>9 DEF q

LEMMA FlowType ==
    ASSUME TypeOK
    PROVE  /\ Flow \in Seq(Event) /\ Len(Flow) = Len(Path) - pos /\ Len(Flow) \in Nat
           /\ DOMAIN Flow = 1 .. Len(Flow)
           /\ \A i \in 1 .. Len(Flow) : Flow[i] = Path[pos + i]
           /\ \A i \in 1 .. Len(Flow) : pos + i \in 1 .. Len(Path) /\ Flow[i] \in Event
<1>1. /\ Path \in Seq(Event) /\ Len(Path) \in Nat /\ pos \in Nat /\ pos <= Len(Path)
      /\ \A i \in 1 .. Len(Path) : Path[i] \in Event
  <2>1. /\ Path \in Seq(Event) /\ Len(Path) \in Nat /\ pos \in Nat
        /\ \A i \in 1 .. Len(Path) : Path[i] \in Event
    BY PathType
  <2>2. Len(batch) \in Nat /\ Len(head \o queue) \in Nat /\ pos \in 0 .. Len(batch)
        /\ Len(Path) = Len(batch) + Len(head \o queue)
    BY PathType
  <2> QED
    BY <2>1, <2>2
<1>2. /\ SubSeq(Path, pos + 1, Len(Path)) \in Seq(Event)
      /\ Len(SubSeq(Path, pos + 1, Len(Path))) =
             IF pos + 1 <= Len(Path) THEN Len(Path) - (pos + 1) + 1 ELSE 0
      /\ \A i \in 1 .. Len(Path) - (pos + 1) + 1 :
             SubSeq(Path, pos + 1, Len(Path))[i] = Path[pos + 1 + i - 1]
  <2>1. \A i \in pos + 1 .. Len(Path) : Path[i] \in Event
    BY <1>1
  <2>2. pos + 1 \in Int /\ Len(Path) \in Int
    BY <1>1
  <2> QED
    BY <2>1, <2>2, SubSeqProperties
<1>3. Len(Flow) = Len(Path) - pos /\ Len(Flow) \in Nat
  BY <1>1, <1>2 DEF Flow
<1>4. ASSUME NEW i \in 1 .. Len(Flow)
      PROVE  Flow[i] = Path[pos + i] /\ pos + i \in 1 .. Len(Path)
  <2>1. i \in 1 .. Len(Path) - (pos + 1) + 1 /\ pos + 1 + i - 1 = pos + i
        /\ pos + i \in 1 .. Len(Path)
    BY <1>1, <1>3
  <2> QED
    BY <1>2, <2>1 DEF Flow
<1>5. Flow \in Seq(Event) /\ DOMAIN Flow = 1 .. Len(Flow)
  BY <1>2, LenProperties DEF Flow
<1> QED
  BY <1>1, <1>3, <1>4, <1>5

(* An event goes into the queue.                                            *)
LEMMA PathGrows ==
    ASSUME TypeOK, TypeOK', NEW e \in Event, queue' = Append(queue, e),
           UNCHANGED <<head, batch, pos>>
    PROVE  Longer(Path, e, Path') /\ Longer(Flow, e, Flow')
<1>1. head \in Seq(Event) /\ queue \in Seq(Event) /\ batch \in Seq(Event)
      /\ head \o queue \in Seq(Event) /\ Path \in Seq(Event)
  BY PathType DEF TypeOK
<1>2. (head \o queue)' = Append(head \o queue, e)
  BY <1>1, ConcatAppend
<1>3. Path' = Append(Path, e)
  <2> DEFINE q == head \o queue
  <2>1. batch \o Append(q, e) = Append(batch \o q, e)
    <3> HIDE DEF q
    <3> QED
      BY <1>1, ConcatAppend DEF q
  <2>2. Path' = batch \o Append(q, e) /\ Path = batch \o q
    BY <1>2 DEF Path
  <2> QED
    BY <2>1, <2>2
<1>4. Len(Path) \in Nat /\ DOMAIN Path = 1 .. Len(Path) /\ pos \in Nat
  BY PathType
<1>5. /\ Len(Path') = Len(Path) + 1
      /\ \A i \in 1 .. Len(Path) : Path'[i] = Path[i]
      /\ Path'[Len(Path) + 1] = e
  BY <1>1, <1>3, AppendProperties
<1>6. DOMAIN Path' = 1 .. Len(Path) + 1
  <2>1. (DOMAIN Path = 1 .. Len(Path))'
    BY PathType, PTL
  <2> QED
    BY <1>5, <2>1
<1>7. Longer(Path, e, Path')
  BY <1>4, <1>5, <1>6 DEF Longer
<1>8. /\ Len(Flow) = Len(Path) - pos /\ Len(Flow) \in Nat /\ DOMAIN Flow = 1 .. Len(Flow)
      /\ \A i \in 1 .. Len(Flow) : Flow[i] = Path[pos + i]
      /\ \A i \in 1 .. Len(Flow) : pos + i \in 1 .. Len(Path)
  BY FlowType
<1>9. /\ Len(Flow') = Len(Path') - pos /\ DOMAIN Flow' = 1 .. Len(Flow')
      /\ \A i \in 1 .. Len(Flow') : Flow'[i] = Path'[pos + i]
  <2>1. (/\ Len(Flow) = Len(Path) - pos /\ Len(Flow) \in Nat /\ DOMAIN Flow = 1 .. Len(Flow)
         /\ \A i \in 1 .. Len(Flow) : Flow[i] = Path[pos + i])'
    BY FlowType, PTL
  <2> QED
    BY <2>1
<1>10. Len(Flow') = Len(Flow) + 1
  BY <1>4, <1>5, <1>8, <1>9
<1>11. \A i \in 1 .. Len(Flow) : Flow'[i] = Flow[i]
  <2>1. \A i \in 1 .. Len(Flow) : i \in 1 .. Len(Flow')
    BY <1>8, <1>10
  <2> QED
    BY <1>5, <1>8, <1>9, <2>1
<1>12. Flow'[Len(Flow) + 1] = e
  <2>1. Len(Flow) + 1 \in 1 .. Len(Flow') /\ pos + (Len(Flow) + 1) = Len(Path) + 1
    BY <1>4, <1>8, <1>10
  <2> QED
    BY <1>5, <1>9, <2>1
<1>13. Longer(Flow, e, Flow')
  BY <1>8, <1>9, <1>10, <1>11, <1>12 DEF Longer
<1> QED
  BY <1>7, <1>13

(* websocket.js takes the next event of the delivery.                       *)
LEMMA FlowShrinks ==
    ASSUME TypeOK, TypeOK', pos < Len(batch), pos' = pos + 1, UNCHANGED <<head, batch, queue>>
    PROVE  Path' = Path /\ Shorter(Flow, Flow') /\ Flow[1] = batch[pos + 1]
           /\ batch[pos + 1] \in Event
<1>1. Path' = Path
  BY DEF Path
<1>2. /\ Len(Path) \in Nat /\ pos \in Nat /\ Len(batch) \in Nat /\ pos + 1 <= Len(Path)
      /\ \A i \in 1 .. Len(batch) : Path[i] = batch[i] /\ batch[i] \in Event
  <2>1. /\ Len(Path) \in Nat /\ pos \in Nat /\ Len(batch) \in Nat
        /\ Len(Path) = Len(batch) + Len(head \o queue) /\ Len(head \o queue) \in Nat
    BY PathType
  <2>2. \A i \in 1 .. Len(batch) : Path[i] = batch[i] /\ batch[i] \in Event
    BY PathType, ElementOfSeq DEF TypeOK
  <2> QED
    BY <2>1, <2>2
<1>3. /\ Len(Flow) = Len(Path) - pos /\ Len(Flow) \in Nat /\ DOMAIN Flow = 1 .. Len(Flow)
      /\ \A i \in 1 .. Len(Flow) : Flow[i] = Path[pos + i]
  BY FlowType
<1>4. /\ Len(Flow') = Len(Path) - (pos + 1) /\ DOMAIN Flow' = 1 .. Len(Flow')
      /\ \A i \in 1 .. Len(Flow') : Flow'[i] = Path[pos + 1 + i]
  <2>1. (/\ Len(Flow) = Len(Path) - pos /\ Len(Flow) \in Nat /\ DOMAIN Flow = 1 .. Len(Flow)
         /\ \A i \in 1 .. Len(Flow) : Flow[i] = Path[pos + i])'
    BY FlowType, PTL
  <2> QED
    BY <1>1, <2>1
<1>5. Len(Flow) \in Nat \ {0} /\ Len(Flow') = Len(Flow) - 1
  BY <1>2, <1>3, <1>4
<1>6. \A i \in 1 .. Len(Flow) - 1 : Flow'[i] = Flow[i + 1]
  <2>1. \A i \in 1 .. Len(Flow) - 1 :
            i \in 1 .. Len(Flow') /\ i + 1 \in 1 .. Len(Flow) /\ pos + 1 + i = pos + (i + 1)
    BY <1>2, <1>5
  <2> QED
    BY <1>3, <1>4, <2>1
<1>7. Flow[1] = batch[pos + 1] /\ batch[pos + 1] \in Event
  <2>1. pos + 1 \in 1 .. Len(batch) /\ 1 \in 1 .. Len(Flow)
    BY <1>2, <1>5
  <2> QED
    BY <1>2, <1>3, <2>1
<1> QED
  BY <1>1, <1>3, <1>4, <1>5, <1>6, <1>7 DEF Shorter

(* The delivery is over: what is left is what was queued meanwhile.         *)
LEMMA PathReleased ==
    ASSUME TypeOK, TypeOK', pos = Len(batch), batch' = <<>>, pos' = 0, UNCHANGED <<head, queue>>
    PROVE  /\ Flow' = Flow
           /\ Len(Path') = Len(Path) - pos /\ DOMAIN Path' = 1 .. Len(Path) - pos
           /\ \A i \in 1 .. Len(Path) - pos : Path'[i] = Path[pos + i]
<1>1. /\ Len(Path) \in Nat /\ pos \in Nat /\ head \o queue \in Seq(Event)
      /\ Len(Path) = pos + Len(head \o queue) /\ Len(head \o queue) \in Nat
      /\ \A i \in 1 .. Len(head \o queue) : Path[pos + i] = (head \o queue)[i]
  BY PathType
<1>2. Path' = head \o queue
  <2>1. Path' = batch' \o (head \o queue)
    BY DEF Path
  <2> DEFINE q == head \o queue  b == batch'
  <2>2. q \in Seq(Event) /\ b = <<>>
    BY <1>1
  <2>3. b \o q = q
    <3> HIDE DEF q, b
    <3> QED
      BY <2>2, ConcatEmptyRight
  <2> QED
    BY <2>1, <2>3
<1>3. /\ Len(Path') = Len(Path) - pos
      /\ \A i \in 1 .. Len(Path) - pos : Path'[i] = Path[pos + i]
  BY <1>1, <1>2
<1>4. DOMAIN Path' = 1 .. Len(Path')
  BY <1>1, <1>2, LenProperties
<1>5. Flow' = Flow
  <2>1. /\ Flow \in Seq(Event) /\ Len(Flow) = Len(Path) - pos
        /\ \A i \in 1 .. Len(Flow) : Flow[i] = Path[pos + i]
    BY FlowType
  <2>2. /\ Flow' \in Seq(Event) /\ Len(Flow') = Len(Path') - 0
        /\ \A i \in 1 .. Len(Flow') : Flow'[i] = Path'[0 + i]
    <3>1. (/\ Flow \in Seq(Event) /\ Len(Flow) = Len(Path) - pos
           /\ \A i \in 1 .. Len(Flow) : Flow[i] = Path[pos + i])'
      BY FlowType, PTL
    <3> QED
      BY <3>1
  <2>3. Len(Flow') = Len(Flow) /\ \A i \in 1 .. Len(Flow) : 0 + i = i
    BY <1>1, <1>3, <2>1, <2>2
  <2>4. \A i \in 1 .. Len(Flow) : Flow'[i] = Flow[i]
    BY <1>3, <2>1, <2>2, <2>3
  <2> QED
    BY <2>1, <2>2, <2>3, <2>4, SeqEqual
<1> QED
  BY <1>3, <1>4, <1>5

(* The other steps of the main thread move events without losing any.       *)
LEMMA PathKept ==
    ASSUME TypeOK, ThreadInv, Frame \/ Settle \/ BudgetRunsOut
    PROVE  /\ Path' = Path /\ pos' = pos /\ Flow' = Flow
           /\ UNCHANGED <<pageVars, readerVars, pending, inFlight, unsolicited>>
           /\ ThreadInv'
<1>1. head \in Seq(Event) /\ queue \in Seq(Event) /\ batch \in Seq(Event)
      /\ head \o queue \in Seq(Event)
  BY PathType DEF TypeOK
<1>2. Path' = Path /\ pos' = pos => Flow' = Flow
  BY DEF Flow
<1>3. UNCHANGED <<pageVars, readerVars, pending, inFlight, unsolicited>>
  BY DEF Frame, Settle, BudgetRunsOut, LastTurn, NoHold, HoldWaits, Park, ParkTimesOut,
         HoldDelivers, Advance, holdVars
<1>4. ASSUME NEW next \in {"idle", "hold"}, Deliver(next), pc # "deliver"
      PROVE  Path' = Path /\ pos' = pos /\ ThreadInv'
  <2>1. batch = <<>> /\ pos = 0
    BY <1>4 DEF ThreadInv
  <2>2. Path = head \o queue
    <3> DEFINE q == head \o queue
    <3>1. batch \o q = q
      <4> HIDE DEF q
      <4> QED
        BY <1>1, <2>1, ConcatEmptyRight DEF q
    <3> QED
      BY <3>1 DEF Path
  <2>3. head' = <<>> /\ queue' = <<>> /\ <<>> \in Seq(Event)
    BY <1>4, EmptySeq DEF Deliver
  <2>4. head' \o queue' = <<>>
    BY <2>3, ConcatEmptyRight
  <2>5. batch' \in Seq(Event) => Path' = batch'
    BY <2>4, ConcatEmptyRight DEF Path
  <2>6. CASE head \o queue = <<>>
    <3>1. UNCHANGED <<batch, pos>> /\ pc' = next
      BY <1>4, <2>6 DEF Deliver, deliveryVars
    <3> QED
      BY <1>1, <1>4, <2>1, <2>2, <2>3, <2>5, <2>6, <3>1 DEF ThreadInv
  <2>7. CASE head \o queue # <<>>
    <3>1. batch' = head \o queue /\ pos' = 0 /\ pc' = "deliver"
      BY <1>4, <2>7 DEF Deliver
    <3> QED
      BY <1>1, <2>1, <2>2, <2>3, <2>5, <3>1 DEF ThreadInv
  <2> QED
    BY <2>6, <2>7
<1>5. CASE Settle \/ LastTurn \/ HoldDelivers \/ Advance
  BY <1>2, <1>3, <1>4, <1>5 DEF Settle, LastTurn, HoldDelivers, Advance
<1>6. CASE Park
  <2>1. head = <<>> /\ queue # <<>> /\ batch = <<>> /\ pos = 0
    BY <1>6 DEF Park, ThreadInv
  <2>2. head' = <<Head(queue)>> /\ queue' = Tail(queue) /\ UNCHANGED <<batch, pos>> /\ pc' = "hold"
    BY <1>6 DEF Park, deliveryVars
  <2>3. head' \o queue' = queue
    BY <1>1, <2>1, <2>2, HeadTail
  <2>4. head \o queue = queue
    BY <1>1, <2>1, ConcatEmptyRight
  <2>5. Path' = Path
    BY <2>2, <2>3, <2>4 DEF Path
  <2> QED
    BY <1>2, <1>3, <2>1, <2>2, <2>5 DEF ThreadInv
<1>7. CASE NoHold \/ HoldWaits \/ ParkTimesOut \/ BudgetRunsOut
  <2>1. UNCHANGED <<head, queue, batch, pos>>
    BY <1>7 DEF NoHold, HoldWaits, ParkTimesOut, BudgetRunsOut, deliveryVars
  <2>2. Path' = Path
    BY <2>1 DEF Path
  <2>3. HoldWaits => head = <<>>
    BY <1>1, ConcatEqualIffEmpty DEF HoldWaits
  <2>4. ThreadInv'
    BY <1>7, <2>1, <2>3 DEF NoHold, HoldWaits, ParkTimesOut, BudgetRunsOut, ThreadInv
  <2> QED
    BY <1>2, <1>3, <2>1, <2>2, <2>4
<1> QED
  BY <1>5, <1>6, <1>7 DEF Frame

----------------------------------------------------------------------------
(* What holds of the pages' objects and of the readers, whatever the page   *)
(* was told.                                                                *)

PageInv ==
    \A s \in Socket :
        /\ js[s] = "unborn" => /\ reader[s] = "none" /\ sent[s] = 0 /\ seen[s] = <<>>
                               /\ ~failed[s] /\ s \notin inFlight
        /\ s \in inFlight => js[s] \notin {"connecting", "open"}
        /\ reader[s] = "killed" => js[s] = "gone"
        /\ js[s] = "gone" => seen[s] = <<>> /\ ~failed[s]

(* The end of a connection is the last event of it, and comes once.         *)
OnceInv ==
    /\ \A i, j \in DOMAIN Path :
          i < j /\ Path[i].id = Path[j].id => Path[i].type \notin Terminal
    /\ \A i \in DOMAIN Path :
          /\ js[Path[i].id] # "unborn" /\ reader[Path[i].id] \notin {"handshake", "killed"}
          /\ reader[Path[i].id] = "reading" => Path[i].type \notin Terminal

(* An event goes into the queue; at most its own connection changes.        *)
LEMMA OnceGrows ==
    ASSUME TypeOK, OnceInv, NEW e \in Event, Longer(Path, e, Path'),
           \A i \in DOMAIN Path : Path[i].id = e.id => Path[i].type \notin Terminal,
           \A s \in Socket : s # e.id => js'[s] = js[s] /\ reader'[s] = reader[s],
           js'[e.id] # "unborn", reader'[e.id] \notin {"handshake", "killed"},
           reader'[e.id] = "reading" => e.type \notin Terminal
    PROVE  OnceInv'
<1>1. /\ Len(Path) \in Nat
      /\ DOMAIN Path = 1 .. Len(Path) /\ DOMAIN Path' = 1 .. Len(Path) + 1
      /\ \A i \in 1 .. Len(Path) : Path'[i] = Path[i]
      /\ Path'[Len(Path) + 1] = e
  BY DEF Longer
<1>2. \A i \in DOMAIN Path' : i \in DOMAIN Path \/ i = Len(Path) + 1
  BY <1>1
<1>3. \A i \in DOMAIN Path : Path[i] \in Event /\ Path[i].id \in Socket
  BY PathType DEF Event
<1>4. ASSUME NEW i \in DOMAIN Path', NEW j \in DOMAIN Path', i < j, Path'[i].id = Path'[j].id
      PROVE  Path'[i].type \notin Terminal
  <2>1. i \in DOMAIN Path /\ Path'[i] = Path[i]
    BY <1>1, <1>4
  <2>2. CASE j \in DOMAIN Path
    BY <1>1, <1>4, <2>1, <2>2 DEF OnceInv
  <2>3. CASE j = Len(Path) + 1
    BY <1>1, <1>4, <2>1, <2>3
  <2> QED
    BY <1>2, <2>2, <2>3
<1>5. ASSUME NEW i \in DOMAIN Path'
      PROVE  /\ js'[Path'[i].id] # "unborn" /\ reader'[Path'[i].id] \notin {"handshake", "killed"}
             /\ reader'[Path'[i].id] = "reading" => Path'[i].type \notin Terminal
  <2>1. CASE i \in DOMAIN Path /\ Path[i].id = e.id
    BY <1>1, <2>1
  <2>2. CASE i \in DOMAIN Path /\ Path[i].id # e.id
    <3>1. Path'[i] = Path[i] /\ Path[i].id \in Socket
      BY <1>1, <1>3, <2>2
    <3> QED
      BY <2>2, <3>1 DEF OnceInv
  <2>3. CASE i = Len(Path) + 1
    BY <1>1, <2>3
  <2> QED
    BY <1>2, <2>1, <2>2, <2>3
<1> QED
  BY <1>4, <1>5 DEF OnceInv

(* Nothing goes into the queue, and no connection goes back to a state in   *)
(* which it has no events.                                                  *)
LEMMA OnceKept ==
    ASSUME TypeOK, OnceInv, Path' = Path, UNCHANGED reader,
           \A s \in Socket : js[s] # "unborn" => js'[s] # "unborn"
    PROVE  OnceInv'
<1>1. \A i \in DOMAIN Path : Path[i].id \in Socket
  BY PathType DEF Event
<1> QED
  BY <1>1 DEF OnceInv

LEMMA OnceReleased ==
    ASSUME TypeOK, OnceInv, UNCHANGED <<js, reader>>,
           DOMAIN Path' = 1 .. Len(Path) - pos,
           \A i \in 1 .. Len(Path) - pos : Path'[i] = Path[pos + i]
    PROVE  OnceInv'
<1>1. pos \in Nat /\ Len(Path) \in Nat /\ DOMAIN Path = 1 .. Len(Path)
  BY PathType
<1>2. \A i \in 1 .. Len(Path) - pos : pos + i \in DOMAIN Path
  BY <1>1
<1>3. \A i, j \in 1 .. Len(Path) - pos : i < j => pos + i < pos + j
  BY <1>1
<1> QED
  BY <1>2, <1>3 DEF OnceInv

(* A reader's step, in the order of its life.                               *)
LEMMA OnceReader ==
    ASSUME TypeOK, TypeOK', OnceInv, PageInv, NEW s \in Socket, NEW from, NEW to,
           NEW type \in Kind, NEW n \in Nat, ReaderStep(s, from, to, type, n),
           from \in {"handshake", "reading", "killed"}, to \in {"reading", "done", "none"},
           to = "reading" => type \notin Terminal
    PROVE  OnceInv'
<1> DEFINE e == [id |-> s, type |-> type, n |-> n]
<1>1. e \in Event /\ e.id = s /\ e.type = type
  BY DEF Event
<1>2. queue' = Append(queue, e) /\ UNCHANGED <<head, batch, pos, js>> /\ reader[s] = from
      /\ reader' = [reader EXCEPT ![s] = to]
  BY DEF ReaderStep, Enqueue, pageVars, deliveryVars
<1> HIDE DEF e
<1>3. Longer(Path, e, Path')
  BY <1>1, <1>2, PathGrows
<1>4. \A i \in DOMAIN Path : Path[i].id = e.id => Path[i].type \notin Terminal
  BY <1>1, <1>2 DEF OnceInv
<1>5. js[s] # "unborn"
  BY <1>2 DEF PageInv
<1>6. reader'[s] = to /\ \A t \in Socket : t # s => reader'[t] = reader[t]
  BY <1>2 DEF TypeOK
<1> QED
  BY <1>1, <1>2, <1>3, <1>4, <1>5, <1>6, OnceGrows

LEMMA OnceStep ==
    TypeOK /\ TypeOK' /\ ThreadInv /\ PageInv /\ OnceInv /\ [Next]_vars => OnceInv'
<1> SUFFICES ASSUME TypeOK, TypeOK', ThreadInv, PageInv, OnceInv, [Next]_vars PROVE OnceInv'
  OBVIOUS
<1>1. ASSUME NEW s \in Socket, Open(s) PROVE OnceInv'
  <2>1. js[s] = "unborn" /\ js'[s] = "connecting" /\ UNCHANGED <<head, batch, pos>>
        /\ \A t \in Socket : t # s => js'[t] = js[t]
    BY <1>1 DEF Open, TypeOK, deliveryVars
  <2>2. CASE reader' = [reader EXCEPT ![s] = "handshake"] /\ UNCHANGED queue
    <3>1. Path' = Path
      BY <2>1, <2>2 DEF Path
    <3>2. \A i \in DOMAIN Path : Path[i].id \in Socket /\ Path[i].id # s
      BY <2>1, PathType DEF OnceInv, Event
    <3>3. \A t \in Socket : t # s => reader'[t] = reader[t]
      BY <2>2 DEF TypeOK
    <3> QED
      BY <2>1, <3>1, <3>2, <3>3 DEF OnceInv
  <2>3. CASE Enqueue(s, "error", 0) /\ UNCHANGED reader
    <3> DEFINE e == [id |-> s, type |-> "error", n |-> 0]
    <3>1. e \in Event /\ e.id = s /\ queue' = Append(queue, e)
      BY <2>3 DEF Event, Kind, Enqueue
    <3> HIDE DEF e
    <3>2. Longer(Path, e, Path')
      BY <2>1, <3>1, PathGrows
    <3>3. \A i \in DOMAIN Path : Path[i].id # s
      BY <2>1 DEF OnceInv
    <3>4. reader'[s] = "none"
      BY <2>1, <2>3 DEF PageInv
    <3> QED
      BY <2>1, <2>3, <3>1, <3>2, <3>3, <3>4, OnceGrows
  <2> QED
    BY <1>1, <2>2, <2>3 DEF Open
<1>2. ASSUME NEW s \in Socket, Close(s) PROVE OnceInv'
  <2>1. js' = [js EXCEPT ![s] = "closing"] /\ UNCHANGED <<head, queue, batch, reader>>
    BY <1>2 DEF Close, readerVars, deliveryVars
  <2>2. Path' = Path /\ \A t \in Socket : js[t] # "unborn" => js'[t] # "unborn"
    BY <2>1 DEF Path, TypeOK
  <2> QED
    BY <2>1, <2>2, OnceKept
<1>3. CASE Navigate
  <2>1. UNCHANGED <<head, queue, batch, reader>>
        /\ \A t \in Socket : js[t] # "unborn" => js'[t] # "unborn"
    BY <1>3 DEF Navigate, PageGone, readerVars, deliveryVars
  <2>2. Path' = Path
    BY <2>1 DEF Path
  <2> QED
    BY <2>1, <2>2, OnceKept
<1>4. CASE Reset
  <2>1. batch' = <<>> /\ head' = <<>> /\ queue' = <<>> /\ <<>> \in Seq(Event)
    BY <1>4, EmptySeq DEF Reset, ThreadInv, deliveryVars
  <2>2. head' \o queue' = <<>>
    BY <2>1, ConcatEmptyRight
  <2>3. Path' = <<>>
    BY <2>1, <2>2, ConcatEmptyRight DEF Path
  <2> QED
    BY <2>3 DEF OnceInv
<1>5. CASE Reader
  <2>1. 0 \in Nat /\ \A s \in Socket : sent[s] \in Nat /\ sent[s] + 1 \in Nat
    BY DEF TypeOK
  <2>2. ASSUME NEW s \in Socket, Upgraded(s) PROVE OnceInv'
    BY <2>1, <2>2, OnceReader DEF Upgraded, Kind, Terminal
  <2>3. ASSUME NEW s \in Socket, Refused(s) PROVE OnceInv'
    BY <2>1, <2>3, OnceReader DEF Refused, Kind, Terminal
  <2>4. ASSUME NEW s \in Socket, ReadMessage(s) PROVE OnceInv'
    BY <2>1, <2>4, OnceReader DEF ReadMessage, Kind, Terminal
  <2>5. ASSUME NEW s \in Socket, ReadEnd(s) PROVE OnceInv'
    BY <2>1, <2>5, OnceReader DEF ReadEnd, Kind, Terminal
  <2>6. ASSUME NEW s \in Socket, Straggles(s) PROVE OnceInv'
    BY <2>1, <2>6, OnceReader DEF Straggles
  <2> QED
    BY <1>5, <2>2, <2>3, <2>4, <2>5, <2>6 DEF Reader
<1>6. CASE DeliverOne
  <2>1. pos < Len(batch) /\ pos' = pos + 1 /\ UNCHANGED <<head, batch, queue, reader>>
    BY <1>6 DEF DeliverOne, readerVars
  <2>2. Path' = Path /\ batch[pos + 1] \in Event
    BY <2>1, FlowShrinks
  <2> DEFINE e == batch[pos + 1]
  <2> HIDE DEF e
  <2>3. \A t \in Socket : js[t] # "unborn" => js'[t] # "unborn"
    <3>1. CASE ~Listed(e.id)
      BY <1>6, <3>1 DEF DeliverOne, e
    <3>2. CASE Listed(e.id)
      <4>1. Handle(e) /\ e.type \in Kind
        BY <1>6, <2>2, <3>2 DEF DeliverOne, e, Event
      <4>2. \E state \in {"open", "closed", js[e.id]} : js' = [js EXCEPT ![e.id] = state]
        BY <4>1 DEF Handle, Tell, Kind
      <4> QED
        BY <3>2, <4>2 DEF Listed, TypeOK
    <3> QED
      BY <3>1, <3>2
  <2> QED
    BY <2>1, <2>2, <2>3, OnceKept
<1>7. CASE DeliveryEnds
  <2>1. pos = Len(batch) /\ batch' = <<>> /\ pos' = 0 /\ UNCHANGED <<head, queue, js, reader>>
    BY <1>7 DEF DeliveryEnds, Release, pageVars, readerVars
  <2> QED
    BY <2>1, PathReleased, OnceReleased
<1>8. CASE Frame \/ Settle \/ BudgetRunsOut
  <2>1. Path' = Path /\ UNCHANGED <<js, reader>>
    BY <1>8, PathKept DEF pageVars, readerVars
  <2> QED
    BY <2>1, OnceKept
<1>9. CASE UNCHANGED vars
  <2>1. UNCHANGED <<js, reader>> /\ Path' = Path
    BY <1>9 DEF vars, pageVars, readerVars, deliveryVars, Path
  <2> QED
    BY <2>1, OnceKept
<1> QED
  BY <1>1, <1>2, <1>3, <1>4, <1>5, <1>6, <1>7, <1>8, <1>9 DEF Next, Page, Delivery

LEMMA ThreadStep == TypeOK /\ ThreadInv /\ [Next]_vars => ThreadInv'
<1> SUFFICES ASSUME TypeOK, ThreadInv, [Next]_vars PROVE ThreadInv'
  OBVIOUS
<1> USE DEF pageVars, readerVars, deliveryVars, holdVars
<1>1. CASE Page
  BY <1>1 DEF Page, Open, Close, Navigate, Reset, ThreadInv
<1>2. CASE Reader
  BY <1>2 DEF Reader, Upgraded, Refused, ReadMessage, ReadEnd, Straggles, ReaderStep, ThreadInv
<1>3. CASE DeliverOne
  BY <1>3 DEF DeliverOne, ThreadInv
<1>4. CASE DeliveryEnds
  BY <1>4 DEF DeliveryEnds, Release, ThreadInv, TypeOK
<1>5. CASE Frame \/ Settle \/ BudgetRunsOut
  BY <1>5, PathKept
<1>6. CASE UNCHANGED vars
  BY <1>6 DEF vars, ThreadInv
<1> QED
  BY <1>1, <1>2, <1>3, <1>4, <1>5, <1>6 DEF Next, Delivery

LEMMA PageStep == TypeOK /\ TypeOK' /\ ThreadInv /\ PageInv /\ [Next]_vars => PageInv'
<1> SUFFICES ASSUME TypeOK, TypeOK', ThreadInv, PageInv, [Next]_vars PROVE PageInv'
  OBVIOUS
<1>1. ASSUME NEW s \in Socket, Open(s) PROVE PageInv'
  <2>1. /\ js' = [js EXCEPT ![s] = "connecting"] /\ js[s] = "unborn" /\ reader[s] = "none"
        /\ s \notin inFlight /\ UNCHANGED <<failed, seen, sent, inFlight>>
        /\ (reader' = [reader EXCEPT ![s] = "handshake"] \/ UNCHANGED reader)
    BY <1>1 DEF Open, PageInv, holdVars
  <2> QED
    BY <2>1 DEF PageInv, TypeOK
<1>2. ASSUME NEW s \in Socket, Close(s) PROVE PageInv'
  <2>1. /\ js' = [js EXCEPT ![s] = "closing"] /\ js[s] \in {"connecting", "open"}
        /\ inFlight' \in {inFlight, inFlight \cup {s}} /\ UNCHANGED <<seen, sent, reader>>
        /\ \E f : failed' = [failed EXCEPT ![s] = f]
    BY <1>2 DEF Close, readerVars
  <2> QED
    BY <2>1 DEF PageInv, TypeOK
<1>3. ASSUME PageGone, UNCHANGED <<reader, sent, inFlight>> PROVE PageInv'
  BY <1>3 DEF PageGone, PageInv, TypeOK
<1>4. CASE Navigate
  BY <1>3, <1>4 DEF Navigate, readerVars, holdVars
<1>5. CASE Reset
  BY <1>5 DEF Reset, PageGone, PageInv, TypeOK
<1>6. ASSUME NEW s \in Socket, NEW from \in {"handshake", "reading", "killed"},
             NEW to \in {"none", "reading", "done"}, NEW type, NEW n, ReaderStep(s, from, to, type, n)
      PROVE  PageInv'
  <2>1. /\ reader' = [reader EXCEPT ![s] = to] /\ reader[s] = from
        /\ sent' = [sent EXCEPT ![s] = n] /\ js[s] # "unborn"
        /\ UNCHANGED <<js, failed, seen, inFlight>>
    BY <1>6 DEF ReaderStep, pageVars, holdVars, PageInv
  <2> QED
    BY <2>1 DEF PageInv, TypeOK
<1>7. CASE Reader
  BY <1>6, <1>7 DEF Reader, Upgraded, Refused, ReadMessage, ReadEnd, Straggles
<1>8. CASE DeliverOne
  <2> DEFINE e == batch[pos + 1]
  <2>1. e \in Event /\ UNCHANGED <<failed, reader, sent, inFlight>>
    BY <1>8, FlowShrinks DEF DeliverOne, readerVars, holdVars
  <2> HIDE DEF e
  <2>2. e.id \in Socket /\ e.type \in Kind
    BY <2>1 DEF Event
  <2>3. CASE ~Listed(e.id)
    BY <1>8, <2>1, <2>3 DEF DeliverOne, e, PageInv
  <2>4. CASE Listed(e.id)
    <3>1. Handle(e)
      BY <1>8, <2>4 DEF DeliverOne, e
    <3>2. \E state, notices : /\ js' = [js EXCEPT ![e.id] = state]
                              /\ seen' = [seen EXCEPT ![e.id] = @ \o notices]
                              /\ (state \in {js[e.id], "closed"}
                                  \/ (state = "open" /\ js[e.id] = "connecting"))
      BY <2>2, <3>1 DEF Handle, Tell, Kind
    <3>3. js[e.id] \in {"connecting", "open", "closing"}
      BY <2>4 DEF Listed
    <3>4. js'[e.id] \notin {"unborn", "gone"}
          /\ (js'[e.id] \in {"connecting", "open"} => js[e.id] \in {"connecting", "open"})
      BY <2>2, <3>2, <3>3 DEF TypeOK
    <3>5. \A t \in Socket : t # e.id => js'[t] = js[t] /\ seen'[t] = seen[t]
      BY <2>2, <3>2 DEF TypeOK
    <3>6. reader[e.id] # "killed"
      BY <2>2, <3>3 DEF PageInv
    <3> QED
      BY <2>1, <2>2, <3>3, <3>4, <3>5, <3>6 DEF PageInv
  <2> QED
    BY <2>3, <2>4
<1>9. CASE DeliveryEnds
  BY <1>9 DEF DeliveryEnds, Release, pageVars, readerVars, PageInv
<1>10. CASE Frame \/ Settle \/ BudgetRunsOut
  BY <1>10, PathKept DEF pageVars, readerVars, PageInv
<1>11. CASE UNCHANGED vars
  BY <1>11 DEF vars, pageVars, readerVars, holdVars, PageInv
<1> QED
  BY <1>1, <1>2, <1>4, <1>5, <1>7, <1>8, <1>9, <1>10, <1>11 DEF Next, Page, Delivery

----------------------------------------------------------------------------
(* The hold.  A delivery counts every terminal event in it, and the         *)
(* connections those are of are as many.                                    *)

LEMMA EndsAreEnded ==
    ASSUME TypeOK, OnceInv
    PROVE  Ends(Terminal) = Cardinality(Ended)
<1> DEFINE I == {i \in DOMAIN batch : batch[i].type \in Terminal}
           f == [i \in I |-> batch[i].id]
<1>1. Ended = {f[i] : i \in I}
  BY DEF Ended
<1>2. f \in Surjection(I, Ended)
  BY <1>1 DEF Surjection
<1>3. IsFiniteSet(I)
  BY EndsFinite
<1>4. \A i \in I : i \in 1 .. Len(batch) /\ i \in DOMAIN Path /\ Path[i] = batch[i]
  <2>1. /\ DOMAIN batch = 1 .. Len(batch) /\ Len(batch) \in Nat
        /\ \A i \in 1 .. Len(batch) : Path[i] = batch[i]
    BY PathType
  <2>2. DOMAIN Path = 1 .. Len(Path) /\ Len(batch) <= Len(Path) /\ Len(Path) \in Nat
    <3>1. DOMAIN Path = 1 .. Len(Path) /\ Len(Path) \in Nat /\ Len(batch) \in Nat
          /\ Len(head \o queue) \in Nat /\ Len(Path) = Len(batch) + Len(head \o queue)
      BY PathType
    <3> QED
      BY <3>1
  <2> QED
    BY <2>1, <2>2
<1>5. ASSUME NEW i \in I, NEW j \in I, f[i] = f[j] PROVE i = j
  <2>1. i < j \/ j < i \/ i = j
    BY <1>4
  <2>2. batch[i].id = batch[j].id /\ batch[i].type \in Terminal /\ batch[j].type \in Terminal
    BY <1>5
  <2> QED
    BY <1>4, <2>1, <2>2 DEF OnceInv
<1>6. f \in Injection(I, Ended)
  BY <1>2, <1>5 DEF Injection, Surjection, IsInjective
<1>7. Cardinality(Ended) = Cardinality(I)
  BY <1>2, <1>3, <1>6, FS_Surjection
<1> QED
  BY <1>7 DEF Ends

LEMMA LargerIs ==
    ASSUME NEW m \in Int PROVE Larger(m, 0) \in Nat /\ Larger(m, 0) >= m
                               /\ (Larger(m, 0) = m \/ Larger(m, 0) = 0)
BY DEF Larger

LEMMA Released ==
    ASSUME NEW p \in Nat, NEW u \in Nat, NEW E \in Nat, NEW A \in Nat, NEW F \in Nat,
           NEW n \in Nat, p <= F, F <= p + u, A <= F, A <= E, n >= p - E, n = p - E \/ n = 0
    PROVE  n <= F - A /\ F - A <= n + (u + (E - A))
OBVIOUS

LEMMA HoldStep ==
    TypeOK /\ ThreadInv /\ PageInv /\ OnceInv /\ HoldIsOwed /\ HoldLostOnlyToOthers /\ [Next]_vars
        => HoldIsOwed' /\ HoldLostOnlyToOthers'
<1> SUFFICES ASSUME TypeOK, ThreadInv, PageInv, OnceInv, HoldIsOwed, HoldLostOnlyToOthers,
                    [Next]_vars
             PROVE  HoldIsOwed' /\ HoldLostOnlyToOthers'
  OBVIOUS
<1> USE DEF HoldIsOwed, HoldLostOnlyToOthers
<1>1. /\ IsFiniteSet(inFlight) /\ Cardinality(inFlight) \in Nat /\ pending \in Nat
      /\ unsolicited \in Nat
  BY EndedFinite DEF TypeOK
<1>2. ASSUME UNCHANGED <<pending, inFlight, unsolicited>> PROVE HoldIsOwed' /\ HoldLostOnlyToOthers'
  BY <1>2
<1>3. ASSUME NEW s \in Socket, Close(s) PROVE HoldIsOwed' /\ HoldLostOnlyToOthers'
  <2>1. UNCHANGED unsolicited /\ s \notin inFlight
    BY <1>3 DEF Close, PageInv
  <2>2. CASE UNCHANGED <<pending, inFlight>>
    BY <1>2, <2>1, <2>2
  <2>3. CASE pending' = pending + 1 /\ inFlight' = inFlight \cup {s}
    <3>1. Cardinality(inFlight') = Cardinality(inFlight) + 1
      BY <1>1, <2>1, <2>3, FS_AddElement
    <3> QED
      BY <1>1, <2>1, <2>3, <3>1
  <2> QED
    BY <1>3, <2>2, <2>3 DEF Close
<1>4. CASE Reset
  BY <1>4, FS_EmptySet DEF Reset
<1>5. CASE DeliveryEnds
  <2> DEFINE E == Cardinality(Ended)
             A == Cardinality(inFlight \cap Ended)
             O == Cardinality(Ended \ inFlight)
             F == Cardinality(inFlight)
  <2>1. /\ pending' = Larger(pending - Ends(Terminal), 0)
        /\ inFlight' = inFlight \ Ended
        /\ unsolicited' = unsolicited + O
    BY <1>5 DEF DeliveryEnds, Release, Ended
  <2>2. IsFiniteSet(Ended) /\ E \in Nat /\ O \in Nat /\ F \in Nat
    BY EndedFinite
  <2>3. Cardinality(inFlight') = F - A
    BY <1>1, <2>1, FS_Difference
  <2>4. O = E - A
    <3>1. Ended \cap inFlight = inFlight \cap Ended
      OBVIOUS
    <3> QED
      BY <2>2, <3>1, FS_Difference
  <2>5. A \in Nat /\ A <= F /\ A <= E
    BY <1>1, <2>2, FS_Intersection, FS_CardinalityType
  <2>6. Ends(Terminal) = E
    BY EndsAreEnded
  <2>7. pending - E \in Int
    BY <1>1, <2>2
  <2>8. /\ pending' \in Nat /\ pending' >= pending - E
        /\ (pending' = pending - E \/ pending' = 0)
    BY <2>1, <2>6, <2>7, LargerIs
  <2>9. pending <= F /\ F <= pending + unsolicited
    OBVIOUS
  <2> HIDE DEF E, A, O, F
  <2>10. pending' <= F - A /\ F - A <= pending' + (unsolicited + O)
    BY <1>1, <2>2, <2>4, <2>5, <2>8, <2>9, Released
  <2> QED
    BY <2>1, <2>3, <2>10
<1>6. ASSUME NEW s \in Socket, Open(s) PROVE HoldIsOwed' /\ HoldLostOnlyToOthers'
  BY <1>2, <1>6 DEF Open, holdVars
<1>7. CASE Navigate \/ Reader \/ DeliverOne
  BY <1>2, <1>7 DEF Navigate, Reader, Upgraded, Refused, ReadMessage, ReadEnd, Straggles,
                    ReaderStep, DeliverOne, holdVars
<1>8. CASE Frame \/ Settle \/ BudgetRunsOut
  BY <1>2, <1>8, PathKept
<1>9. CASE UNCHANGED vars
  BY <1>2, <1>9 DEF vars, holdVars
<1> QED
  BY <1>3, <1>4, <1>5, <1>6, <1>7, <1>8, <1>9 DEF Next, Page, Delivery

(* What holds of connections and their events, whatever the page was told.  *)
FlowInv == TypeOK /\ ThreadInv /\ PageInv /\ OnceInv

LEMMA FlowInvInit == Init => FlowInv
<1> SUFFICES ASSUME Init PROVE FlowInv
  OBVIOUS
<1>1. ThreadInv /\ PageInv
  BY DEF Init, ThreadInv, PageInv
<1>2. Path = <<>>
  BY EmptySeq, ConcatEmptyRight DEF Init, Path
<1>3. OnceInv
  BY <1>2 DEF OnceInv
<1> QED
  BY <1>1, <1>3, InitType DEF FlowInv

LEMMA FlowInvStep == FlowInv /\ [Next]_vars => FlowInv'
<1>1. TypeOK /\ [Next]_vars => TypeOK'
  BY TypeStep
<1> QED
  BY <1>1, ThreadStep, PageStep, OnceStep DEF FlowInv

LEMMA HoldAlways == Spec => [](HoldIsOwed /\ HoldLostOnlyToOthers)
<1>1. Init => HoldIsOwed /\ HoldLostOnlyToOthers
  BY FS_EmptySet DEF Init, HoldIsOwed, HoldLostOnlyToOthers
<1>2. FlowInv /\ HoldIsOwed /\ HoldLostOnlyToOthers /\ [Next]_vars
      => FlowInv' /\ HoldIsOwed' /\ HoldLostOnlyToOthers'
  BY FlowInvStep, HoldStep DEF FlowInv
<1> QED
  BY <1>1, <1>2, FlowInvInit, PTL DEF Spec

(* The hold never waits for an answer that was already delivered: whatever  *)
(* ends, the counter is at most the handshakes still unanswered (ws_close,  *)
(* deliver_websocket_events).                                               *)
THEOREM HoldAlwaysOwed == Spec => []HoldIsOwed
BY HoldAlways, PTL

(* And it lets go early by no more than the ends nobody asked for.          *)
THEOREM HoldOnlyLostToOthers == Spec => []HoldLostOnlyToOthers
BY HoldAlways, PTL

----------------------------------------------------------------------------
(* The story of one connection: what its page was told so far, and what is  *)
(* still on its way to a page object that listens.                          *)

Opens == {"open", "bad_open"}

(* Where the events of connection s are.                                    *)
Mine(s) == {i \in DOMAIN Flow : Flow[i].id = s}

EndAhead(s) ==
    reader[s] \in {"none", "done"} => \E i \in Mine(s) : Flow[i].type \in Terminal

(* An object that still connects is told of its opening before the rest.    *)
OpensAhead(s) ==
    /\ reader[s] = "reading" => \E i \in Mine(s) : Flow[i].type \in Opens
    /\ \A i \in Mine(s) : Flow[i].type \in {"message", "close"} =>
           \E k \in Mine(s) : k < i /\ Flow[k].type \in Opens

(* The frames ahead are those read and not yet told, in their order, and an *)
(* end knows how many there were.                                           *)
FramesAhead(s) ==
    /\ Told(seen[s]) <= sent[s]
    /\ \A i \in Mine(s) :
          /\ Flow[i].type = "message" =>
                 Flow[i].n >= Told(seen[s]) + 1 /\ Flow[i].n <= sent[s]
          /\ Flow[i].type \in Terminal => Flow[i].n = sent[s]
    /\ \A i, j \in Mine(s) :
          i < j /\ Flow[i].type = "message" /\ Flow[j].type = "message" => Flow[i].n < Flow[j].n
    /\ \A m \in Nat : Told(seen[s]) + 1 <= m /\ m <= sent[s] =>
          \E i \in Mine(s) : Flow[i].type = "message" /\ Flow[i].n = m

Story(s) ==
    /\ Living(seen[s], failed[s])
    /\ reader[s] = "handshake" => sent[s] = 0 /\ seen[s] = <<>>
    /\ js[s] = "connecting" => seen[s] = <<>> /\ ~failed[s] /\ OpensAhead(s)
    /\ js[s] = "open" => ~failed[s]
    /\ js[s] \in {"open", "closing"} /\ ~failed[s] => seen[s] # <<>> /\ seen[s][1].what = "open"
    /\ EndAhead(s)
    /\ FramesAhead(s)

StoryInv ==
    \A s \in Socket : Lived(seen[s], failed[s]) /\ (Listed(s) => Story(s))

LEMMA MineOnce ==
    ASSUME TypeOK, OnceInv, NEW s \in Socket
    PROVE  /\ Mine(s) \subseteq 1 .. Len(Flow) /\ Len(Flow) \in Nat
           /\ \A i \in Mine(s) : Flow[i] \in Event /\ Flow[i].id = s
           /\ \A i, j \in Mine(s) : i < j => Flow[i].type \notin Terminal
           /\ \A i \in Mine(s) :
                 /\ js[s] # "unborn" /\ reader[s] \notin {"handshake", "killed"}
                 /\ reader[s] = "reading" => Flow[i].type \notin Terminal
<1>1. /\ Len(Flow) \in Nat /\ DOMAIN Flow = 1 .. Len(Flow)
      /\ \A i \in 1 .. Len(Flow) : Flow[i] = Path[pos + i]
      /\ \A i \in 1 .. Len(Flow) : pos + i \in 1 .. Len(Path) /\ Flow[i] \in Event
  BY FlowType
<1>2. DOMAIN Path = 1 .. Len(Path) /\ pos \in Nat
  BY PathType
<1>3. \A i, j \in 1 .. Len(Flow) : i < j => pos + i < pos + j
  BY <1>1, <1>2
<1>4. \A i \in Mine(s) : i \in 1 .. Len(Flow) /\ Flow[i].id = s
  BY <1>1 DEF Mine
<1>5. \A i, j \in Mine(s) : i < j => Flow[i].type \notin Terminal
  BY <1>1, <1>2, <1>3, <1>4 DEF OnceInv
<1>6. \A i \in Mine(s) :
          /\ js[s] # "unborn" /\ reader[s] \notin {"handshake", "killed"}
          /\ reader[s] = "reading" => Flow[i].type \notin Terminal
  BY <1>1, <1>2, <1>4 DEF OnceInv
<1> QED
  BY <1>1, <1>4, <1>5, <1>6

(* The events of s stay, d places further on.                               *)
Shifted(s, d) ==
    /\ \A i \in Mine(s)' : i \in Int /\ i + d \in Mine(s) /\ Flow'[i] = Flow[i + d]
    /\ \A i \in Mine(s) : i \in Int /\ i - d \in Mine(s)' /\ Flow'[i - d] = Flow[i]

(* Something happens to another connection.                                 *)
LEMMA StoryElsewhere ==
    ASSUME NEW s \in Socket, Story(s), NEW d \in {0, 1}, Shifted(s, d),
           js'[s] = js[s], failed'[s] = failed[s], seen'[s] = seen[s],
           reader'[s] = reader[s], sent'[s] = sent[s]
    PROVE  Story(s)'
<1> DEFINE M == Mine(s)  N == Mine(s)'
<1>1. /\ \A i \in N : i \in Int /\ i + d \in M /\ Flow'[i] = Flow[i + d]
      /\ \A i \in M : i \in Int /\ i - d \in N /\ Flow'[i - d] = Flow[i]
  BY DEF Shifted
<1>2. \A i, j \in Int : i < j => i + d < j + d /\ i - d < j - d
  OBVIOUS
<1>3. \A i \in Int : i - d + d = i
  OBVIOUS
<1>4. EndAhead(s)'
  BY <1>1 DEF Story, EndAhead
<1>5. OpensAhead(s) => OpensAhead(s)'
  <2> SUFFICES ASSUME OpensAhead(s) PROVE OpensAhead(s)'
    OBVIOUS
  <2>1. reader'[s] = "reading" => \E i \in N : Flow'[i].type \in Opens
    BY <1>1 DEF OpensAhead
  <2>2. ASSUME NEW i \in N, Flow'[i].type \in {"message", "close"}
        PROVE  \E k \in N : k < i /\ Flow'[k].type \in Opens
    <3>1. i + d \in M /\ Flow[i + d].type \in {"message", "close"} /\ i \in Int
      BY <1>1, <2>2
    <3>2. PICK k \in M : k < i + d /\ Flow[k].type \in Opens
      BY <3>1 DEF OpensAhead
    <3>3. k - d \in N /\ Flow'[k - d] = Flow[k] /\ k \in Int
      BY <1>1, <3>2
    <3>4. k - d < i
      BY <3>1, <3>2, <3>3
    <3> QED
      BY <3>2, <3>3, <3>4
  <2> HIDE DEF M, N
  <2> QED
    BY <2>1, <2>2 DEF OpensAhead, M, N
<1>6. FramesAhead(s)'
  <2> DEFINE t == Told(seen[s])
  <2>1. /\ t <= sent[s]
        /\ \A i \in M :
              /\ Flow[i].type = "message" => Flow[i].n >= t + 1 /\ Flow[i].n <= sent[s]
              /\ Flow[i].type \in Terminal => Flow[i].n = sent[s]
        /\ \A i, j \in M :
              i < j /\ Flow[i].type = "message" /\ Flow[j].type = "message"
                  => Flow[i].n < Flow[j].n
        /\ \A m \in Nat : t + 1 <= m /\ m <= sent[s] =>
              \E i \in M : Flow[i].type = "message" /\ Flow[i].n = m
    BY DEF Story, FramesAhead
  <2>2. t' = t
    BY DEF Told
  <2> HIDE DEF t, M, N
  <2>3. \A i \in N :
            /\ Flow'[i].type = "message" => Flow'[i].n >= t + 1 /\ Flow'[i].n <= sent[s]
            /\ Flow'[i].type \in Terminal => Flow'[i].n = sent[s]
    BY <1>1, <2>1
  <2>4. \A i, j \in N :
            i < j /\ Flow'[i].type = "message" /\ Flow'[j].type = "message"
                => Flow'[i].n < Flow'[j].n
    BY <1>1, <1>2, <2>1
  <2>5. \A m \in Nat : t + 1 <= m /\ m <= sent[s] =>
            \E i \in N : Flow'[i].type = "message" /\ Flow'[i].n = m
    BY <1>1, <2>1
  <2> QED
    BY <2>1, <2>2, <2>3, <2>4, <2>5 DEF FramesAhead, t, N
<1> QED
  BY <1>4, <1>5, <1>6 DEF Story

LEMMA MineSame ==
    ASSUME TypeOK, NEW s \in Socket, Flow' = Flow PROVE Shifted(s, 0)
<1>1. \A i \in Mine(s) : i \in Int
  BY FlowType DEF Mine
<1>2. Mine(s)' = Mine(s)
  BY DEF Mine
<1> QED
  BY <1>1, <1>2 DEF Shifted

(* An event more, of s or of another connection.                            *)
LEMMA MineGrows ==
    ASSUME TypeOK, NEW s \in Socket, NEW e \in Event, Longer(Flow, e, Flow')
    PROVE  /\ e.id # s => Shifted(s, 0)
           /\ e.id = s => Mine(s)' = Mine(s) \cup {Len(Flow) + 1}
           /\ \A i \in Mine(s) : i \in Int /\ i < Len(Flow) + 1 /\ Flow'[i] = Flow[i]
           /\ Flow'[Len(Flow) + 1] = e
<1>1. /\ Len(Flow) \in Nat
      /\ DOMAIN Flow = 1 .. Len(Flow) /\ DOMAIN Flow' = 1 .. Len(Flow) + 1
      /\ \A i \in 1 .. Len(Flow) : Flow'[i] = Flow[i]
      /\ Flow'[Len(Flow) + 1] = e
  BY DEF Longer
<1>2. \A i \in DOMAIN Flow' : i \in DOMAIN Flow \/ i = Len(Flow) + 1
  BY <1>1
<1>3. \A i \in DOMAIN Flow : i \in DOMAIN Flow' /\ i \in Int /\ i < Len(Flow) + 1
  BY <1>1
<1>4. Len(Flow) + 1 \in DOMAIN Flow'
  BY <1>1
<1>5. Mine(s)' = {i \in DOMAIN Flow' : Flow'[i].id = s}
  BY DEF Mine
<1>6. e.id = s => Mine(s)' = Mine(s) \cup {Len(Flow) + 1}
  BY <1>1, <1>2, <1>3, <1>4, <1>5 DEF Mine
<1>7. e.id # s => Mine(s)' = Mine(s)
  BY <1>1, <1>2, <1>3, <1>4, <1>5 DEF Mine
<1>8. \A i \in Mine(s) : i \in Int /\ i < Len(Flow) + 1 /\ Flow'[i] = Flow[i]
  BY <1>1, <1>3 DEF Mine
<1>9. \A i \in Int : i + 0 = i /\ i - 0 = i
  OBVIOUS
<1>10. e.id # s => Shifted(s, 0)
  BY <1>7, <1>8, <1>9 DEF Shifted
<1> QED
  BY <1>1, <1>6, <1>8, <1>10

(* The first event goes.                                                    *)
LEMMA MineShrinks ==
    ASSUME TypeOK, NEW s \in Socket, Shorter(Flow, Flow')
    PROVE  /\ Flow[1].id # s => Shifted(s, 1)
           /\ Flow[1].id = s => 1 \in Mine(s)
           /\ \A i \in Mine(s)' : i \in Int /\ i + 1 \in Mine(s) /\ i + 1 # 1
                                  /\ Flow'[i] = Flow[i + 1]
           /\ \A i \in Mine(s) : i \in Int /\ (i = 1 \/ 1 < i)
                                 /\ (i # 1 => i - 1 \in Mine(s)' /\ Flow'[i - 1] = Flow[i])
<1>1. /\ Len(Flow) \in Nat \ {0}
      /\ DOMAIN Flow = 1 .. Len(Flow) /\ DOMAIN Flow' = 1 .. Len(Flow) - 1
      /\ \A i \in 1 .. Len(Flow) - 1 : Flow'[i] = Flow[i + 1]
  BY DEF Shorter
<1>2. \A i \in 1 .. Len(Flow) - 1 : i \in Int /\ i + 1 \in 1 .. Len(Flow) /\ i + 1 # 1
  BY <1>1
<1>3. \A i \in 1 .. Len(Flow) : /\ i \in Int /\ (i = 1 \/ 1 < i)
                                /\ i # 1 => i - 1 \in 1 .. Len(Flow) - 1 /\ i - 1 + 1 = i
  BY <1>1
<1>4. Mine(s)' = {i \in DOMAIN Flow' : Flow'[i].id = s}
  BY DEF Mine
<1>5. \A i \in Mine(s)' : i \in Int /\ i + 1 \in Mine(s) /\ i + 1 # 1 /\ Flow'[i] = Flow[i + 1]
  BY <1>1, <1>2, <1>4 DEF Mine
<1>6. \A i \in Mine(s) : i \in Int /\ (i = 1 \/ 1 < i)
                         /\ (i # 1 => i - 1 \in Mine(s)' /\ Flow'[i - 1] = Flow[i])
  BY <1>1, <1>3, <1>4 DEF Mine
<1>7. Flow[1].id = s => 1 \in Mine(s)
  BY <1>1 DEF Mine
<1>8. Flow[1].id # s => 1 \notin Mine(s)
  BY DEF Mine
<1>9. Flow[1].id # s => Shifted(s, 1)
  BY <1>5, <1>6, <1>8 DEF Shifted
<1> QED
  BY <1>5, <1>6, <1>7, <1>9

(* Frames in their order: one more read, an end behind them, or an opening.  *)
LEMMA FramesGrow ==
    ASSUME TypeOK, TypeOK', NEW s \in Socket, NEW e \in Event, e.id = s,
           Longer(Flow, e, Flow'), FramesAhead(s), seen'[s] = seen[s],
           \A i \in Mine(s) : Flow[i].type \notin Terminal,
           \/ e.type \in Opens /\ sent'[s] = sent[s]
           \/ e.type \in Terminal /\ e.n = sent[s] /\ sent'[s] = sent[s]
           \/ e.type = "message" /\ e.n = sent[s] + 1 /\ sent'[s] = sent[s] + 1
    PROVE  FramesAhead(s)'
<1> DEFINE M == Mine(s)  N == Mine(s)'  t == Told(seen[s])  k == Len(Flow) + 1
           a == sent[s]  b == sent'[s]
<1>1. N = M \cup {k} /\ (\A i \in M : i \in Int /\ i < k /\ Flow'[i] = Flow[i]) /\ Flow'[k] = e
  BY MineGrows
<1>2. a \in Nat /\ b \in Nat /\ t \in Nat /\ k \in Nat
  BY ToldFinite, FlowType DEF TypeOK, Told
<1>3. \A i \in M : Flow[i].n \in Nat /\ Flow[i].type \notin Terminal
  BY FlowType DEF Mine, Event
<1>4. /\ t <= a
      /\ \A i \in M : Flow[i].type = "message" => Flow[i].n >= t + 1 /\ Flow[i].n <= a
      /\ \A i, j \in M :
            i < j /\ Flow[i].type = "message" /\ Flow[j].type = "message" => Flow[i].n < Flow[j].n
      /\ \A m \in Nat : t + 1 <= m /\ m <= a =>
            \E i \in M : Flow[i].type = "message" /\ Flow[i].n = m
  BY DEF FramesAhead
<1>5. t' = t
  BY DEF Told
<1>6. \/ e.type \in Opens /\ b = a
      \/ e.type \in Terminal /\ e.n = a /\ b = a
      \/ e.type = "message" /\ e.n = a + 1 /\ b = a + 1
  OBVIOUS
<1>7. "message" \notin Opens /\ "message" \notin Terminal /\ Opens \cap Terminal = {}
  BY DEF Opens, Terminal
<1> HIDE DEF M, N, t, k, a, b
<1>8. t <= b /\ a <= b
  BY <1>2, <1>4, <1>6
<1>9. /\ e.type = "message" => e.n >= t + 1 /\ e.n <= b /\ e.n = a + 1
      /\ e.type \in Terminal => e.n = b
  BY <1>2, <1>4, <1>6, <1>7
<1>10. \A i \in N :
          /\ Flow'[i].type = "message" => Flow'[i].n >= t + 1 /\ Flow'[i].n <= b
          /\ Flow'[i].type \in Terminal => Flow'[i].n = b
  <2>1. \A i \in M : Flow[i].n <= a => Flow[i].n <= b
    BY <1>2, <1>3, <1>8
  <2> QED
    BY <1>1, <1>3, <1>4, <1>9, <2>1
<1>11. ASSUME NEW i \in N, NEW j \in N, i < j, Flow'[i].type = "message", Flow'[j].type = "message"
       PROVE  Flow'[i].n < Flow'[j].n
  <2>1. i \in M
    BY <1>1, <1>2, <1>11
  <2>2. CASE j \in M
    BY <1>1, <1>4, <1>11, <2>1, <2>2
  <2>3. CASE j = k
    <3>1. Flow'[i].n <= a /\ Flow'[i].n \in Nat /\ Flow'[j].n = a + 1
      BY <1>1, <1>3, <1>4, <1>9, <1>11, <2>1, <2>3
    <3> QED
      BY <1>2, <3>1
  <2> QED
    BY <1>1, <2>2, <2>3
<1>12. ASSUME NEW m \in Nat, t + 1 <= m, m <= b
       PROVE  \E i \in N : Flow'[i].type = "message" /\ Flow'[i].n = m
  <2>1. CASE m <= a
    <3>1. PICK i \in M : Flow[i].type = "message" /\ Flow[i].n = m
      BY <1>4, <1>12, <2>1
    <3> QED
      BY <1>1, <3>1
  <2>2. CASE ~(m <= a)
    <3>1. e.type = "message" /\ e.n = m
      BY <1>2, <1>6, <1>12, <2>2
    <3> QED
      BY <1>1, <3>1
  <2> QED
    BY <2>1, <2>2
<1> QED
  BY <1>5, <1>8, <1>10, <1>11, <1>12 DEF FramesAhead, N, t, b

(* The reader of a listed connection takes a step.                          *)
LEMMA StoryReads ==
    ASSUME TypeOK, TypeOK', OnceInv, NEW s \in Socket, Listed(s), Story(s),
           NEW from \in {"handshake", "reading"}, NEW to \in {"reading", "done"},
           NEW type \in Kind, NEW n \in Nat, ReaderStep(s, from, to, type, n),
           \/ type \in Opens /\ n = sent[s] /\ to = "reading"
           \/ type = "message" /\ n = sent[s] + 1 /\ from = "reading" /\ to = "reading"
           \/ /\ type \in Terminal /\ n = sent[s] /\ to = "done"
              /\ type = "close" => from = "reading" \/ js[s] # "connecting"
    PROVE  Story(s)'
<1> DEFINE e == [id |-> s, type |-> type, n |-> n]
<1>1. e \in Event /\ e.id = s /\ e.type = type /\ e.n = n
  BY DEF Event
<1>2. queue' = Append(queue, e) /\ UNCHANGED <<head, batch, pos, js, failed, seen>>
      /\ reader[s] = from /\ reader'[s] = to /\ sent'[s] = n
  BY DEF ReaderStep, Enqueue, pageVars, deliveryVars, TypeOK
<1> HIDE DEF e
<1>3. Longer(Flow, e, Flow')
  BY <1>1, <1>2, PathGrows
<1> DEFINE M == Mine(s)  N == Mine(s)'  k == Len(Flow) + 1
<1>4. N = M \cup {k} /\ (\A i \in M : i \in Int /\ i < k /\ Flow'[i] = Flow[i]) /\ Flow'[k] = e
  BY <1>1, <1>3, MineGrows
<1>5. /\ \A i \in M : Flow[i].type \notin Terminal
      /\ from = "handshake" => M = {}
  BY <1>2, MineOnce
<1>6. FramesAhead(s)'
  BY <1>1, <1>2, <1>3, <1>5, FramesGrow DEF Story
<1>7. EndAhead(s)'
  <2> HIDE DEF M, N, k
  <2>1. reader'[s] \in {"none", "done"} => type \in Terminal
    BY <1>2 DEF Opens
  <2> QED
    BY <1>1, <1>4, <2>1 DEF EndAhead, N
<1>8. js[s] = "connecting" => OpensAhead(s)'
  <2> SUFFICES ASSUME js[s] = "connecting" PROVE OpensAhead(s)'
    OBVIOUS
  <2>1. /\ reader[s] = "reading" => \E i \in M : Flow[i].type \in Opens
        /\ \A i \in M : Flow[i].type \in {"message", "close"} =>
              \E j \in M : j < i /\ Flow[j].type \in Opens
    BY DEF Story, OpensAhead
  <2> HIDE DEF M, N, k
  <2>2. type \in {"message", "close"} => from = "reading"
    BY DEF Opens, Terminal
  <2>3. to = "reading" => type \in Opens \/ from = "reading"
    OBVIOUS
  <2>4. reader'[s] = "reading" => \E i \in N : Flow'[i].type \in Opens
    BY <1>1, <1>2, <1>4, <2>1, <2>3
  <2>5. \A i \in N : Flow'[i].type \in {"message", "close"} =>
              \E j \in N : j < i /\ Flow'[j].type \in Opens
    BY <1>1, <1>2, <1>4, <2>1, <2>2
  <2> QED
    BY <2>4, <2>5 DEF OpensAhead, N
<1> QED
  BY <1>2, <1>6, <1>7, <1>8 DEF Story

(* The frame that comes next is the one the page has not been told of.      *)
LEMMA FirstFrame ==
    ASSUME TypeOK, NEW s \in Socket, FramesAhead(s), 1 \in Mine(s), Flow[1].type = "message"
    PROVE  Flow[1].n = Told(seen[s]) + 1
<1> DEFINE t == Told(seen[s])  M == Mine(s)
<1>1. t \in Nat /\ sent[s] \in Nat /\ Flow[1].n \in Nat /\ \A i \in M : i \in 1 .. Len(Flow)
  BY ToldFinite, FlowType DEF TypeOK, Told, Mine, Event
<1>2. Flow[1].n >= t + 1 /\ Flow[1].n <= sent[s]
  BY DEF FramesAhead
<1>3. t + 1 \in Nat /\ t + 1 <= t + 1 /\ t + 1 <= sent[s]
  BY <1>1, <1>2
<1>4. PICK i \in M : Flow[i].type = "message" /\ Flow[i].n = t + 1
  BY <1>3 DEF FramesAhead
<1>5. CASE i = 1
  BY <1>4, <1>5
<1>6. CASE i # 1
  <2>1. 1 < i
    BY <1>1, <1>6, FlowType
  <2>2. Flow[1].n < t + 1
    BY <1>4, <2>1 DEF FramesAhead
  <2> QED
    BY <1>1, <1>2, <2>2
<1> QED
  BY <1>5, <1>6

(* The first event is told.                                                 *)
LEMMA FramesShrink ==
    ASSUME TypeOK, TypeOK', NEW s \in Socket, Shorter(Flow, Flow'), Flow[1].id = s,
           FramesAhead(s), sent'[s] = sent[s],
           \/ Flow[1].type # "message" /\ Told(seen'[s]) = Told(seen[s])
           \/ Flow[1].type = "message" /\ Told(seen'[s]) = Told(seen[s]) + 1
    PROVE  FramesAhead(s)'
<1> DEFINE M == Mine(s)  N == Mine(s)'  t == Told(seen[s])  u == Told(seen'[s])  a == sent[s]
<1>1. /\ 1 \in M
      /\ \A i \in N : i \in Int /\ i + 1 \in M /\ i + 1 # 1 /\ Flow'[i] = Flow[i + 1]
      /\ \A i \in M : i \in Int /\ (i = 1 \/ 1 < i)
                      /\ (i # 1 => i - 1 \in N /\ Flow'[i - 1] = Flow[i])
  BY MineShrinks
<1>2. t \in Nat /\ a \in Nat /\ u \in Nat /\ u = Told(seen[s])'
  BY ToldFinite DEF TypeOK, Told
<1>3. /\ t <= a
      /\ \A i \in M :
            /\ Flow[i].type = "message" => Flow[i].n >= t + 1 /\ Flow[i].n <= a
            /\ Flow[i].type \in Terminal => Flow[i].n = a
      /\ \A i, j \in M :
            i < j /\ Flow[i].type = "message" /\ Flow[j].type = "message" => Flow[i].n < Flow[j].n
      /\ \A m \in Nat : t + 1 <= m /\ m <= a =>
            \E i \in M : Flow[i].type = "message" /\ Flow[i].n = m
  BY DEF FramesAhead
<1>4. \A i \in M : Flow[i].n \in Nat
  BY FlowType DEF Mine, Event
<1>5. Flow[1].type = "message" => Flow[1].n = t + 1
  BY <1>1, FirstFrame
<1>6. \/ Flow[1].type # "message" /\ u = t
      \/ Flow[1].type = "message" /\ u = t + 1
  OBVIOUS
<1>7. \A i \in N : i + 1 \in M /\ Flow'[i] = Flow[i + 1] /\ 1 < i + 1 /\ Flow[i + 1].n \in Nat
  BY <1>1, <1>4
<1> HIDE DEF M, N, t, u, a
<1>8. u <= a
  BY <1>1, <1>2, <1>3, <1>5, <1>6
<1>9. ASSUME NEW i \in N, Flow'[i].type = "message" PROVE Flow'[i].n >= u + 1 /\ Flow'[i].n <= a
  <2>1. Flow[i + 1].n >= t + 1 /\ Flow[i + 1].n <= a
    BY <1>3, <1>7, <1>9
  <2>2. Flow[1].type = "message" => t + 1 < Flow[i + 1].n
    BY <1>1, <1>3, <1>5, <1>7, <1>9
  <2>3. Flow[i + 1].n \in Nat
    BY <1>7
  <2>4. Flow[i + 1].n >= u + 1
    BY <1>2, <1>6, <2>1, <2>2, <2>3
  <2> QED
    BY <1>7, <2>1, <2>4
<1>10. \A i \in N : Flow'[i].type \in Terminal => Flow'[i].n = a
  BY <1>3, <1>7
<1>11. ASSUME NEW i \in N, NEW j \in N, i < j, Flow'[i].type = "message", Flow'[j].type = "message"
       PROVE  Flow'[i].n < Flow'[j].n
  <2>1. i + 1 < j + 1
    BY <1>1, <1>11
  <2> QED
    BY <1>3, <1>7, <1>11, <2>1
<1>12. ASSUME NEW m \in Nat, u + 1 <= m, m <= a
       PROVE  \E i \in N : Flow'[i].type = "message" /\ Flow'[i].n = m
  <2>1. t + 1 <= m /\ (Flow[1].type = "message" => m # t + 1)
    BY <1>2, <1>6, <1>12
  <2>2. PICK i \in M : Flow[i].type = "message" /\ Flow[i].n = m
    BY <1>3, <1>12, <2>1
  <2>3. i # 1
    BY <1>5, <2>1, <2>2
  <2> QED
    BY <1>1, <2>2, <2>3
<1> QED
  BY <1>2, <1>8, <1>9, <1>10, <1>11, <1>12 DEF FramesAhead, N, u, a

(* websocket.js handles an event of a listed connection.                    *)
LEMMA StoryTold ==
    ASSUME TypeOK, TypeOK', OnceInv, NEW s \in Socket, Listed(s), Story(s),
           Shorter(Flow, Flow'), Flow[1].id = s, Flow[1] \in Event, Handle(Flow[1]),
           UNCHANGED <<failed, reader, sent>>
    PROVE  Lived(seen'[s], failed'[s]) /\ (Listed(s)' => Story(s)')
<1> DEFINE e == Flow[1]  q == seen[s]  f == failed[s]
<1>0. e \in Event /\ e.id = s /\ Handle(e)
  OBVIOUS
<1> HIDE DEF e
<1>1. /\ q \in Seq(Notice) /\ f \in BOOLEAN /\ Living(q, f) /\ e.type \in Kind /\ e.n \in Nat
      /\ js[s] \in {"connecting", "open", "closing"}
  BY <1>0 DEF TypeOK, Story, Event, Listed
<1>2. \A what \in {"open", "message", "error", "clean", "abnormal"}, n \in Nat :
          Note(what, n) \in Notice /\ Note(what, n).what = what /\ Note(what, n).n = n
  BY DEF Note, Notice
<1>3. ASSUME NEW state, NEW notices, Tell(s, state, notices)
      PROVE  js'[s] = state /\ seen'[s] = q \o notices
  BY <1>3 DEF Tell, TypeOK
<1>4. 1 \in Mine(s) /\ (\A i \in Mine(s) : i \in Int /\ (i = 1 \/ 1 < i))
  BY MineShrinks
<1>5. reader[s] # "handshake"
  BY <1>4, MineOnce
<1>6. e.type \notin Terminal => EndAhead(s)'
  <2>1. \A i \in Mine(s) : i # 1 => i - 1 \in Mine(s)' /\ Flow'[i - 1] = Flow[i]
    BY MineShrinks
  <2> QED
    BY <2>1 DEF Story, EndAhead, e
<1>7. FramesAhead(s)
  BY DEF Story
<1>8. CASE e.type \in Opens /\ js[s] # "connecting"
  <2>1. js'[s] = js[s] /\ seen'[s] = q \o <<>>
    BY <1>0, <1>3, <1>8 DEF Handle, Opens
  <2>2. seen'[s] = q
    BY <1>1, <2>1, ConcatEmptyRight
  <2>3. e.type # "message" /\ e.type \notin Terminal
    BY <1>8 DEF Opens, Terminal
  <2>4. Told(seen'[s]) = Told(seen[s])
    BY <2>2
  <2>5. FramesAhead(s)'
    BY <1>0, <1>7, <2>3, <2>4, FramesShrink DEF e
  <2> QED
    BY <1>1, <1>5, <1>6, <1>8, <2>1, <2>2, <2>3, <2>5, LivingLived DEF Story
<1>9. CASE e.type = "open" /\ js[s] = "connecting"
  <2>1. js'[s] = "open" /\ seen'[s] = q \o <<Note("open", 0)>>
    BY <1>0, <1>3, <1>9 DEF Handle
  <2>2. q = <<>> /\ ~f
    BY <1>9 DEF Story
  <2>3. Living(seen'[s], FALSE) /\ Told(seen'[s]) = 0 /\ seen'[s] # <<>>
        /\ seen'[s][1].what = "open"
    <3> DEFINE a == Note("open", 0)
    <3>1. a \in Notice /\ a.what = "open"
      BY <1>2
    <3>2. seen'[s] = <<>> \o <<a>>
      BY <2>1, <2>2
    <3> HIDE DEF a
    <3> QED
      BY <3>1, <3>2, OpenTold
  <2>4. e.type # "message" /\ e.type \notin Terminal
    BY <1>9 DEF Terminal
  <2>5. Told(seen'[s]) = Told(seen[s])
    BY <2>2, <2>3, NothingToldYet
  <2>6. FramesAhead(s)'
    BY <1>0, <1>7, <2>4, <2>5, FramesShrink DEF e
  <2>7. Living(seen'[s], failed'[s]) /\ ~failed'[s]
    BY <1>1, <2>2, <2>3
  <2> QED
    BY <1>5, <1>6, <2>1, <2>3, <2>4, <2>6, <2>7, LivingLived DEF Story
<1>10. CASE e.type = "message"
  <2>1. js'[s] = js[s] /\ seen'[s] = q \o <<Note("message", e.n)>>
    BY <1>0, <1>3, <1>10 DEF Handle
  <2>2. js[s] # "connecting"
    BY <1>4, <1>10 DEF Story, OpensAhead, e
  <2>3. e.n = Told(q) + 1
    BY <1>4, <1>7, <1>10, FirstFrame DEF e
  <2> DEFINE a == Note("message", e.n)
  <2>4. a \in Notice /\ a.what = "message" /\ a.n = Told(q) + 1
    BY <1>1, <1>2, <2>3
  <2> HIDE DEF a
  <2>5. Living(seen'[s], f) /\ Told(seen'[s]) = Told(q) + 1
    BY <1>1, <2>1, <2>4, MessageTold DEF a
  <2>6. Extends(q, a, seen'[s])
    BY <1>1, <2>1, <2>4, OneMore DEF a
  <2>7. q # <<>> => seen'[s] # <<>> /\ seen'[s][1] = q[1]
    <3>1. q # <<>> => 1 \in 1 .. Len(q)
      BY <1>1, EmptySeq, LenProperties
    <3> QED
      BY <2>6, <3>1 DEF Extends
  <2>8. FramesAhead(s)'
    BY <1>0, <1>7, <1>10, <2>5, FramesShrink DEF e
  <2>9. EndAhead(s)'
    BY <1>6, <1>10 DEF Terminal
  <2>10. Living(seen'[s], failed'[s])
    BY <2>5
  <2> QED
    BY <1>1, <1>5, <2>1, <2>2, <2>7, <2>8, <2>9, <2>10, LivingLived DEF Story
<1>11. CASE e.type = "bad_open" /\ js[s] = "connecting"
  <2>1. js'[s] = "closed" /\ seen'[s] = q \o <<Note("error", 0), Note("abnormal", 0)>>
    BY <1>0, <1>3, <1>11 DEF Handle
  <2>2. Lived(seen'[s], failed'[s])
    <3> DEFINE a == Note("error", 0)  b == Note("abnormal", 0)
    <3>1. a \in Notice /\ b \in Notice /\ a.what = "error" /\ b.what = "abnormal"
      BY <1>1, <1>2
    <3>2. seen'[s] = q \o <<a, b>>
      BY <2>1
    <3> HIDE DEF a, b
    <3>3. Lived(seen'[s], f)
      BY <1>1, <3>1, <3>2, ErrorTold
    <3> QED
      BY <3>3
  <2> QED
    BY <2>1, <2>2 DEF Listed
<1>12. CASE e.type = "error"
  <2>1. js'[s] = "closed" /\ seen'[s] = q \o <<Note("error", e.n), Note("abnormal", e.n)>>
    BY <1>0, <1>3, <1>12 DEF Handle
  <2>2. Lived(seen'[s], failed'[s])
    <3> DEFINE a == Note("error", e.n)  b == Note("abnormal", e.n)
    <3>1. a \in Notice /\ b \in Notice /\ a.what = "error" /\ b.what = "abnormal"
      BY <1>1, <1>2
    <3>2. seen'[s] = q \o <<a, b>>
      BY <2>1
    <3> HIDE DEF a, b
    <3>3. Lived(seen'[s], f)
      BY <1>1, <3>1, <3>2, ErrorTold
    <3> QED
      BY <3>3
  <2> QED
    BY <2>1, <2>2 DEF Listed
<1>13. CASE e.type = "close"
  <2> DEFINE a == Note(IF f THEN "abnormal" ELSE "clean", e.n)
  <2>1. js'[s] = "closed" /\ seen'[s] = q \o <<a>>
    BY <1>0, <1>3, <1>13 DEF Handle
  <2>2. a \in Notice /\ a.what = (IF f THEN "abnormal" ELSE "clean") /\ a.n = e.n
    BY <1>1, <1>2
  <2> HIDE DEF a
  <2>3. js[s] # "connecting"
    BY <1>4, <1>13 DEF Story, OpensAhead, e
  <2>4. ~f => q # <<>> /\ q[1].what = "open"
    BY <1>1, <2>3 DEF Story
  <2>5. e.n = Told(q)
    <3> DEFINE t == Told(q)  b == sent[s]
    <3>1. e.n = b /\ t <= b /\ t \in Nat /\ b \in Nat
      BY <1>1, <1>4, <1>7, <1>13, ToldFinite DEF FramesAhead, Terminal, e, TypeOK, Told
    <3>2. \A i \in Mine(s) : Flow[i].type # "message"
      <4>1. \A i \in Mine(s) : 1 < i => FALSE
        BY <1>4, <1>13, MineOnce DEF Terminal, e
      <4> QED
        BY <1>4, <1>13, <4>1 DEF e
    <3>3. \A m \in Nat : ~(t + 1 <= m /\ m <= b)
      BY <1>7, <3>2 DEF FramesAhead
    <3> HIDE DEF t, b
    <3>4. t + 1 \in Nat /\ t + 1 <= t + 1
      BY <3>1
    <3>5. ~(t + 1 <= b)
      BY <3>3, <3>4
    <3>6. e.n = t
      BY <3>1, <3>5
    <3> QED
      BY <3>6 DEF t
  <2>6. Lived(seen'[s], f)
    BY <1>1, <2>1, <2>2, <2>4, <2>5, CloseTold
  <2>7. Lived(seen'[s], failed'[s])
    BY <2>6
  <2> QED
    BY <2>1, <2>7 DEF Listed
<1> QED
  BY <1>1, <1>8, <1>9, <1>10, <1>11, <1>12, <1>13 DEF Kind, Opens

(* Nothing happens to s.                                                    *)
LEMMA StoryStays ==
    ASSUME NEW s \in Socket, StoryInv, NEW d \in {0, 1}, Shifted(s, d),
           js'[s] = js[s], failed'[s] = failed[s], seen'[s] = seen[s],
           reader'[s] = reader[s], sent'[s] = sent[s]
    PROVE  Lived(seen'[s], failed'[s]) /\ (Listed(s)' => Story(s)')
<1>1. Lived(seen'[s], failed'[s])
  BY DEF StoryInv
<1>2. Listed(s)' => Listed(s)
  BY DEF Listed
<1>3. Listed(s) => Story(s)
  BY DEF StoryInv
<1> QED
  BY <1>1, <1>2, <1>3, StoryElsewhere

(* No page listens to s any more, or yet.                                   *)
LEMMA StoryOver ==
    ASSUME NEW s \in Socket, js'[s] \in {"unborn", "gone"}, seen'[s] = <<>>
    PROVE  Lived(seen'[s], failed'[s]) /\ (Listed(s)' => Story(s)')
BY NothingToldYet, LivingLived DEF Listed

(* Of an unlisted connection only what its page was told matters.           *)
LEMMA StoryUnheard ==
    ASSUME NEW s \in Socket, StoryInv, ~Listed(s), js'[s] = js[s], seen'[s] = seen[s],
           failed'[s] = failed[s]
    PROVE  Lived(seen'[s], failed'[s]) /\ (Listed(s)' => Story(s)')
BY DEF StoryInv, Listed

(* new WebSocket(url).                                                      *)
LEMMA StoryOpens ==
    ASSUME FlowInv, FlowInv', StoryInv, NEW s \in Socket, Open(s) PROVE StoryInv'
<1>1. /\ js[s] = "unborn" /\ js'[s] = "connecting" /\ UNCHANGED <<failed, seen, sent>>
      /\ UNCHANGED <<head, batch, pos>>
      /\ \A t \in Socket : t # s => js'[t] = js[t]
  BY DEF Open, FlowInv, TypeOK, deliveryVars
<1>2. reader[s] = "none" /\ sent[s] = 0 /\ seen[s] = <<>> /\ ~failed[s] /\ Mine(s) = {}
  BY <1>1, MineOnce DEF FlowInv, PageInv
<1>3. Living(<<>>, failed[s]) /\ Told(<<>>) = 0
  BY NothingToldYet
<1>4. Living(seen'[s], failed'[s]) /\ seen'[s] = <<>> /\ ~failed'[s] /\ sent'[s] = 0
      /\ Told(seen'[s]) = 0
  BY <1>1, <1>2, <1>3
<1>5. \A m \in Nat : ~(0 + 1 <= m /\ m <= 0)
  OBVIOUS
<1>6. CASE reader' = [reader EXCEPT ![s] = "handshake"] /\ UNCHANGED queue
  <2>1. Flow' = Flow
    BY <1>1, <1>6 DEF Flow, Path
  <2>2. Mine(s)' = {}
    BY <1>2, <2>1 DEF Mine
  <2>3. reader'[s] = "handshake" /\ \A t \in Socket : t # s => reader'[t] = reader[t]
    BY <1>6 DEF FlowInv, TypeOK
  <2>4. EndAhead(s)' /\ OpensAhead(s)' /\ FramesAhead(s)'
    BY <1>4, <1>5, <2>2, <2>3 DEF EndAhead, OpensAhead, FramesAhead
  <2>5. Lived(seen'[s], failed'[s]) /\ (Listed(s)' => Story(s)')
    BY <1>1, <1>4, <2>3, <2>4, LivingLived DEF Story
  <2>6. ASSUME NEW t \in Socket, t # s
        PROVE  Lived(seen'[t], failed'[t]) /\ (Listed(t)' => Story(t)')
    BY <1>1, <2>1, <2>3, <2>6, MineSame, StoryStays DEF FlowInv
  <2> QED
    BY <2>5, <2>6 DEF StoryInv
<1>7. CASE Enqueue(s, "error", 0) /\ UNCHANGED reader
  <2> DEFINE e == [id |-> s, type |-> "error", n |-> 0]  k == Len(Flow) + 1
  <2>1. e \in Event /\ e.id = s /\ e.type = "error" /\ e.n = 0 /\ queue' = Append(queue, e)
    BY <1>7 DEF Event, Kind, Enqueue
  <2> HIDE DEF e
  <2>2. Longer(Flow, e, Flow')
    BY <1>1, <2>1, PathGrows DEF FlowInv
  <2>3. Mine(s)' = {k} /\ Flow'[k] = e
    BY <1>2, <2>1, <2>2, MineGrows DEF FlowInv
  <2>4. k \in Nat /\ ~(k < k)
    BY FlowType DEF FlowInv
  <2> HIDE DEF k
  <2>5. reader'[s] = "none"
    BY <1>2, <1>7
  <2>6. EndAhead(s)'
    BY <2>1, <2>3 DEF EndAhead, Terminal
  <2>7. OpensAhead(s)'
    BY <2>1, <2>3, <2>5 DEF OpensAhead
  <2>8. FramesAhead(s)'
    BY <1>4, <1>5, <2>1, <2>3, <2>4 DEF FramesAhead
  <2>9. Lived(seen'[s], failed'[s]) /\ (Listed(s)' => Story(s)')
    BY <1>1, <1>4, <2>5, <2>6, <2>7, <2>8, LivingLived DEF Story
  <2>10. ASSUME NEW t \in Socket, t # s
         PROVE  Lived(seen'[t], failed'[t]) /\ (Listed(t)' => Story(t)')
    <3>1. Shifted(t, 0)
      BY <2>1, <2>2, <2>10, MineGrows DEF FlowInv
    <3> QED
      BY <1>1, <1>7, <2>10, <3>1, StoryStays
  <2> QED
    BY <2>9, <2>10 DEF StoryInv
<1> QED
  BY <1>6, <1>7 DEF Open

(* ws.close(): before the opening there was nothing to tell, and there will *)
(* be no opening; after it the opening was told.                            *)
LEMMA StoryCloses ==
    ASSUME FlowInv, FlowInv', StoryInv, NEW s \in Socket, Close(s) PROVE StoryInv'
<1>1. /\ js[s] \in {"connecting", "open"} /\ js' = [js EXCEPT ![s] = "closing"]
      /\ failed' = [failed EXCEPT ![s] = js[s] = "connecting"]
      /\ UNCHANGED <<seen, reader, sent>> /\ UNCHANGED <<head, queue, batch, pos>>
  BY DEF Close, readerVars, deliveryVars
<1>2. /\ js'[s] = "closing" /\ failed'[s] = (js[s] = "connecting")
      /\ \A t \in Socket : t # s => js'[t] = js[t] /\ failed'[t] = failed[t]
  BY <1>1 DEF FlowInv, TypeOK
<1>3. Flow' = Flow
  BY <1>1 DEF Flow, Path
<1>4. \A t \in Socket : Shifted(t, 0)
  BY <1>3, MineSame DEF FlowInv
<1>5. Story(s)
  BY <1>1 DEF StoryInv, Listed
<1>6. Living(seen'[s], failed'[s])
  <2>1. CASE js[s] = "connecting"
    BY <1>1, <1>5, <2>1, NothingToldYet DEF Story
  <2>2. CASE js[s] = "open"
    <3>1. failed'[s] = failed[s]
      BY <1>2, <1>5, <2>2 DEF Story, FlowInv, TypeOK
    <3> QED
      BY <1>1, <1>5, <3>1 DEF Story
  <2> QED
    BY <1>1, <2>1, <2>2
<1>7. ~failed'[s] => seen'[s] # <<>> /\ seen'[s][1].what = "open"
  BY <1>1, <1>2, <1>5 DEF Story
<1>8. EndAhead(s)' /\ FramesAhead(s)'
  <2>1. Mine(s)' = Mine(s)
    BY <1>3 DEF Mine
  <2> QED
    BY <1>1, <1>3, <1>5, <2>1 DEF Story, EndAhead, FramesAhead
<1>9. Lived(seen'[s], failed'[s]) /\ Story(s)'
  BY <1>1, <1>2, <1>5, <1>6, <1>7, <1>8, LivingLived DEF Story
<1>10. ASSUME NEW t \in Socket, t # s
       PROVE  Lived(seen'[t], failed'[t]) /\ (Listed(t)' => Story(t)')
  BY <1>1, <1>2, <1>4, <1>10, StoryStays
<1> QED
  BY <1>9, <1>10 DEF StoryInv

(* A reader's step: of a listed connection, or of one no page listens to.   *)
LEMMA StoryReader ==
    ASSUME FlowInv, FlowInv', StoryInv, Reader PROVE StoryInv'
<1>1. ASSUME NEW s \in Socket, NEW from, NEW to, NEW type \in Kind, NEW n \in Nat,
             ReaderStep(s, from, to, type, n), Listed(s) => Story(s)'
      PROVE  StoryInv'
  <2> DEFINE e == [id |-> s, type |-> type, n |-> n]
  <2>1. e \in Event /\ e.id = s
    BY DEF Event
  <2>2. queue' = Append(queue, e) /\ UNCHANGED <<head, batch, pos, js, failed, seen>>
        /\ \A t \in Socket : t # s => reader'[t] = reader[t] /\ sent'[t] = sent[t]
    BY <1>1 DEF ReaderStep, Enqueue, pageVars, deliveryVars, FlowInv, TypeOK
  <2> HIDE DEF e
  <2>3. Longer(Flow, e, Flow')
    BY <2>1, <2>2, PathGrows DEF FlowInv
  <2>4. ASSUME NEW t \in Socket, t # s
        PROVE  Lived(seen'[t], failed'[t]) /\ (Listed(t)' => Story(t)')
    <3>1. Shifted(t, 0)
      BY <2>1, <2>3, <2>4, MineGrows DEF FlowInv
    <3> QED
      BY <2>2, <2>4, <3>1, StoryStays
  <2>5. Lived(seen'[s], failed'[s]) /\ (Listed(s)' => Story(s)')
    <3>1. Listed(s)' => Listed(s)
      BY <2>2 DEF Listed
    <3> QED
      BY <1>1, <2>2, <3>1 DEF StoryInv
  <2> QED
    BY <2>4, <2>5 DEF StoryInv
<1>2. \A s \in Socket : sent[s] \in Nat /\ sent[s] + 1 \in Nat
  BY DEF FlowInv, TypeOK
<1>3. \A s \in Socket : Listed(s) =>
          /\ Story(s) /\ reader[s] # "killed"
          /\ reader[s] = "handshake" => sent[s] = 0
          /\ failed[s] => js[s] # "connecting"
  BY DEF StoryInv, Story, FlowInv, PageInv, Listed
<1>4. ASSUME NEW s \in Socket, NEW type \in {"open", "bad_open"},
             ReaderStep(s, "handshake", "reading", type, 0)
      PROVE  StoryInv'
  <2>1. reader[s] = "handshake" /\ type \in Kind /\ type \in Opens
    BY <1>4 DEF ReaderStep, Kind, Opens
  <2>2. Listed(s) => Story(s)'
    BY <1>2, <1>3, <1>4, <2>1, StoryReads DEF FlowInv
  <2> QED
    BY <1>1, <1>4, <2>1, <2>2
<1>5. ASSUME NEW s \in Socket, Refused(s) PROVE StoryInv'
  <2>1. CASE ReaderStep(s, "handshake", "done", "error", 0)
    <3>1. reader[s] = "handshake" /\ "error" \in Kind /\ "error" \in Terminal
      BY <2>1 DEF ReaderStep, Kind, Terminal
    <3>2. Listed(s) => Story(s)'
      BY <1>2, <1>3, <2>1, <3>1, StoryReads DEF FlowInv
    <3> QED
      BY <1>1, <2>1, <3>1, <3>2
  <2>2. CASE failed[s] /\ ReaderStep(s, "handshake", "done", "close", 0)
    <3>1. reader[s] = "handshake" /\ "close" \in Kind /\ "close" \in Terminal
      BY <2>2 DEF ReaderStep, Kind, Terminal
    <3>2. Listed(s) => Story(s)'
      BY <1>2, <1>3, <2>2, <3>1, StoryReads DEF FlowInv
    <3> QED
      BY <1>1, <2>2, <3>1, <3>2
  <2> QED
    BY <1>5, <2>1, <2>2 DEF Refused
<1>6. ASSUME NEW s \in Socket, ReadMessage(s) PROVE StoryInv'
  <2>1. ReaderStep(s, "reading", "reading", "message", sent[s] + 1) /\ "message" \in Kind
    BY <1>6 DEF ReadMessage, Kind
  <2>2. Listed(s) => Story(s)'
    BY <1>2, <1>3, <2>1, StoryReads DEF FlowInv
  <2> QED
    BY <1>1, <1>2, <2>1, <2>2
<1>7. ASSUME NEW s \in Socket, NEW type \in Terminal,
             ReaderStep(s, "reading", "done", type, sent[s])
      PROVE  StoryInv'
  <2>1. type \in Kind
    BY DEF Terminal, Kind
  <2>2. Listed(s) => Story(s)'
    BY <1>2, <1>3, <1>7, <2>1, StoryReads DEF FlowInv
  <2> QED
    BY <1>1, <1>2, <1>7, <2>1, <2>2
<1>8. ASSUME NEW s \in Socket, NEW type \in Kind, ReaderStep(s, "killed", "none", type, 0)
      PROVE  StoryInv'
  <2>1. ~Listed(s)
    BY <1>3, <1>8 DEF ReaderStep
  <2> QED
    BY <1>1, <1>8, <2>1
<1> QED
  BY <1>4, <1>5, <1>6, <1>7, <1>8 DEF Reader, Upgraded, ReadEnd, Straggles

(* websocket.js handles one event of the delivery.                          *)
LEMMA StoryDelivers ==
    ASSUME FlowInv, FlowInv', StoryInv, DeliverOne PROVE StoryInv'
<1>1. pos < Len(batch) /\ pos' = pos + 1 /\ UNCHANGED <<head, batch, queue, failed, reader, sent>>
  BY DEF DeliverOne, readerVars
<1>0. Shorter(Flow, Flow') /\ Flow[1] = batch[pos + 1] /\ batch[pos + 1] \in Event
  BY <1>1, FlowShrinks DEF FlowInv
<1>2. PICK e \in Event : e = Flow[1] /\ e = batch[pos + 1]
  BY <1>0
<1>3. e.id \in Socket /\ (IF Listed(e.id) THEN Handle(e) ELSE UNCHANGED <<js, seen>>)
  BY <1>2 DEF DeliverOne, Event
<1>4. \A t \in Socket : t # e.id => js'[t] = js[t] /\ seen'[t] = seen[t]
  <2>1. CASE Listed(e.id)
    <3>1. \E state, notices : Tell(e.id, state, notices)
      BY <1>2, <1>3, <2>1 DEF Handle, Event, Kind
    <3> QED
      BY <1>3, <3>1 DEF Tell, FlowInv, TypeOK
  <2>2. CASE ~Listed(e.id)
    BY <1>3, <2>2
  <2> QED
    BY <2>1, <2>2
<1>5. ASSUME NEW t \in Socket, t # e.id
      PROVE  Lived(seen'[t], failed'[t]) /\ (Listed(t)' => Story(t)')
  <2>1. Shifted(t, 1)
    BY <1>0, <1>2, <1>5, MineShrinks DEF FlowInv
  <2> QED
    BY <1>1, <1>4, <1>5, <2>1, StoryStays
<1>6. Lived(seen'[e.id], failed'[e.id]) /\ (Listed(e.id)' => Story(e.id)')
  <2>1. CASE Listed(e.id)
    <3>1. PICK s \in Socket : s = e.id
      BY <1>3
    <3>2. Story(s) /\ Listed(s)
      BY <2>1, <3>1 DEF StoryInv
    <3>3. Flow[1].id = s /\ Flow[1] \in Event /\ Handle(Flow[1])
      BY <1>2, <1>3, <2>1, <3>1
    <3>4. Lived(seen'[s], failed'[s]) /\ (Listed(s)' => Story(s)')
      BY <1>0, <1>1, <3>2, <3>3, StoryTold DEF FlowInv
    <3> QED
      BY <3>1, <3>4
  <2>2. CASE ~Listed(e.id)
    BY <1>1, <1>3, <2>2, StoryUnheard
  <2> QED
    BY <2>1, <2>2
<1> QED
  BY <1>5, <1>6 DEF StoryInv

LEMMA StoryStep == FlowInv /\ FlowInv' /\ StoryInv /\ [Next]_vars => StoryInv'
<1> SUFFICES ASSUME FlowInv, FlowInv', StoryInv, [Next]_vars PROVE StoryInv'
  OBVIOUS
<1>1. ASSUME Flow' = Flow, UNCHANGED <<js, failed, seen, reader, sent>> PROVE StoryInv'
  <2>1. \A s \in Socket : Shifted(s, 0)
    BY <1>1, MineSame DEF FlowInv
  <2>2. \A s \in Socket : Lived(seen'[s], failed'[s]) /\ (Listed(s)' => Story(s)')
    BY <1>1, <2>1, StoryStays
  <2> QED
    BY <2>2 DEF StoryInv
<1>2. CASE Navigate \/ Reset
  <2>1. \A s \in Socket : js'[s] \in {"unborn", "gone"} /\ seen'[s] = <<>>
    BY <1>2 DEF Navigate, Reset, PageGone
  <2> QED
    BY <2>1, StoryOver DEF StoryInv
<1>3. CASE DeliveryEnds
  <2>1. /\ pos = Len(batch) /\ batch' = <<>> /\ pos' = 0 /\ UNCHANGED <<head, queue>>
        /\ UNCHANGED <<js, failed, seen, reader, sent>>
    BY <1>3 DEF DeliveryEnds, Release, pageVars, readerVars
  <2> QED
    BY <1>1, <2>1, PathReleased DEF FlowInv
<1>4. CASE Frame \/ Settle \/ BudgetRunsOut
  <2>1. Flow' = Flow /\ UNCHANGED <<pageVars, readerVars>>
    BY <1>4, PathKept DEF FlowInv
  <2> QED
    BY <1>1, <2>1 DEF pageVars, readerVars
<1>5. CASE UNCHANGED vars
  <2>1. UNCHANGED <<head, queue, batch, pos>> /\ UNCHANGED <<js, failed, seen, reader, sent>>
    BY <1>5 DEF vars, pageVars, readerVars, deliveryVars
  <2>2. Flow' = Flow
    BY <2>1 DEF Flow, Path
  <2> QED
    BY <1>1, <2>1, <2>2
<1> QED
  BY <1>2, <1>3, <1>4, <1>5, StoryOpens, StoryCloses, StoryReader, StoryDelivers
  DEF Next, Page, Delivery

LEMMA StoryAlways == Spec => [](FlowInv /\ StoryInv)
<1>1. Init => StoryInv
  <2> SUFFICES ASSUME Init PROVE StoryInv
    OBVIOUS
  <2>1. \A s \in Socket : js[s] = "unborn" /\ seen[s] = <<>>
    BY DEF Init
  <2> QED
    BY <2>1, NothingToldYet, LivingLived DEF StoryInv, Listed
<1> QED
  BY <1>1, FlowInvInit, FlowInvStep, StoryStep, PTL DEF Spec

(* A page sees the life of a connection in its order, whatever the server   *)
(* answers, wherever the page closes, navigates or resets                   *)
(* (run_websocket_reader, deliver_websocket_events, websocket.js).          *)
THEOREM LifecycleAlwaysInOrder == Spec => []LifecycleOrder
<1>1. StoryInv => LifecycleOrder
  <2> SUFFICES ASSUME StoryInv, NEW s \in Socket
               PROVE  /\ Times(s, "open") \subseteq {1}
                      /\ failed[s] => Times(s, "open") \cup Times(s, "clean") = {}
                      /\ Times(s, "clean") \cup Times(s, "abnormal") \subseteq {Len(seen[s])}
                      /\ Times(s, "clean") # {} => 1 \in Times(s, "open")
    BY DEF LifecycleOrder
  <2>1. \A what : Times(s, what) = TimesIn(seen[s], what)
    BY DEF Times, TimesIn
  <2> QED
    BY <2>1 DEF StoryInv, Lived
<1> QED
  BY <1>1, StoryAlways, PTL

(* Every data frame reaches a listening page once, in the order it was read,*)
(* the parked event included, and before the close event.                   *)
THEOREM MessagesAlwaysInOrder == Spec => []MessagesInOrder
<1>1. StoryInv => MessagesInOrder
  <2> SUFFICES ASSUME StoryInv, NEW s \in Socket
               PROVE  /\ \A i \in Times(s, "message") :
                            seen[s][i].n = Cardinality({j \in Times(s, "message") : j <= i})
                      /\ \A i \in Times(s, "clean") :
                            seen[s][i].n = Cardinality(Times(s, "message"))
    BY DEF MessagesInOrder
  <2>1. \A what : Times(s, what) = TimesIn(seen[s], what)
    BY DEF Times, TimesIn
  <2> QED
    BY <2>1 DEF StoryInv, Lived, Numbered, Told
<1> QED
  BY <1>1, StoryAlways, PTL

(* Whatever is on its way to the page is in one of the places events wait.  *)
LEMMA FlowUndelivered ==
    ASSUME TypeOK, NEW i \in 1 .. Len(Flow)
    PROVE  \E j \in DOMAIN Undelivered : Undelivered[j] = Flow[i]
<1> DEFINE q == head \o queue  b == SubSeq(batch, pos + 1, Len(batch))  u == q \o b
<1>1. /\ q \in Seq(Event) /\ Len(q) \in Nat /\ Len(batch) \in Nat /\ pos \in 0 .. Len(batch)
      /\ DOMAIN batch = 1 .. Len(batch) /\ batch \in Seq(Event)
      /\ Len(Path) = Len(batch) + Len(q)
      /\ \A j \in 1 .. Len(batch) : Path[j] = batch[j]
      /\ \A j \in 1 .. Len(q) : Path[Len(batch) + j] = q[j]
  BY PathType DEF TypeOK
<1>2. Flow[i] = Path[pos + i] /\ i \in Nat \ {0} /\ pos + i \in 1 .. Len(Path)
  BY FlowType
<1>3. b \in Seq(Event) /\ Len(b) = Len(batch) - pos
      /\ \A j \in 1 .. Len(batch) - pos : b[j] = batch[pos + j]
  <2>1. \A j \in pos + 1 .. Len(batch) : batch[j] \in Event
    BY <1>1, ElementOfSeq
  <2>2. pos + 1 \in Int /\ Len(batch) \in Int
    BY <1>1
  <2>3. /\ b \in Seq(Event)
        /\ Len(b) = IF pos + 1 <= Len(batch) THEN Len(batch) - (pos + 1) + 1 ELSE 0
        /\ \A j \in 1 .. Len(batch) - (pos + 1) + 1 : b[j] = batch[pos + 1 + j - 1]
    BY <2>1, <2>2, SubSeqProperties
  <2> HIDE DEF b
  <2>4. Len(b) = Len(batch) - pos /\ Len(batch) - (pos + 1) + 1 = Len(batch) - pos
    <3> DEFINE n == Len(batch)
    <3>1. n \in Nat /\ pos \in 0 .. n
          /\ Len(b) = IF pos + 1 <= n THEN n - (pos + 1) + 1 ELSE 0
      BY <1>1, <2>3
    <3> HIDE DEF n
    <3>2. Len(b) = n - pos /\ n - (pos + 1) + 1 = n - pos
      BY <3>1
    <3> QED
      BY <3>2 DEF n
  <2>5. \A j \in 1 .. Len(batch) - pos : pos + 1 + j - 1 = pos + j
    BY <1>1
  <2> QED
    BY <2>3, <2>4, <2>5
<1> HIDE DEF q, b
<1>4. /\ u \in Seq(Event) /\ Len(u) = Len(q) + Len(b)
      /\ \A j \in 1 .. Len(q) + Len(b) : u[j] = IF j <= Len(q) THEN q[j] ELSE b[j - Len(q)]
  <2>1. q \in Seq(Event) /\ b \in Seq(Event)
    BY <1>1, <1>3
  <2> QED
    BY <2>1, ConcatProperties
<1>5. Undelivered = u
  BY DEF Undelivered, u, q, b
<1> HIDE DEF u
<1>6. DOMAIN u = 1 .. Len(q) + Len(b) /\ Len(b) \in Nat
  BY <1>1, <1>3, <1>4, LenProperties
<1>7. CASE pos + i <= Len(batch)
  <2>1. i \in 1 .. Len(batch) - pos /\ Len(q) + i \in 1 .. Len(q) + Len(b)
        /\ ~(Len(q) + i <= Len(q)) /\ Len(q) + i - Len(q) = i /\ pos + i \in 1 .. Len(batch)
    BY <1>1, <1>2, <1>3, <1>7
  <2>2. u[Len(q) + i] = b[i] /\ b[i] = batch[pos + i] /\ Path[pos + i] = batch[pos + i]
    BY <1>1, <1>3, <1>4, <2>1
  <2> QED
    BY <1>2, <1>5, <1>6, <2>1, <2>2
<1>8. CASE ~(pos + i <= Len(batch))
  <2> DEFINE j == pos + i - Len(batch)
  <2>1. j \in 1 .. Len(q) /\ Len(batch) + j = pos + i
    BY <1>1, <1>2, <1>8
  <2>2. j \in 1 .. Len(q) + Len(b) /\ j <= Len(q)
    BY <1>1, <1>6, <2>1
  <2> HIDE DEF j
  <2>3. u[j] = q[j] /\ Path[pos + i] = q[j]
    BY <1>1, <1>4, <2>1, <2>2
  <2> QED
    BY <1>2, <1>5, <1>6, <2>2, <2>3
<1> QED
  BY <1>7, <1>8

(* A page object that takes its connection for alive after the reader's end *)
(* has the terminal event ahead of it: it is never lost between the queue,  *)
(* the parked event and the delivery.                                       *)
THEOREM EndAlwaysUnderway == Spec => []EndUnderway
<1>1. FlowInv /\ StoryInv => EndUnderway
  <2> SUFFICES ASSUME FlowInv, StoryInv, NEW s \in Socket, reader[s] = "done", Listed(s)
               PROVE  \E i \in DOMAIN Undelivered :
                          Undelivered[i].id = s /\ Undelivered[i].type \in Terminal
    BY DEF EndUnderway
  <2>1. PICK i \in Mine(s) : Flow[i].type \in Terminal
    BY DEF StoryInv, Story, EndAhead
  <2>2. i \in 1 .. Len(Flow) /\ Flow[i].id = s
    BY FlowType DEF FlowInv, Mine
  <2> QED
    BY <2>1, <2>2, FlowUndelivered DEF FlowInv
<1> QED
  BY <1>1, StoryAlways, PTL

(* A frame advances the clock over an unanswered ws.close() only when its   *)
(* budget is spent, or when a connection that nobody closed has ended: the  *)
(* only way the code lets go of the clock early (hold_for_ws_close).        *)
ClockHeldForCloseAlone ==
    pc' = "advance" /\ pc # "advance" /\ inFlight # {} /\ unsolicited = 0 => deadline = "spent"

THEOREM ClockHeldWhenAlone == Spec => [][ClockHeldForCloseAlone]_vars
<1>1. TypeOK /\ HoldLostOnlyToOthers /\ [Next]_vars => [ClockHeldForCloseAlone]_vars
  <2> SUFFICES ASSUME TypeOK, HoldLostOnlyToOthers, Next, pc' = "advance", pc # "advance",
                      inFlight # {}, unsolicited = 0
               PROVE  deadline = "spent"
    BY DEF ClockHeldForCloseAlone
  <2>1. IsFiniteSet(inFlight) /\ Cardinality(inFlight) \in Nat /\ pending \in Nat
    BY EndedFinite DEF TypeOK
  <2>2. Cardinality(inFlight) # 0
    BY <2>1, FS_EmptySet
  <2>3. pending # 0
    BY <2>1, <2>2 DEF HoldLostOnlyToOthers
  <2>4. ~Page /\ ~Reader
    BY DEF Page, Reader, Open, Close, Navigate, Reset, Upgraded, Refused, ReadMessage, ReadEnd,
           Straggles, ReaderStep
  <2>5. ~Delivery
    BY DEF Delivery, DeliverOne, DeliveryEnds, Release, TypeOK
  <2>6. ~Settle /\ ~BudgetRunsOut /\ ~LastTurn /\ ~HoldDelivers /\ ~Advance /\ ~Park
    BY DEF Settle, BudgetRunsOut, LastTurn, HoldDelivers, Advance, Park, Deliver
  <2> QED
    BY <2>3, <2>4, <2>5, <2>6 DEF Next, Frame, NoHold, HoldWaits, ParkTimesOut
<1> QED
  BY <1>1, HoldAlways, TypeCorrect, PTL DEF Spec
=============================================================================
