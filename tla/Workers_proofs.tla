--------------------------- MODULE Workers_proofs ---------------------------
(* Theorems about Workers: types, the counters, and the safety of both       *)
(* refinements of Mailbox, for any workers and any bounds.                   *)
EXTENDS Workers, TLAPS, SequenceTheorems, FiniteSetTheorems

-----------------------------------------------------------------------------
(* Helpers. *)

LEMMA ClampValue == ASSUME NEW n \in Int PROVE Clamp(n) = IF n > 0 THEN n ELSE 0
<1> DEFINE m == IF n > 0 THEN n ELSE 0
<1>1. m \in {0, n} /\ \A y \in {0, n} : m >= y
  OBVIOUS
<1>2. \A x \in {0, n} : (\A y \in {0, n} : x >= y) => x = m
  OBVIOUS
<1> HIDE DEF m
<1>3. Max({0, n}) = m
  BY <1>1, <1>2 DEF Max
<1> QED
  BY <1>3 DEF Clamp, m

(* A sequence of n events of one kind. *)
LEMMA SameEvents ==
    ASSUME NEW n \in Nat, NEW S, NEW e \in S
    PROVE  /\ [i \in 1..n |-> e] \in Seq(S) /\ Len([i \in 1..n |-> e]) = n
           /\ \A i \in 1..n : [j \in 1..n |-> e][i] = e
<1>1. [i \in 1..n |-> e] \in [1..n -> S]
  OBVIOUS
<1>2. [i \in 1..n |-> e] \in Seq(S)
  BY <1>1, SeqDef
<1>3. DOMAIN [i \in 1..n |-> e] = 1..n
  OBVIOUS
<1>4. Len([i \in 1..n |-> e]) = n
  BY <1>2, <1>3, LenProperties
<1> QED
  BY <1>2, <1>4

LEMMA HeadThenTail ==
    ASSUME NEW S, NEW q \in Seq(S), q # <<>>
    PROVE  q = <<Head(q)>> \o Tail(q)
<1>1. Len(q) \in Nat \ {0}
  BY EmptySeq
<1>2. 1 \in 1..Len(q) /\ Len(q) \in 1..Len(q)
  BY <1>1
<1>3. SubSeq(q, 1, Len(q)) = <<q[1]>> \o SubSeq(q, 1 + 1, Len(q))
  BY <1>2, SubSeqRecursiveFirst
<1>4. SubSeq(q, 1, Len(q)) = q
  BY SubSeqFull
<1>5. Tail(q) = SubSeq(q, 2, Len(q))
  BY TailIsSubSeq
<1>6. Head(q) = q[1]
  BY <1>1
<1> QED
  BY <1>3, <1>4, <1>5, <1>6

LEMMA PlacesFinite ==
    ASSUME NEW S, NEW q \in Seq(S), NEW kinds
    PROVE  /\ Places(q, kinds) \subseteq 1..Len(q)
           /\ IsFiniteSet(Places(q, kinds)) /\ Count(q, kinds) \in Nat
<1>1. Len(q) \in Nat /\ DOMAIN q = 1..Len(q)
  BY LenProperties
<1>2. Places(q, kinds) \subseteq 1..Len(q)
  BY <1>1 DEF Places
<1>3. IsFiniteSet(1..Len(q))
  BY <1>1, FS_Interval
<1>4. IsFiniteSet(Places(q, kinds))
  BY <1>2, <1>3, FS_Subset
<1> QED
  BY <1>2, <1>4, FS_CardinalityType DEF Count

-----------------------------------------------------------------------------
(* Types.                                                                    *)

Letters == [handle : Worker, kind : {"post", "broadcast", "terminate"}, n : Nat]
Threads == {"none", "boot", "poll", "post", "broadcast", "ends", "dead"}

(* What TypeOK says, but for the two counts, which follow from WorkInv; an   *)
(* inbox and a hand hold letters only, so that the loop knows what to do     *)
(* with one.                                                                 *)
Typed ==
    /\ page \in [Worker -> {"new", "open", "shut"}]
    /\ registry \subseteq Worker /\ leaving \subseteq Worker
    /\ thread \in [Worker -> Threads]
    /\ hand \in [Worker -> Seq(Letters)] /\ \A w \in Worker : Len(hand[w]) <= 1
    /\ holds \in [Worker -> SUBSET {"init", "busy"}]
    /\ stopping \in [Worker -> BOOLEAN]
    /\ inbox \in [Worker -> Seq(Letters)] /\ outbox \in Seq(Events)
    /\ head \in Seq(Events) /\ Len(head) <= 1
    /\ inFlight \in Nat /\ tally \in [Worker -> Nat] /\ broadcastPending \in Nat
    /\ mode \in {"idle", "deliver", "reset"} /\ batch \in Seq(Events) /\ handler \in BOOLEAN
    /\ posted \in [Worker -> Nat] /\ handled \in [Worker -> Nat]
    /\ sent \in [Worker -> Nat] /\ given \in [Worker -> Nat]
    /\ broadcasts \in Nat /\ dropped \in Nat

LEMMA EventType ==
    ASSUME NEW w \in Worker, NEW n \in Nat
    PROVE  /\ \A kind \in Kinds : Event(w, kind, n) \in Events
           /\ \A kind \in {"post", "broadcast", "terminate"} : Event(w, kind, n) \in Letters
BY DEF Event, Events, Letters

LEMMA LettersAreEvents == Letters \subseteq Events
BY DEF Letters, Events, Kinds

LEMMA InitTyped == Init => Typed
<1>1. ASSUME Init
      PROVE  /\ inbox \in [Worker -> Seq(Letters)] /\ hand \in [Worker -> Seq(Letters)]
             /\ \A w \in Worker : Len(hand[w]) <= 1
             /\ holds \in [Worker -> SUBSET {"init", "busy"}]
  <2>1. <<>> \in Seq(Letters) /\ Len(<<>>) = 0
    BY EmptySeq
  <2> QED
    BY <1>1, <2>1 DEF Init
<1>2. <<>> \in Seq(Events) /\ Len(<<>>) = 0
  BY EmptySeq
<1>3. ASSUME Init PROVE Typed
  <2>1. /\ outbox = <<>> /\ head = <<>> /\ batch = <<>>
    BY <1>3 DEF Init
  <2>2. thread \in [Worker -> Threads]
    BY <1>3 DEF Init, Threads
  <2>3. page \in [Worker -> {"new", "open", "shut"}] /\ stopping \in [Worker -> BOOLEAN]
        /\ registry \subseteq Worker /\ leaving \subseteq Worker
    BY <1>3 DEF Init
  <2>4. /\ inFlight \in Nat /\ tally \in [Worker -> Nat] /\ broadcastPending \in Nat
        /\ posted \in [Worker -> Nat] /\ handled \in [Worker -> Nat]
        /\ sent \in [Worker -> Nat] /\ given \in [Worker -> Nat]
        /\ broadcasts \in Nat /\ dropped \in Nat
    BY <1>3 DEF Init
  <2>5. mode \in {"idle", "deliver", "reset"} /\ handler \in BOOLEAN
    BY <1>3 DEF Init
  <2>6. /\ outbox \in Seq(Events) /\ head \in Seq(Events) /\ batch \in Seq(Events)
        /\ Len(head) <= 1
    BY <1>2, <2>1
  <2> QED
    BY <1>1, <1>3, <2>2, <2>3, <2>4, <2>5, <2>6 DEF Typed
<1> QED
  BY <1>3

LEMMA PageTyped == ASSUME Typed, Page PROVE Typed'
<1> USE DEF counterVars, threadVars, mainVars, historyVars
<1>1. ASSUME NEW w \in Worker, Spawn(w) PROVE Typed'
  <2>1. thread' \in [Worker -> Threads] /\ page' \in [Worker -> {"new", "open", "shut"}]
        /\ registry' \subseteq Worker
    BY <1>1 DEF Typed, Spawn, Threads
  <2>2. {"init"} \in SUBSET {"init", "busy"}
    OBVIOUS
  <2>3. holds' \in [Worker -> SUBSET {"init", "busy"}]
    BY <1>1, <2>2 DEF Typed, Spawn
  <2>4. UNCHANGED <<hand, stopping, inbox, outbox, head, counterVars, mainVars, leaving, historyVars>>
    BY <1>1 DEF Spawn
  <2> QED
    BY <2>1, <2>3, <2>4 DEF Typed
<1>2. ASSUME NEW w \in Worker, SpawnFails(w) PROVE Typed'
  <2>1. Event(w, "__error", sent[w] + 1) \in Events
    BY EventType DEF Typed, Kinds
  <2>2. outbox' \in Seq(Events)
    BY <1>2, <2>1, AppendProperties DEF Typed, SpawnFails, Says
  <2> QED
    BY <1>2, <2>2 DEF Typed, SpawnFails, Says
<1>3. ASSUME NEW w \in Worker, PostMessage(w) PROVE Typed'
  <2>1. Event(w, "post", posted[w] + 1) \in Letters
    BY EventType DEF Typed
  <2>2. Append(inbox[w], Event(w, "post", posted[w] + 1)) \in Seq(Letters)
    BY <2>1, AppendProperties DEF Typed
  <2>3. inbox' \in [Worker -> Seq(Letters)] /\ posted' \in [Worker -> Nat]
    BY <1>3, <2>2 DEF Typed, PostMessage
  <2>4. inFlight' \in Nat /\ tally' \in [Worker -> Nat]
    BY <1>3 DEF Typed, PostMessage
  <2>5. UNCHANGED <<page, registry, threadVars, stopping, outbox, head, broadcastPending, mainVars,
                    leaving, handled, sent, given, broadcasts, dropped>>
    BY <1>3 DEF PostMessage
  <2> QED
    BY <2>3, <2>4, <2>5 DEF Typed
<1>4. CASE PageBroadcasts
  <2>1. \A w \in Worker : Append(inbox[w], Event(w, "broadcast", 0)) \in Seq(Letters)
    BY EventType, AppendProperties DEF Typed
  <2>2. inbox' \in [Worker -> Seq(Letters)]
    BY <1>4, <2>1 DEF PageBroadcasts, Typed
  <2>3. Cardinality(Listeners({})) \in Nat
    BY WorkersAssumption, FS_Subset, FS_CardinalityType DEF Listeners, Typed
  <2> QED
    BY <1>4, <2>2, <2>3 DEF PageBroadcasts, Typed
<1>5. \A w \in Worker : Terminating(w) \in Seq(Letters)
  <2> SUFFICES ASSUME NEW w \in Worker PROVE Terminating(w) \in Seq(Letters)
    OBVIOUS
  <2>1. <<Event(w, "terminate", 0)>> \in Seq(Letters)
    BY EventType
  <2> QED
    BY <2>1, ConcatProperties DEF Typed, Terminating
<1>6. ASSUME NEW w \in Worker, Terminate(w) PROVE Typed'
  BY <1>5, <1>6 DEF Typed, Terminate
<1>7. CASE FrameGone
  BY <1>5, <1>7 DEF Typed, FrameGone
<1>8. CASE Navigate
  BY <1>8 DEF Typed, Navigate
<1>9. CASE ResetBegins
  BY <1>5, <1>9 DEF Typed, ResetBegins
<1> QED
  BY <1>1, <1>2, <1>3, <1>4, <1>6, <1>7, <1>8, <1>9 DEF Page

LEMMA MainTyped == ASSUME Typed, Main \/ Park PROVE Typed'
<1> USE DEF counterVars, threadVars, mainVars, historyVars
<1>1. CASE Deliver
  <2> DEFINE events == head \o outbox
             msgs == Places(events, Messages)
             Answers(w) == {i \in msgs : events[i].handle = w}
             Hears(w) == {i \in Places(events, {"broadcast"}) :
                              w \in Listeners({events[i].handle})}
             heard == UNION {{w} \X Hears(w) : w \in Worker}
             more(w) == [i \in 1..Cardinality(Hears(w)) |-> Event(w, "broadcast", 0)]
  <2>1. events \in Seq(Events)
    BY ConcatProperties DEF Typed
  <2>2. IsFiniteSet(msgs) /\ Count(events, {"bcack"}) \in Nat
        /\ IsFiniteSet(Places(events, {"broadcast"}))
    BY <2>1, PlacesFinite
  <2>3. \A w \in Worker : Cardinality(Answers(w)) \in Nat /\ Cardinality(Hears(w)) \in Nat
    BY <2>2, FS_Subset, FS_CardinalityType
  <2>4. Cardinality(msgs) \in Nat
    BY <2>2, FS_CardinalityType
  <2>5. IsFiniteSet(heard) /\ Cardinality(heard) \in Nat
    <3>1. heard \subseteq Worker \X Places(events, {"broadcast"})
      OBVIOUS
    <3> QED
      BY <2>2, <3>1, WorkersAssumption, FS_Product, FS_Subset, FS_CardinalityType
  <2>6. \A w \in Worker : inbox[w] \o more(w) \in Seq(Letters)
    <3> SUFFICES ASSUME NEW w \in Worker PROVE inbox[w] \o more(w) \in Seq(Letters)
      OBVIOUS
    <3>1. more(w) \in Seq(Letters)
      BY <2>3, EventType, SameEvents
    <3> QED
      BY <3>1, ConcatProperties DEF Typed
  <2>7. /\ inbox' = [w \in Worker |-> inbox[w] \o more(w)]
        /\ broadcastPending' =
              Clamp(broadcastPending + Cardinality(heard) - Count(events, {"bcack"}))
        /\ inFlight' = Clamp(inFlight - Cardinality(msgs))
        /\ tally' = [w \in Worker |-> IF w \in registry
                                      THEN Clamp(tally[w] - Cardinality(Answers(w)))
                                      ELSE tally[w]]
        /\ batch' \in {<<>>, events} /\ mode' \in {"idle", "deliver"}
        /\ outbox' = <<>> /\ head' = <<>>
        /\ UNCHANGED <<page, registry, threadVars, stopping, handler, leaving, historyVars>>
    BY <1>1 DEF Deliver, Drained
  <2> HIDE DEF events, msgs, Answers, Hears, heard, more
  <2>8. inbox' \in [Worker -> Seq(Letters)]
    BY <2>6, <2>7
  <2>9. broadcastPending' \in Nat /\ inFlight' \in Nat
    <3>1. broadcastPending + Cardinality(heard) - Count(events, {"bcack"}) \in Int
          /\ inFlight - Cardinality(msgs) \in Int
      BY <2>2, <2>4, <2>5 DEF Typed
    <3> QED
      BY <2>7, <3>1, ClampValue
  <2>10. tally' \in [Worker -> Nat]
    <3>1. \A w \in Worker : Clamp(tally[w] - Cardinality(Answers(w))) \in Nat
      <4> SUFFICES ASSUME NEW w \in Worker
                   PROVE  Clamp(tally[w] - Cardinality(Answers(w))) \in Nat
        OBVIOUS
      <4>1. tally[w] - Cardinality(Answers(w)) \in Int
        BY <2>3 DEF Typed
      <4> QED
        BY <4>1, ClampValue
    <3> QED
      BY <2>7, <3>1 DEF Typed
  <2> QED
    <3>1. /\ batch' \in Seq(Events) /\ outbox' \in Seq(Events) /\ head' \in Seq(Events)
          /\ Len(head') <= 1
      <4>1. <<>> \in Seq(Events) /\ Len(<<>>) = 0
        BY EmptySeq
      <4>2. batch' = <<>> \/ batch' = events
        BY <2>7
      <4>3. batch' \in Seq(Events)
        BY <2>1, <4>1, <4>2
      <4>4. outbox' = <<>> /\ head' = <<>>
        BY <2>7
      <4>5. outbox' \in Seq(Events) /\ head' \in Seq(Events) /\ Len(head') <= 1
        BY <4>1, <4>4
      <4> QED
        BY <4>3, <4>5
    <3>2. mode' \in {"idle", "deliver", "reset"}
      BY <2>7
    <3>3. UNCHANGED <<page, registry, threadVars, stopping, handler, leaving, historyVars>>
      BY <2>7
    <3> QED
      BY <2>8, <2>9, <2>10, <3>1, <3>2, <3>3 DEF Typed
<1>2. CASE DeliverOne
  <2>1. PICK i \in Places(batch, Messages) :
          /\ handler' = (page[batch[i].handle] = "open")
          /\ given' = IF handler' THEN [given EXCEPT ![batch[i].handle] = batch[i].n] ELSE given
          /\ batch' = SubSeq(batch, i + 1, Len(batch))
    BY <1>2 DEF DeliverOne
  <2>2. Len(batch) \in Nat /\ i \in 1..Len(batch) /\ batch[i] \in Events
    BY PlacesFinite, LenProperties, ElementOfSeq DEF Typed
  <2>3. \A j \in i + 1 .. Len(batch) : batch[j] \in Events
    BY <2>2, ElementOfSeq DEF Typed
  <2>4. batch' \in Seq(Events)
    BY <2>1, <2>2, <2>3, SubSeqProperties
  <2>5. given' \in [Worker -> Nat]
    BY <2>1, <2>2 DEF Typed, Events
  <2>6. handler' \in BOOLEAN
    BY <2>1
  <2> QED
    BY <1>2, <2>4, <2>5, <2>6 DEF Typed, DeliverOne
<1>3. CASE DeliveryEnds
  BY <1>3, EmptySeq DEF Typed, DeliveryEnds
<1>4. CASE ResetEnds
  BY <1>4, EmptySeq DEF Typed, ResetEnds
<1>5. ASSUME NEW w \in Worker, GraceIsOver(w) PROVE Typed'
  BY <1>5 DEF Typed, GraceIsOver
<1>6. ASSUME NEW w \in Worker, Reap(w) PROVE Typed'
  <2>1. Count(inbox[w], {"broadcast"}) \in Nat
    BY PlacesFinite DEF Typed
  <2>2. Event(w, "bcack", 0) \in Events
    BY EventType DEF Kinds
  <2>3. outbox' \in Seq(Events)
    BY <1>6, <2>1, <2>2, SameEvents, ConcatProperties DEF Typed, Reap, Reaped
  <2>4. Clamp(inFlight - tally[w]) \in Nat
    <3>1. inFlight - tally[w] \in Int
      BY DEF Typed
    <3> QED
      BY <3>1, ClampValue
  <2> QED
    BY <1>6, <2>3, <2>4, EmptySeq DEF Typed, Reap, Reaped
<1>7. CASE Park
  <2>1. Head(outbox) \in Events /\ Tail(outbox) \in Seq(Events)
    BY <1>7, HeadTailProperties DEF Typed, Park
  <2>2. head' \in Seq(Events) /\ Len(head') <= 1
    BY <1>7, <2>1 DEF Park
  <2> QED
    BY <1>7, <2>1, <2>2 DEF Typed, Park
<1> QED
  BY <1>1, <1>2, <1>3, <1>4, <1>5, <1>6, <1>7 DEF Main

LEMMA ThreadTyped == ASSUME Typed, NEW w \in Worker, Thread(w) PROVE Typed'
<1> USE DEF counterVars, threadVars, mainVars, historyVars, mainThreadVars
<1>0. Acked(w) \in Seq(Events)
  <2>1. Event(w, "bcack", 0) \in Events
    BY EventType DEF Kinds
  <2> QED
    BY <2>1, AppendProperties DEF Typed, Acked
<1>1. CASE ScriptPosts(w)
  <2>1. Event(w, "message", sent[w] + 1) \in Events
    BY EventType DEF Typed, Kinds
  <2>2. outbox' \in Seq(Events)
    BY <1>1, <2>1, AppendProperties DEF Typed, ScriptPosts, Says
  <2> QED
    BY <1>1, <2>2 DEF Typed, ScriptPosts, Says
<1>2. CASE ScriptBroadcasts(w)
  <2>1. Event(w, "broadcast", 0) \in Events
    BY EventType DEF Kinds
  <2>2. outbox' \in Seq(Events)
    BY <1>2, <2>1, AppendProperties DEF Typed, ScriptBroadcasts
  <2>3. broadcasts' \in Nat
    BY <1>2 DEF Typed, ScriptBroadcasts
  <2>4. UNCHANGED <<page, registry, threadVars, stopping, inbox, head, counterVars, mainVars,
                    leaving, posted, handled, sent, given, dropped>>
    BY <1>2 DEF ScriptBroadcasts
  <2> QED
    BY <2>2, <2>3, <2>4 DEF Typed
<1>3. \A states \in SUBSET Threads : Goes(w, states) => thread' \in [Worker -> Threads]
  BY DEF Typed, Goes
<1>4. Afterwards \in SUBSET Threads /\ {"ends"} \in SUBSET Threads /\ {"dead"} \in SUBSET Threads
  BY DEF Afterwards, Threads
<1>5. <<>> \in Seq(Letters) /\ Len(<<>>) = 0
  BY EmptySeq
<1>6. CASE BootReturns(w) \/ PostReturns(w)
  <2>1. thread' \in [Worker -> Threads]
    BY <1>3, <1>4, <1>6 DEF BootReturns, PostReturns
  <2>2. holds' = [holds EXCEPT ![w] = @ \ {"init"}] \/ holds' = [holds EXCEPT ![w] = @ \ {"busy"}]
    BY <1>6 DEF BootReturns, PostReturns
  <2>3. holds' \in [Worker -> SUBSET {"init", "busy"}]
    <3>1. holds \in [Worker -> SUBSET {"init", "busy"}]
      BY DEF Typed
    <3>2. holds[w] \subseteq {"init", "busy"}
      BY <3>1
    <3>3. CASE holds' = [holds EXCEPT ![w] = @ \ {"init"}]
      BY <3>1, <3>2, <3>3
    <3>4. CASE holds' = [holds EXCEPT ![w] = @ \ {"busy"}]
      BY <3>1, <3>2, <3>4
    <3> QED
      BY <2>2, <3>3, <3>4
  <2>4. UNCHANGED <<mainThreadVars, hand, inbox, outbox, handled, sent, dropped>>
    BY <1>6 DEF BootReturns, PostReturns
  <2> QED
    BY <2>1, <2>3, <2>4 DEF Typed
<1>7. CASE BroadcastReturns(w) \/ Closes(w)
  <2>1. thread' \in [Worker -> Threads] /\ outbox' \in Seq(Events)
    BY <1>0, <1>3, <1>4, <1>7 DEF Typed, BroadcastReturns, Closes
  <2>2. UNCHANGED <<mainThreadVars, hand, holds, inbox, handled, sent, dropped>>
    BY <1>7 DEF BroadcastReturns, Closes
  <2> QED
    BY <2>1, <2>2 DEF Typed
<1>8. CASE Pull(w)
  <2>1. Head(inbox[w]) \in Letters /\ Tail(inbox[w]) \in Seq(Letters)
    BY <1>8, HeadTailProperties DEF Pull, Typed
  <2>2. <<Head(inbox[w])>> \in Seq(Letters) /\ Len(<<Head(inbox[w])>>) = 1
    BY <2>1
  <2>3. hand' \in [Worker -> Seq(Letters)] /\ \A v \in Worker : Len(hand'[v]) <= 1
    <3>1. hand' = [hand EXCEPT ![w] = <<Head(inbox[w])>>]
      BY <1>8 DEF Pull
    <3> QED
      BY <2>2, <3>1 DEF Typed
  <2>4. inbox' \in [Worker -> Seq(Letters)]
    BY <1>8, <2>1 DEF Pull, Typed
  <2>5. UNCHANGED <<mainThreadVars, thread, holds, outbox, handled, sent, dropped>>
    BY <1>8 DEF Pull
  <2> QED
    BY <2>3, <2>4, <2>5 DEF Typed
<1>9. CASE Take(w)
  <2> DEFINE msg == Head(hand[w])
  <2>1. msg \in Letters
    BY <1>9, HeadTailProperties DEF Take, Taken, Typed
  <2>2. msg.n \in Nat /\ msg.kind \in {"post", "broadcast", "terminate"}
    BY <2>1 DEF Letters
  <2>3. /\ Goes(w, {msg.kind}) /\ hand' = [hand EXCEPT ![w] = <<>>]
        /\ holds' = [holds EXCEPT ![w] = @ \cup {"busy"}] \/ holds' = holds
        /\ handled' = [handled EXCEPT ![w] = msg.n] \/ handled' = handled
        /\ UNCHANGED <<mainThreadVars, inbox, outbox, sent, dropped>>
        /\ msg.kind # "terminate"
    BY <1>9 DEF Take, Taken
  <2> HIDE DEF msg
  <2>4. thread' \in [Worker -> Threads]
    BY <1>3, <2>2, <2>3 DEF Threads
  <2>5. hand' \in [Worker -> Seq(Letters)] /\ \A v \in Worker : Len(hand'[v]) <= 1
    BY <1>5, <2>3 DEF Typed
  <2>6. holds' \in [Worker -> SUBSET {"init", "busy"}] /\ handled' \in [Worker -> Nat]
    <3>1. holds[w] \cup {"busy"} \in SUBSET {"init", "busy"}
      BY DEF Typed
    <3>2. holds' \in [Worker -> SUBSET {"init", "busy"}]
      BY <2>3, <3>1 DEF Typed
    <3> QED
      BY <2>2, <2>3, <3>2 DEF Typed
  <2> QED
    BY <2>3, <2>4, <2>5, <2>6 DEF Typed
<1>10. CASE Leaves(w)
  <2>1. Count(hand[w], {"broadcast"}) \in Nat
    BY PlacesFinite DEF Typed
  <2>2. thread' \in [Worker -> Threads] /\ outbox' \in Seq(Events) /\ dropped' \in Nat
    <3>1. Goes(w, {"ends"}) /\ outbox' = Acked(w) /\ dropped' = dropped + Count(hand[w], {"broadcast"})
      BY <1>10 DEF Leaves
    <3>2. thread' \in [Worker -> Threads]
      BY <1>3, <1>4, <3>1
    <3> QED
      BY <1>0, <2>1, <3>1, <3>2 DEF Typed
  <2>3. hand' \in [Worker -> Seq(Letters)] /\ \A v \in Worker : Len(hand'[v]) <= 1
    BY <1>5, <1>10 DEF Typed, Leaves
  <2>4. UNCHANGED <<mainThreadVars, holds, inbox, handled, sent>>
    BY <1>10 DEF Leaves
  <2> QED
    BY <2>2, <2>3, <2>4 DEF Typed
<1>11. CASE Raises(w)
  <2>1. Event(w, "__error", sent[w] + 1) \in Events
    BY EventType DEF Typed, Kinds
  <2>2. outbox' \in Seq(Events)
    BY <1>0, <1>11, <2>1, AppendProperties DEF Raises, Says
  <2>3. thread' \in [Worker -> Threads] /\ sent' \in [Worker -> Nat]
    BY <1>3, <1>4, <1>11 DEF Typed, Raises, Says
  <2>4. UNCHANGED <<mainThreadVars, hand, holds, inbox, handled, dropped>>
    BY <1>11 DEF Raises
  <2> QED
    BY <2>2, <2>3, <2>4 DEF Typed
<1>12. CASE Ends(w)
  <2>1. thread' \in [Worker -> Threads] /\ holds' \in [Worker -> SUBSET {"init", "busy"}]
    BY <1>3, <1>4, <1>12 DEF Typed, Ends
  <2>2. UNCHANGED <<mainThreadVars, hand, inbox, outbox, handled, sent, dropped>>
    BY <1>12 DEF Ends
  <2> QED
    BY <2>1, <2>2 DEF Typed
<1> QED
  BY <1>1, <1>2, <1>6, <1>7, <1>8, <1>9, <1>10, <1>11, <1>12 DEF Thread

LEMMA TypedStep == Typed /\ [Next]_vars => Typed'
<1>1. Typed /\ UNCHANGED vars => Typed'
  BY DEF vars, counterVars, threadVars, mainVars, historyVars, Typed
<1> QED
  BY <1>1, PageTyped, MainTyped, ThreadTyped DEF Next

-----------------------------------------------------------------------------
(* The life of a worker, and the counts of those at work.                    *)

BirthInv == \A w \in Worker :
    /\ page[w] = "new" => /\ thread[w] = "none" /\ w \notin registry \cup leaving
                          /\ sent[w] = 0 /\ given[w] = 0
    /\ w \in registry \cup leaving => thread[w] # "none"
    /\ w \notin registry \cup leaving => stopping[w] \/ thread[w] \in {"none", "dead"}
    /\ hand[w] # <<>> => thread[w] = "poll"

(* What a step of w's thread does not touch.                                 *)
LEMMA ThreadLocal ==
    ASSUME Typed, BirthInv, NEW w \in Worker, Thread(w)
    PROVE  /\ UNCHANGED <<page, registry, stopping, head, counterVars, mainVars, leaving, posted,
                          given>>
           /\ thread[w] \notin {"none", "dead"} /\ thread'[w] # "none"
           /\ \A v \in Worker \ {w} :
                 /\ thread'[v] = thread[v] /\ hand'[v] = hand[v] /\ holds'[v] = holds[v]
                 /\ inbox'[v] = inbox[v] /\ handled'[v] = handled[v] /\ sent'[v] = sent[v]
<1> USE DEF counterVars, threadVars, mainVars, historyVars, mainThreadVars
<1>1. \A states : Goes(w, states) => /\ thread'[w] \in states
                                     /\ \A v \in Worker \ {w} : thread'[v] = thread[v]
  BY DEF Goes, Typed
<1>2. "none" \notin Afterwards
  BY DEF Afterwards
<1> DEFINE Others == \A v \in Worker \ {w} :
               /\ hand'[v] = hand[v] /\ holds'[v] = holds[v] /\ inbox'[v] = inbox[v]
               /\ handled'[v] = handled[v] /\ sent'[v] = sent[v]
           MainIdle == UNCHANGED <<page, registry, stopping, head, counterVars, mainVars, leaving,
                                posted, given>>
           Alive == thread[w] \notin {"none", "dead"} /\ thread'[w] # "none"
                    /\ \A v \in Worker \ {w} : thread'[v] = thread[v]
<1>3. CASE ScriptPosts(w) \/ ScriptBroadcasts(w)
  BY <1>3 DEF ScriptPosts, ScriptBroadcasts, InScript, Says, Typed
<1>4. CASE BootReturns(w) \/ PostReturns(w)
  <2>1. Alive
    BY <1>1, <1>2, <1>4 DEF BootReturns, PostReturns
  <2>2. Others /\ MainIdle
    BY <1>4 DEF BootReturns, PostReturns, Typed
  <2> QED
    BY <2>1, <2>2
<1>5. CASE BroadcastReturns(w) \/ Closes(w)
  <2>1. Alive
    BY <1>1, <1>2, <1>5 DEF BroadcastReturns, Closes
  <2>2. Others /\ MainIdle
    BY <1>5 DEF BroadcastReturns, Closes
  <2> QED
    BY <2>1, <2>2
<1>6. CASE Pull(w)
  BY <1>6 DEF Pull, Typed
<1>7. CASE Leaves(w) \/ Ends(w)
  <2>1. Alive
    BY <1>1, <1>7 DEF Leaves, Ends
  <2>2. Others /\ MainIdle
    BY <1>7 DEF Leaves, Ends, Typed
  <2> QED
    BY <2>1, <2>2
<1>8. CASE Raises(w)
  <2>1. Alive
    BY <1>1, <1>8 DEF Raises, InScript
  <2>2. Others /\ MainIdle
    BY <1>8 DEF Raises, Says, Typed
  <2> QED
    BY <2>1, <2>2
<1>9. CASE Take(w)
  <2>1. Head(hand[w]) \in Letters
    BY <1>9, HeadTailProperties DEF Take, Taken, Typed
  <2>2. Head(hand[w]).kind # "none"
    BY <2>1 DEF Letters
  <2>3. thread'[w] # "none" /\ \A v \in Worker \ {w} : thread'[v] = thread[v]
    BY <1>1, <1>9, <2>2 DEF Take, Taken
  <2>4. hand[w] # <<>> /\ thread[w] = "poll"
    BY <1>9 DEF Take, Taken, BirthInv
  <2>5. /\ hand' = [hand EXCEPT ![w] = <<>>]
        /\ IF Head(hand[w]).kind = "post"
           THEN /\ busy' = busy + 1 /\ holds' = [holds EXCEPT ![w] = @ \cup {"busy"}]
                /\ handled' = [handled EXCEPT ![w] = Head(hand[w]).n]
           ELSE UNCHANGED <<busy, holds, handled>>
        /\ UNCHANGED <<mainThreadVars, initializing, inbox, outbox, sent, dropped>>
    BY <1>9 DEF Take, Taken
  <2>6. Others /\ MainIdle
    BY <2>5 DEF Typed
  <2> QED
    BY <2>3, <2>4, <2>6
<1> QED
  BY <1>3, <1>4, <1>5, <1>6, <1>7, <1>8, <1>9 DEF Thread

(* What the main thread is at; a worker that leaves is no longer registered, *)
(* and during a reset no page object listens.                                *)
ModeInv ==
    /\ registry \cap leaving = {}
    /\ handler => mode = "deliver"
    /\ mode # "deliver" => batch = <<>>
    /\ mode = "reset" => /\ leaving = {} /\ \A w \in Worker : page[w] # "open"
                         /\ \A w \in registry : stopping[w]

LEMMA ModeInit == Init => ModeInv
BY DEF Init, ModeInv

LEMMA BirthInit == Init => BirthInv
BY DEF Init, BirthInv

LEMMA ModeStep == Typed /\ BirthInv /\ ModeInv /\ [Next]_vars => ModeInv'
<1> SUFFICES ASSUME Typed, BirthInv, ModeInv, [Next]_vars PROVE ModeInv'
  OBVIOUS
<1> USE DEF counterVars, threadVars, mainVars, historyVars, Typed, ModeInv
<1>1. CASE UNCHANGED vars
  BY <1>1 DEF vars
<1>2. CASE Page
  <2>1. ASSUME NEW w \in Worker, Spawn(w) \/ SpawnFails(w) \/ Terminate(w) PROVE ModeInv'
    BY <2>1 DEF Spawn, SpawnFails, Terminate, ScriptRuns
  <2>2. ASSUME NEW w \in Worker, PostMessage(w) PROVE ModeInv'
    BY <2>2 DEF PostMessage, ScriptRuns
  <2>3. CASE PageBroadcasts \/ FrameGone
    BY <2>3 DEF PageBroadcasts, FrameGone, ScriptRuns
  <2>4. CASE Navigate
    BY <2>4 DEF Navigate
  <2>5. CASE ResetBegins
    <3>1. /\ mode = "idle" /\ leaving' = {} /\ registry' = registry
          /\ UNCHANGED <<batch, handler>> /\ mode' = "reset"
      BY <2>5 DEF ResetBegins
    <3>2. \A w \in Worker : page'[w] # "open"
      BY <2>5 DEF ResetBegins
    <3>3. \A w \in registry : stopping'[w]
      BY <2>5, Zenon DEF ResetBegins
    <3> QED
      BY <3>1, <3>2, <3>3
  <2> QED
    BY <1>2, <2>1, <2>2, <2>3, <2>4, <2>5 DEF Page
<1>3. CASE Deliver
  <2>1. (batch' = <<>> /\ mode' = "idle") \/ mode' = "deliver"
    BY <1>3 DEF Deliver, Drained
  <2>2. mode = "idle" /\ UNCHANGED <<handler, leaving, page, registry, stopping>>
    BY <1>3 DEF Deliver, Drained
  <2> QED
    BY <2>1, <2>2
<1>4. CASE DeliverOne \/ DeliveryEnds
  BY <1>4 DEF DeliverOne, DeliveryEnds
<1>5. CASE ResetEnds \/ Park
  BY <1>5 DEF ResetEnds, Park
<1>6. ASSUME NEW w \in Worker, GraceIsOver(w) \/ Reap(w) PROVE ModeInv'
  BY <1>6 DEF GraceIsOver, Reap, Reaped
<1>7. ASSUME NEW w \in Worker, Thread(w) PROVE ModeInv'
  <2>1. UNCHANGED <<handler, mode, batch, leaving, page, registry, stopping>>
    BY <1>7, ThreadLocal
  <2> QED
    BY <2>1
<1> QED
  BY <1>1, <1>2, <1>3, <1>4, <1>5, <1>6, <1>7 DEF Next, Main

LEMMA BirthStep == Typed /\ ModeInv /\ BirthInv /\ [Next]_vars => BirthInv'
<1> SUFFICES ASSUME Typed, ModeInv, BirthInv, [Next]_vars PROVE BirthInv'
  OBVIOUS
<1> USE DEF counterVars, threadVars, mainVars, historyVars, Typed
<1>1. CASE UNCHANGED vars
  BY <1>1 DEF vars, BirthInv
<1>2. CASE Page
  <2>1. ASSUME NEW w \in Worker, Spawn(w) \/ SpawnFails(w) PROVE BirthInv'
    <3>1. CASE SpawnFails(w)
      BY <3>1 DEF SpawnFails, Says, BirthInv
    <3>2. CASE Spawn(w)
      <4>1. /\ page'[w] = "open" /\ thread'[w] = "boot" /\ page[w] = "new"
            /\ \A v \in Worker \ {w} : page'[v] = page[v] /\ thread'[v] = thread[v]
            /\ registry' = registry \cup {w}
            /\ UNCHANGED <<hand, leaving, stopping, sent, given>>
        BY <3>2 DEF Spawn
      <4>2. hand[w] = <<>>
        BY <4>1 DEF BirthInv
      <4> QED
        BY <4>1, <4>2 DEF BirthInv
    <3> QED
      BY <2>1, <3>1, <3>2
  <2>2. ASSUME NEW w \in Worker, PostMessage(w) \/ Terminate(w) PROVE BirthInv'
    BY <2>2 DEF PostMessage, Terminate, ScriptRuns, BirthInv
  <2>3. CASE PageBroadcasts
    BY <2>3 DEF PageBroadcasts, BirthInv
  <2>4. CASE FrameGone
    BY <2>4 DEF FrameGone, ScriptRuns, BirthInv
  <2>5. CASE Navigate \/ ResetBegins
    BY <2>5 DEF Navigate, ResetBegins, BirthInv
  <2> QED
    BY <1>2, <2>1, <2>2, <2>3, <2>4, <2>5 DEF Page
<1>3. CASE Deliver
  <2>1. UNCHANGED <<page, thread, hand, registry, leaving, sent, given, stopping>>
    BY <1>3 DEF Deliver, Drained
  <2> QED
    BY <2>1 DEF BirthInv
<1>4. CASE DeliverOne
  <2>1. PICK i \in Places(batch, Messages) :
          /\ handler' = (page[batch[i].handle] = "open")
          /\ given' = IF handler' THEN [given EXCEPT ![batch[i].handle] = batch[i].n] ELSE given
    BY <1>4 DEF DeliverOne
  <2>2. \A w \in Worker : page[w] = "new" => given'[w] = given[w]
    BY <2>1
  <2> QED
    BY <1>4, <2>2 DEF DeliverOne, BirthInv
<1>5. CASE DeliveryEnds
  BY <1>5 DEF DeliveryEnds, BirthInv
<1>6. CASE ResetEnds
  BY <1>6 DEF ResetEnds, BirthInv, ModeInv
<1>7. CASE Park
  BY <1>7 DEF Park, BirthInv
<1>8. ASSUME NEW w \in Worker, GraceIsOver(w) \/ Reap(w) PROVE BirthInv'
  BY <1>8 DEF GraceIsOver, Reap, Reaped, BirthInv
<1>9. ASSUME NEW w \in Worker, Thread(w) PROVE BirthInv'
  <2>1. /\ UNCHANGED <<page, registry, leaving, stopping, given>>
        /\ thread[w] \notin {"none", "dead"} /\ thread'[w] # "none"
        /\ \A v \in Worker \ {w} : thread'[v] = thread[v] /\ hand'[v] = hand[v]
                                   /\ sent'[v] = sent[v]
    BY <1>9, ThreadLocal
  <2>2. hand'[w] # <<>> => thread'[w] = "poll"
    <3>1. CASE ScriptPosts(w) \/ ScriptBroadcasts(w)
      BY <3>1 DEF ScriptPosts, ScriptBroadcasts, BirthInv
    <3>2. CASE BootReturns(w) \/ PostReturns(w) \/ BroadcastReturns(w) \/ Closes(w) \/ Raises(w)
      <4>1. hand[w] = <<>> /\ hand'[w] = hand[w]
        BY <3>2 DEF BootReturns, PostReturns, BroadcastReturns, Closes, Raises, InScript, BirthInv
      <4> QED
        BY <4>1
    <3>3. CASE Ends(w)
      <4>1. hand[w] = <<>> /\ hand'[w] = hand[w]
        BY <3>3 DEF Ends, BirthInv
      <4> QED
        BY <4>1
    <3>4. CASE Pull(w)
      BY <3>4 DEF Pull
    <3>5. CASE Take(w) \/ Leaves(w)
      BY <3>5 DEF Take, Taken, Leaves
    <3> QED
      BY <1>9, <3>1, <3>2, <3>3, <3>4, <3>5 DEF Thread
  <2>3. \A v \in Worker \ {w} : hand'[v] # <<>> => thread'[v] = "poll"
    BY <2>1 DEF BirthInv
  <2>4. page[w] # "new"
    BY <2>1 DEF BirthInv
  <2> QED
    BY <2>1, <2>2, <2>3, <2>4 DEF BirthInv
<1> QED
  BY <1>1, <1>2, <1>3, <1>4, <1>5, <1>6, <1>7, <1>8, <1>9 DEF Next, Main

LEMMA InFinite ==
    ASSUME NEW s
    PROVE  IsFiniteSet(In(s)) /\ Cardinality(In(s)) \in Nat
BY WorkersAssumption, FS_Subset, FS_CardinalityType DEF In

(* What the threads say they hold: the counts are of these, and each thread  *)
(* holds what its state asks for.                                            *)
Holding(what) == {w \in Worker : what \in holds[w]}

HoldsOf(w) ==
    /\ thread[w] = "boot" => holds[w] = {"init"}
    /\ thread[w] = "post" => holds[w] = {"busy"}
    /\ thread[w] = "ends" => holds[w] # {"init", "busy"}
    /\ thread[w] \in {"none", "poll", "broadcast", "dead"} => holds[w] = {}

WorkInv ==
    /\ initializing = Cardinality(Holding("init")) /\ busy = Cardinality(Holding("busy"))
    /\ \A w \in Worker : HoldsOf(w)

LEMMA HoldingFinite ==
    ASSUME NEW what
    PROVE  IsFiniteSet(Holding(what)) /\ Cardinality(Holding(what)) \in Nat
BY WorkersAssumption, FS_Subset, FS_CardinalityType DEF Holding

One(b) == IF b THEN 1 ELSE 0

(* One thread changes what it holds.                                         *)
LEMMA HoldingMoves ==
    ASSUME NEW w \in Worker, \A v \in Worker \ {w} : holds'[v] = holds[v], NEW what
    PROVE  Cardinality(Holding(what)') =
               Cardinality(Holding(what)) + One(what \in holds'[w]) - One(what \in holds[w])
<1>1. IsFiniteSet(Holding(what)) /\ Cardinality(Holding(what)) \in Nat
  BY HoldingFinite
<1>2. CASE what \in holds'[w]
  <2>1. Holding(what)' = Holding(what) \cup {w}
    BY <1>2 DEF Holding
  <2>2. Cardinality(Holding(what) \cup {w}) =
            IF w \in Holding(what) THEN Cardinality(Holding(what))
                                   ELSE Cardinality(Holding(what)) + 1
    BY <1>1, FS_AddElement
  <2>3. w \in Holding(what) <=> what \in holds[w]
    BY DEF Holding
  <2> QED
    BY <1>1, <1>2, <2>1, <2>2, <2>3 DEF One
<1>3. CASE what \notin holds'[w]
  <2>1. Holding(what)' = Holding(what) \ {w}
    BY <1>3 DEF Holding
  <2>2. Cardinality(Holding(what) \ {w}) =
            IF w \in Holding(what) THEN Cardinality(Holding(what)) - 1
                                   ELSE Cardinality(Holding(what))
    BY <1>1, FS_RemoveElement
  <2>3. w \in Holding(what) <=> what \in holds[w]
    BY DEF Holding
  <2> QED
    BY <1>1, <1>3, <2>1, <2>2, <2>3 DEF One
<1> QED
  BY <1>2, <1>3

LEMMA WorkInit == Init => WorkInv
<1> SUFFICES ASSUME Init PROVE WorkInv
  OBVIOUS
<1>1. Holding("init") = {} /\ Holding("busy") = {}
  BY DEF Init, Holding
<1> QED
  BY <1>1, FS_EmptySet DEF Init, WorkInv, HoldsOf

(* A thread moves, and its counts with what it holds.                        *)
LEMMA WorkMoves ==
    ASSUME WorkInv, NEW w \in Worker, HoldsOf(w)',
           \A v \in Worker \ {w} : holds'[v] = holds[v] /\ thread'[v] = thread[v],
           initializing' = initializing + One("init" \in holds'[w]) - One("init" \in holds[w]),
           busy' = busy + One("busy" \in holds'[w]) - One("busy" \in holds[w])
    PROVE  WorkInv'
<1>1. \A v \in Worker : HoldsOf(v)'
  <2> SUFFICES ASSUME NEW v \in Worker \ {w} PROVE HoldsOf(v)'
    OBVIOUS
  <2>1. HoldsOf(v) /\ holds'[v] = holds[v] /\ thread'[v] = thread[v]
    BY DEF WorkInv
  <2> QED
    BY <2>1 DEF HoldsOf
<1>2. initializing' = Cardinality(Holding("init")')
  <2>1. Cardinality(Holding("init")') = Cardinality(Holding("init"))
                                + One("init" \in holds'[w]) - One("init" \in holds[w])
    BY HoldingMoves
  <2> QED
    BY <2>1 DEF WorkInv
<1>3. busy' = Cardinality(Holding("busy")')
  <2>1. Cardinality(Holding("busy")') = Cardinality(Holding("busy"))
                                + One("busy" \in holds'[w]) - One("busy" \in holds[w])
    BY HoldingMoves
  <2> QED
    BY <2>1 DEF WorkInv
<1> QED
  BY <1>1, <1>2, <1>3 DEF WorkInv

LEMMA WorkThread == ASSUME Typed, BirthInv, WorkInv, NEW w \in Worker, Thread(w) PROVE WorkInv'
<1> USE DEF counterVars, threadVars, mainVars, historyVars, mainThreadVars
<1>1. \A v \in Worker \ {w} : holds'[v] = holds[v] /\ thread'[v] = thread[v]
  BY ThreadLocal
<1>2. HoldsOf(w) /\ initializing \in Nat /\ busy \in Nat /\ holds[w] \subseteq {"init", "busy"}
  BY HoldingFinite DEF WorkInv, Typed
<1>3. \A states : Goes(w, states) => thread'[w] \in states
  BY DEF Goes, Typed
<1>4. CASE ScriptPosts(w) \/ ScriptBroadcasts(w)
  BY <1>4 DEF ScriptPosts, ScriptBroadcasts, WorkInv, HoldsOf, Holding
<1>5. CASE BootReturns(w)
  <2>1. thread[w] = "boot" /\ thread'[w] \in {"poll", "ends"} /\ busy' = busy
        /\ initializing' = initializing - 1 /\ holds'[w] = holds[w] \ {"init"}
    BY <1>3, <1>5 DEF BootReturns, Afterwards, Typed
  <2>2. holds[w] = {"init"} /\ holds'[w] = {}
    BY <1>2, <2>1 DEF HoldsOf
  <2>3. HoldsOf(w)'
    BY <2>1, <2>2 DEF HoldsOf
  <2>4. /\ initializing' = initializing + One("init" \in holds'[w]) - One("init" \in holds[w])
        /\ busy' = busy + One("busy" \in holds'[w]) - One("busy" \in holds[w])
    BY <1>2, <2>1, <2>2 DEF One
  <2> QED
    BY <1>1, <2>3, <2>4, WorkMoves
<1>6. CASE PostReturns(w)
  <2>1. thread[w] = "post" /\ thread'[w] \in {"poll", "ends"} /\ initializing' = initializing
        /\ busy' = busy - 1 /\ holds'[w] = holds[w] \ {"busy"}
    BY <1>3, <1>6 DEF PostReturns, Afterwards, Typed
  <2>2. holds[w] = {"busy"} /\ holds'[w] = {}
    BY <1>2, <2>1 DEF HoldsOf
  <2>3. HoldsOf(w)'
    BY <2>1, <2>2 DEF HoldsOf
  <2>4. /\ initializing' = initializing + One("init" \in holds'[w]) - One("init" \in holds[w])
        /\ busy' = busy + One("busy" \in holds'[w]) - One("busy" \in holds[w])
    BY <1>2, <2>1, <2>2 DEF One
  <2> QED
    BY <1>1, <2>3, <2>4, WorkMoves
<1>7. CASE BroadcastReturns(w) \/ Closes(w) \/ Pull(w)
  <2>1. /\ thread[w] \in {"poll", "broadcast"} /\ thread'[w] \in {"poll", "ends"}
        /\ UNCHANGED <<holds, initializing, busy>>
    BY <1>3, <1>7 DEF BroadcastReturns, Closes, Pull, Afterwards
  <2>2. holds[w] = {} /\ holds'[w] = {}
    BY <1>2, <2>1 DEF HoldsOf
  <2>3. HoldsOf(w)'
    BY <2>1, <2>2 DEF HoldsOf
  <2>4. /\ initializing' = initializing + One("init" \in holds'[w]) - One("init" \in holds[w])
        /\ busy' = busy + One("busy" \in holds'[w]) - One("busy" \in holds[w])
    BY <1>2, <2>1, <2>2 DEF One
  <2> QED
    BY <1>1, <2>3, <2>4, WorkMoves
<1>8. CASE Take(w)
  <2> DEFINE kind == Head(hand[w]).kind
  <2>1. kind \in {"post", "broadcast", "terminate"}
    <3>1. Head(hand[w]) \in Letters
      BY <1>8, HeadTailProperties DEF Take, Taken, Typed
    <3> QED
      BY <3>1 DEF Letters
  <2>2. /\ kind # "terminate" /\ thread'[w] = kind /\ thread[w] = "poll"
        /\ initializing' = initializing
        /\ IF kind = "post" THEN busy' = busy + 1 /\ holds'[w] = holds[w] \cup {"busy"}
                            ELSE UNCHANGED <<busy, holds>>
    BY <1>3, <1>8 DEF Take, Taken, Typed, BirthInv
  <2> HIDE DEF kind
  <2>3. holds[w] = {}
    BY <1>2, <2>2 DEF HoldsOf
  <2>4. CASE kind = "post"
    <3>1. holds'[w] = {"busy"} /\ busy' = busy + 1 /\ initializing' = initializing
      BY <2>2, <2>3, <2>4
    <3>2. HoldsOf(w)'
      BY <2>2, <2>4, <3>1 DEF HoldsOf
    <3>3. /\ initializing' = initializing + One("init" \in holds'[w]) - One("init" \in holds[w])
          /\ busy' = busy + One("busy" \in holds'[w]) - One("busy" \in holds[w])
      BY <1>2, <2>3, <3>1 DEF One
    <3> QED
      BY <1>1, <3>2, <3>3, WorkMoves
  <2>5. CASE kind = "broadcast"
    <3>1. holds'[w] = {} /\ busy' = busy /\ initializing' = initializing
      BY <2>2, <2>3, <2>5
    <3>2. HoldsOf(w)'
      BY <2>2, <2>5, <3>1 DEF HoldsOf
    <3>3. /\ initializing' = initializing + One("init" \in holds'[w]) - One("init" \in holds[w])
          /\ busy' = busy + One("busy" \in holds'[w]) - One("busy" \in holds[w])
      BY <1>2, <2>3, <3>1 DEF One
    <3> QED
      BY <1>1, <3>2, <3>3, WorkMoves
  <2> QED
    BY <2>1, <2>2, <2>4, <2>5
<1>9. CASE Leaves(w) \/ Raises(w)
  <2>1. /\ thread[w] \in {"boot", "post", "poll", "broadcast"} /\ thread'[w] = "ends"
        /\ UNCHANGED <<holds, initializing, busy>>
    BY <1>3, <1>9 DEF Leaves, Raises, InScript, Typed, Threads
  <2>2. holds'[w] = holds[w] /\ holds[w] # {"init", "busy"}
    BY <1>2, <2>1 DEF HoldsOf
  <2>3. HoldsOf(w)'
    BY <2>1, <2>2 DEF HoldsOf
  <2>4. /\ initializing' = initializing + One("init" \in holds'[w]) - One("init" \in holds[w])
        /\ busy' = busy + One("busy" \in holds'[w]) - One("busy" \in holds[w])
    BY <1>2, <2>1, <2>2 DEF One
  <2> QED
    BY <1>1, <2>3, <2>4, WorkMoves
<1>10. CASE Ends(w)
  <2>1. /\ thread'[w] = "dead" /\ holds'[w] = {}
        /\ busy' = IF "busy" \in holds[w] THEN busy - 1 ELSE busy
        /\ initializing' = IF "init" \in holds[w] THEN initializing - 1 ELSE initializing
    BY <1>3, <1>10 DEF Ends, Typed
  <2>2. HoldsOf(w)'
    BY <2>1 DEF HoldsOf
  <2>3. busy' = busy + One("busy" \in holds'[w]) - One("busy" \in holds[w])
    BY <1>2, <2>1 DEF One
  <2>4. initializing' = initializing + One("init" \in holds'[w]) - One("init" \in holds[w])
    BY <1>2, <2>1 DEF One
  <2> QED
    BY <1>1, <2>2, <2>3, <2>4, WorkMoves
<1> QED
  BY <1>4, <1>5, <1>6, <1>7, <1>8, <1>9, <1>10 DEF Thread

LEMMA WorkStep == Typed /\ BirthInv /\ WorkInv /\ [Next]_vars => WorkInv'
<1> SUFFICES ASSUME Typed, BirthInv, WorkInv, [Next]_vars PROVE WorkInv'
  OBVIOUS
<1> USE DEF counterVars, threadVars, mainVars, historyVars
<1>1. ASSUME UNCHANGED threadVars PROVE WorkInv'
  BY <1>1 DEF WorkInv, HoldsOf, Holding
<1>2. ASSUME NEW w \in Worker, Spawn(w) PROVE WorkInv'
  <2>1. /\ thread'[w] = "boot" /\ thread[w] = "none" /\ holds'[w] = {"init"}
        /\ \A v \in Worker \ {w} : holds'[v] = holds[v] /\ thread'[v] = thread[v]
        /\ initializing' = initializing + 1 /\ busy' = busy
    BY <1>2 DEF Spawn, Typed, BirthInv
  <2>2. holds[w] = {} /\ initializing \in Nat /\ busy \in Nat
    BY <2>1, HoldingFinite DEF WorkInv, HoldsOf
  <2>3. HoldsOf(w)'
    BY <2>1 DEF HoldsOf
  <2>4. /\ initializing' = initializing + One("init" \in holds'[w]) - One("init" \in holds[w])
        /\ busy' = busy + One("busy" \in holds'[w]) - One("busy" \in holds[w])
    BY <2>1, <2>2 DEF One
  <2> QED
    BY <2>1, <2>3, <2>4, WorkMoves
<1>3. CASE \/ UNCHANGED vars \/ PageBroadcasts \/ FrameGone \/ Navigate \/ ResetBegins
           \/ Deliver \/ DeliverOne \/ DeliveryEnds \/ ResetEnds \/ Park
  BY <1>1, <1>3 DEF vars, PageBroadcasts, FrameGone, Navigate, ResetBegins, Deliver, Drained,
                    DeliverOne, DeliveryEnds, ResetEnds, Park
<1>4. ASSUME NEW w \in Worker, \/ SpawnFails(w) \/ PostMessage(w) \/ Terminate(w)
                               \/ GraceIsOver(w) \/ Reap(w)
      PROVE  WorkInv'
  BY <1>1, <1>4 DEF SpawnFails, PostMessage, Terminate, GraceIsOver, Reap, Reaped
<1> QED
  BY <1>2, <1>3, <1>4, WorkThread DEF Next, Page, Main

(* Beyond the threads at work, only those in their `ensure` are counted, and *)
(* none of them twice.                                                       *)
LEMMA WorkInvCounts == Typed /\ WorkInv => WorkCounted
<1> SUFFICES ASSUME Typed, WorkInv PROVE WorkCounted
  OBVIOUS
<1> DEFINE B == In("boot")  P == In("post")  E == In("ends")
           I == Holding("init")  H == Holding("busy")
<1>1. /\ IsFiniteSet(B) /\ Cardinality(B) \in Nat /\ IsFiniteSet(P) /\ Cardinality(P) \in Nat
      /\ IsFiniteSet(E) /\ Cardinality(E) \in Nat
  BY InFinite
<1>2. /\ IsFiniteSet(I) /\ Cardinality(I) \in Nat /\ IsFiniteSet(H) /\ Cardinality(H) \in Nat
  BY HoldingFinite
<1>3. /\ B \subseteq I /\ P \subseteq H
      /\ (I \ B) \cup (H \ P) \subseteq E /\ (I \ B) \cap (H \ P) = {}
  <2>1. \A w \in Worker : HoldsOf(w) /\ thread[w] \in Threads /\ holds[w] \subseteq {"init", "busy"}
    BY DEF WorkInv, Typed
  <2>2. B \subseteq I /\ P \subseteq H
    BY <2>1 DEF In, Holding, HoldsOf
  <2>3. \A w \in I : thread[w] \in {"boot", "ends"}
    BY <2>1 DEF Holding, HoldsOf, Threads
  <2>4. \A w \in H : thread[w] \in {"post", "ends"}
    BY <2>1 DEF Holding, HoldsOf, Threads
  <2>5. I \ B \subseteq E /\ H \ P \subseteq E
    BY <2>3, <2>4 DEF In, Holding
  <2>6. \A w \in E : ~(w \in I /\ w \in H)
    BY <2>1 DEF In, Holding, HoldsOf
  <2> QED
    BY <2>2, <2>5, <2>6
<1> HIDE DEF B, P, E, I, H
<1>4. Cardinality(B) <= Cardinality(I) /\ Cardinality(I \ B) = Cardinality(I) - Cardinality(B)
  <2>1. I \cap B = B /\ B \subseteq I
    BY <1>3
  <2>2. Cardinality(B) <= Cardinality(I)
    BY <1>2, <2>1, FS_Subset
  <2>3. Cardinality(I \ B) = Cardinality(I) - Cardinality(I \cap B)
    BY <1>2, FS_Difference
  <2> QED
    BY <2>1, <2>2, <2>3
<1>5. Cardinality(P) <= Cardinality(H) /\ Cardinality(H \ P) = Cardinality(H) - Cardinality(P)
  <2>1. H \cap P = P /\ P \subseteq H
    BY <1>3
  <2>2. Cardinality(P) <= Cardinality(H)
    BY <1>2, <2>1, FS_Subset
  <2>3. Cardinality(H \ P) = Cardinality(H) - Cardinality(H \cap P)
    BY <1>2, FS_Difference
  <2> QED
    BY <2>1, <2>2, <2>3
<1>6. Cardinality(I \ B) + Cardinality(H \ P) <= Cardinality(E)
  <2>1. IsFiniteSet(I \ B) /\ IsFiniteSet(H \ P)
    BY <1>2, FS_Difference
  <2>2. Cardinality((I \ B) \cup (H \ P)) =
            Cardinality(I \ B) + Cardinality(H \ P) - Cardinality((I \ B) \cap (H \ P))
    BY <2>1, FS_Union
  <2>3. Cardinality((I \ B) \cap (H \ P)) = 0
    BY <1>3, FS_EmptySet
  <2>4. Cardinality((I \ B) \cup (H \ P)) <= Cardinality(E)
    BY <1>1, <1>3, FS_Subset
  <2>5. Cardinality(I \ B) \in Nat /\ Cardinality(H \ P) \in Nat
    BY <2>1, FS_CardinalityType
  <2> QED
    BY <2>2, <2>3, <2>4, <2>5
<1>7. /\ initializing = Cardinality(I) /\ busy = Cardinality(H)
      /\ Booting = Cardinality(B) /\ Handling = Cardinality(P)
  BY DEF WorkInv, Booting, Handling, I, H, B, P
<1>8. initializing + busy <= Booting + Handling + Cardinality(E)
  BY <1>1, <1>2, <1>4, <1>5, <1>6, <1>7
<1>9. initializing >= Booting /\ busy >= Handling
  BY <1>1, <1>2, <1>4, <1>5, <1>7
<1> QED
  BY <1>8, <1>9 DEF WorkCounted, E

LifeInv == Typed /\ ModeInv /\ BirthInv /\ WorkInv

LEMMA LifeAlways == Spec => []LifeInv
<1>1. Init => LifeInv
  BY InitTyped, ModeInit, BirthInit, WorkInit DEF LifeInv
<1>2. LifeInv /\ [Next]_vars => LifeInv'
  BY TypedStep, ModeStep, BirthStep, WorkStep DEF LifeInv
<1> QED
  BY <1>1, <1>2, PTL DEF Spec

(* Every variable keeps its type: no count ever goes below zero, whatever is *)
(* released twice (deliver_worker_messages, reap_worker).                    *)
THEOREM TypeCorrect == Spec => []TypeOK
<1>1. LifeInv => TypeOK
  <2> SUFFICES ASSUME LifeInv PROVE TypeOK
    OBVIOUS
  <2>1. Typed /\ initializing \in Nat /\ busy \in Nat
    BY HoldingFinite DEF LifeInv, WorkInv
  <2>2. inbox \in [Worker -> Seq(Events)]
    <3>1. \A w \in Worker : inbox[w] \in Seq(Events)
      BY <2>1, LettersAreEvents, SeqMonotonic DEF Typed
    <3> QED
      BY <2>1, <3>1 DEF Typed
  <2>3. hand \in [Worker -> Seq(Events)]
    <3>1. \A w \in Worker : hand[w] \in Seq(Events)
      BY <2>1, LettersAreEvents, SeqMonotonic DEF Typed
    <3> QED
      BY <2>1, <3>1 DEF Typed
  <2> QED
    BY <2>1, <2>2, <2>3 DEF Typed, TypeOK, Threads
<1> QED
  BY <1>1, LifeAlways, PTL

(* worker_pending? counts every thread that boots or handles a post, and     *)
(* beyond those at most once each thread that has still to run its `ensure`, *)
(* on whichever path they leave (@worker_initializing, @worker_busy).        *)
THEOREM WorkAlwaysCounted == Spec => []WorkCounted
<1>1. LifeInv => WorkCounted
  BY WorkInvCounts DEF LifeInv
<1> QED
  BY <1>1, LifeAlways, PTL

-----------------------------------------------------------------------------
(* Numbered messages on their way.                                           *)

(* The places P of q hold the messages from + 1 .. to, in this order.        *)
Numbered(q, P, from, to) ==
    /\ from <= to
    /\ \A i \in P : q[i].n \in from + 1 .. to
    /\ \A i, j \in P : i < j => q[i].n < q[j].n
    /\ \A k \in from + 1 .. to : \E i \in P : q[i].n = k

(* r at Q is q at P, moved by d. *)
Moved(q, P, r, Q, d) ==
    /\ \A i \in P : i + d \in Q /\ r[i + d].n = q[i].n
    /\ \A i \in Q : i - d \in P

LEMMA NumberedMoved ==
    ASSUME NEW q, NEW r, NEW P \in SUBSET Int, NEW Q \in SUBSET Int, NEW d \in Int,
           NEW from \in Nat, NEW to \in Nat, Numbered(q, P, from, to), Moved(q, P, r, Q, d)
    PROVE  Numbered(r, Q, from, to)
<1>1. \A i \in Q : i - d \in P /\ i - d + d = i
  BY DEF Moved
<1>2. \A i \in Q : r[i].n = q[i - d].n
  BY <1>1 DEF Moved
<1>3. \A i \in Q : r[i].n \in from + 1 .. to
  BY <1>1, <1>2 DEF Numbered
<1>4. \A i, j \in Q : i < j => r[i].n < r[j].n
  <2> SUFFICES ASSUME NEW i \in Q, NEW j \in Q, i < j PROVE r[i].n < r[j].n
    OBVIOUS
  <2>1. i - d < j - d
    OBVIOUS
  <2> QED
    BY <1>1, <1>2, <2>1 DEF Numbered
<1>5. \A k \in from + 1 .. to : \E i \in Q : r[i].n = k
  <2> SUFFICES ASSUME NEW k \in from + 1 .. to PROVE \E i \in Q : r[i].n = k
    OBVIOUS
  <2>1. PICK i \in P : q[i].n = k
    BY DEF Numbered
  <2> QED
    BY <2>1 DEF Moved
<1> QED
  BY <1>3, <1>4, <1>5 DEF Numbered

(* One more message at the end. *)
LEMMA NumberedMore ==
    ASSUME NEW q, NEW r, NEW P \in SUBSET Int, NEW l \in Int,
           NEW from \in Nat, NEW to \in Nat, Numbered(q, P, from, to),
           \A i \in P : i < l /\ r[i].n = q[i].n, r[l].n = to + 1
    PROVE  Numbered(r, P \cup {l}, from, to + 1)
<1>1. from <= to + 1
  BY DEF Numbered
<1>2. \A i \in P \cup {l} : r[i].n \in from + 1 .. to + 1
  BY DEF Numbered
<1>3. \A i, j \in P \cup {l} : i < j => r[i].n < r[j].n
  <2> SUFFICES ASSUME NEW i \in P \cup {l}, NEW j \in P \cup {l}, i < j PROVE r[i].n < r[j].n
    OBVIOUS
  <2>1. i \in P
    OBVIOUS
  <2>2. CASE j = l
    <3>1. r[i].n \in from + 1 .. to
      BY <2>1 DEF Numbered
    <3> QED
      BY <2>2, <3>1
  <2>3. CASE j \in P
    BY <2>1, <2>3 DEF Numbered
  <2> QED
    BY <2>2, <2>3
<1>4. \A k \in from + 1 .. to + 1 : \E i \in P \cup {l} : r[i].n = k
  <2> SUFFICES ASSUME NEW k \in from + 1 .. to + 1 PROVE \E i \in P \cup {l} : r[i].n = k
    OBVIOUS
  <2>1. CASE k = to + 1
    BY <2>1
  <2>2. CASE k \in from + 1 .. to
    <3>1. PICK i \in P : q[i].n = k
      BY <2>2 DEF Numbered
    <3> QED
      BY <3>1
  <2> QED
    BY <2>1, <2>2
<1> QED
  BY <1>1, <1>2, <1>3, <1>4 DEF Numbered

(* The first message is the next one, and is taken. *)
LEMMA NumberedTaken ==
    ASSUME NEW q, NEW P \in SUBSET Int, NEW m \in P, \A i \in P : i >= m,
           NEW from \in Nat, NEW to \in Nat, Numbered(q, P, from, to)
    PROVE  /\ q[m].n = from + 1 /\ from < to
           /\ Numbered(q, P \ {m}, from + 1, to)
<1>1. q[m].n \in from + 1 .. to
  BY DEF Numbered
<1>2. from < to
  BY <1>1
<1>3. PICK i \in P : q[i].n = from + 1
  BY <1>2 DEF Numbered
<1>4. i = m
  <2> SUFFICES ASSUME i # m PROVE FALSE
    OBVIOUS
  <2>1. m < i
    OBVIOUS
  <2>2. q[m].n < q[i].n
    BY <2>1 DEF Numbered
  <2> QED
    BY <1>1, <1>3, <2>2
<1>5. \A j \in P \ {m} : q[j].n \in from + 1 + 1 .. to
  <2> SUFFICES ASSUME NEW j \in P \ {m} PROVE q[j].n \in from + 1 + 1 .. to
    OBVIOUS
  <2>1. m < j
    OBVIOUS
  <2>2. q[m].n < q[j].n /\ q[j].n \in from + 1 .. to
    BY <2>1 DEF Numbered
  <2> QED
    BY <1>3, <1>4, <2>2
<1>6. \A k \in from + 1 + 1 .. to : \E j \in P \ {m} : q[j].n = k
  <2> SUFFICES ASSUME NEW k \in from + 1 + 1 .. to PROVE \E j \in P \ {m} : q[j].n = k
    OBVIOUS
  <2>1. PICK j \in P : q[j].n = k
    BY DEF Numbered
  <2>2. j # m
    BY <1>3, <1>4, <2>1
  <2> QED
    BY <2>1, <2>2
<1>7. from + 1 <= to /\ \A j, l \in P \ {m} : j < l => q[j].n < q[l].n
  BY <1>2 DEF Numbered
<1>8. Numbered(q, P \ {m}, from + 1, to)
  BY <1>5, <1>6, <1>7 DEF Numbered
<1> QED
  BY <1>2, <1>3, <1>4, <1>8

-----------------------------------------------------------------------------
(* The posts in an inbox.                                                    *)

LEMMA PlacesConcat ==
    ASSUME NEW S, NEW q \in Seq(S), NEW r \in Seq(S), NEW kinds
    PROVE  /\ Places(q \o r, kinds) \subseteq 1 .. Len(q) + Len(r)
           /\ \A i \in 1 .. Len(q) :
                 /\ i \in Places(q \o r, kinds) <=> i \in Places(q, kinds)
                 /\ (q \o r)[i] = q[i]
           /\ \A i \in 1 .. Len(r) :
                 /\ i + Len(q) \in Places(q \o r, kinds) <=> i \in Places(r, kinds)
                 /\ (q \o r)[i + Len(q)] = r[i]
<1>1. /\ Len(q) \in Nat /\ Len(r) \in Nat /\ DOMAIN q = 1..Len(q) /\ DOMAIN r = 1..Len(r)
      /\ q \o r \in Seq(S) /\ Len(q \o r) = Len(q) + Len(r)
      /\ \A i \in 1 .. Len(q) + Len(r) :
            (q \o r)[i] = IF i <= Len(q) THEN q[i] ELSE r[i - Len(q)]
  BY ConcatProperties, LenProperties
<1>2. DOMAIN (q \o r) = 1 .. Len(q) + Len(r)
  BY <1>1, LenProperties
<1> DEFINE u == q \o r
<1>3. DOMAIN u = 1 .. Len(q) + Len(r)
      /\ \A i \in 1 .. Len(q) + Len(r) : u[i] = IF i <= Len(q) THEN q[i] ELSE r[i - Len(q)]
  BY <1>1, <1>2
<1> HIDE DEF u
<1>4. \A i \in 1..Len(q) : u[i] = q[i] /\ i \in DOMAIN u
  BY <1>1, <1>3
<1>5. \A i \in 1..Len(r) : u[i + Len(q)] = r[i] /\ i + Len(q) \in DOMAIN u
  <2> SUFFICES ASSUME NEW i \in 1..Len(r) PROVE u[i + Len(q)] = r[i] /\ i + Len(q) \in DOMAIN u
    OBVIOUS
  <2>1. i + Len(q) \in 1 .. Len(q) + Len(r) /\ ~(i + Len(q) <= Len(q)) /\ i + Len(q) - Len(q) = i
    BY <1>1
  <2> QED
    BY <1>3, <2>1
<1>6. Places(u, kinds) \subseteq 1 .. Len(q) + Len(r)
  BY <1>3 DEF Places
<1>7. \A i \in 1..Len(q) : i \in Places(u, kinds) <=> i \in Places(q, kinds)
  BY <1>1, <1>4 DEF Places
<1>8. \A i \in 1..Len(r) : i + Len(q) \in Places(u, kinds) <=> i \in Places(r, kinds)
  BY <1>1, <1>5 DEF Places
<1> QED
  BY <1>4, <1>5, <1>6, <1>7, <1>8 DEF u

Mail(w) == Places(inbox[w], {"post"})

(* Its thread reads the inbox, or will.                                      *)
Reads(w) == w \in registry \cup leaving /\ thread[w] \notin {"ends", "dead"}

HasPost(w) == hand[w] # <<>> /\ Head(hand[w]).kind = "post"

(* The number of the last post it has popped.                                *)
Popped(w) == IF HasPost(w) THEN handled[w] + 1 ELSE handled[w]

(* What is posted to a worker that is there and not yet handled is in its    *)
(* thread's hand or in its inbox, once and in order.                         *)
MailOf(w) ==
    /\ page[w] = "new" => inbox[w] = <<>> /\ hand[w] = <<>> /\ posted[w] = 0 /\ handled[w] = 0
    /\ Reads(w) => /\ Numbered(inbox[w], Mail(w), Popped(w), posted[w])
                   /\ HasPost(w) => Head(hand[w]).n = handled[w] + 1
MailInv == \A w \in Worker : MailOf(w)

LEMMA MailInit == Init => MailInv
BY DEF Init, MailInv, MailOf, Reads

LEMMA MailNat ==
    ASSUME Typed, NEW w \in Worker
    PROVE  Mail(w) \in SUBSET Int /\ Mail(w) \subseteq 1..Len(inbox[w]) /\ Len(inbox[w]) \in Nat
<1>1. inbox[w] \in Seq(Letters)
  BY DEF Typed
<1> QED
  BY <1>1, PlacesFinite, LenProperties DEF Mail

(* Letters that are no posts come in at the end: broadcasts, terminate.      *)
LEMMA MailFrame ==
    ASSUME Typed, NEW w \in Worker, MailOf(w), NEW r \in Seq(Letters),
           Places(r, {"post"}) = {}, inbox'[w] = inbox[w] \o r,
           posted'[w] = posted[w], handled'[w] = handled[w], hand'[w] = hand[w],
           page'[w] = "new" => page[w] = "new" /\ r = <<>>, Reads(w)' => Reads(w)
    PROVE  MailOf(w)'
<1>1. /\ inbox[w] \in Seq(Letters) /\ posted[w] \in Nat /\ handled[w] \in Nat
      /\ Popped(w) \in Nat
  BY DEF Typed, Popped
<1> DEFINE q == inbox[w]  u == q \o r  P == Places(q, {"post"})  Q == Places(u, {"post"})
<1>2. /\ Q \subseteq 1 .. Len(q) + Len(r)
      /\ \A i \in 1 .. Len(q) : (i \in Q <=> i \in P) /\ u[i] = q[i]
      /\ \A i \in 1 .. Len(r) : i + Len(q) \notin Q
  BY <1>1, PlacesConcat
<1>3. Len(q) \in Nat /\ Len(r) \in Nat /\ P \subseteq 1..Len(q)
  BY <1>1, LenProperties, PlacesFinite
<1> HIDE DEF q, u, P, Q
<1>4. Q = P
  <2>1. \A i \in Q : i \in 1..Len(q)
    <3> SUFFICES ASSUME NEW i \in Q, i \notin 1..Len(q) PROVE FALSE
      OBVIOUS
    <3>1. i \in Int /\ i - Len(q) \in 1..Len(r) /\ i - Len(q) + Len(q) = i
      BY <1>2, <1>3
    <3> QED
      BY <1>2, <3>1
  <2> QED
    BY <1>2, <1>3, <2>1
<1>5. Moved(q, P, u, Q, 0)
  BY <1>2, <1>3, <1>4 DEF Moved
<1>6. P \in SUBSET Int /\ Q \in SUBSET Int
  BY <1>3, <1>4
<1>7. Numbered(q, P, Popped(w), posted[w]) => Numbered(u, Q, Popped(w), posted[w])
  BY <1>1, <1>5, <1>6, NumberedMoved
<1>8. Mail(w) = P /\ Mail(w)' = Q /\ inbox'[w] = u
  BY DEF Mail, P, Q, q, u
<1>9. page[w] = "new" => q = <<>> /\ hand[w] = <<>> /\ posted[w] = 0 /\ handled[w] = 0
  BY DEF MailOf, q
<1>10. page'[w] = "new" => inbox'[w] = <<>>
  <2> SUFFICES ASSUME page'[w] = "new" PROVE inbox'[w] = <<>>
    OBVIOUS
  <2>1. q = <<>> /\ r = <<>>
    BY <1>9
  <2> QED
    BY <2>1, ConcatEmptySeq, EmptySeq DEF u, q
<1>11. Popped(w)' = Popped(w) /\ HasPost(w)' = HasPost(w)
  BY DEF Popped, HasPost
<1> QED
  BY <1>7, <1>8, <1>9, <1>10, <1>11 DEF MailOf, q

(* Nothing comes in. *)
LEMMA MailStays ==
    ASSUME Typed, NEW w \in Worker, MailOf(w), inbox'[w] = inbox[w],
           posted'[w] = posted[w], handled'[w] = handled[w], hand'[w] = hand[w],
           page'[w] = "new" => page[w] = "new", Reads(w)' => Reads(w)
    PROVE  MailOf(w)'
<1>1. Popped(w)' = Popped(w) /\ HasPost(w)' = HasPost(w) /\ Mail(w)' = Mail(w)
  BY DEF Popped, HasPost, Mail
<1> QED
  BY <1>1 DEF MailOf

LEMMA TerminatingIsNoPost ==
    ASSUME NEW w \in Worker
    PROVE  /\ <<Event(w, "terminate", 0)>> \in Seq(Letters)
           /\ Places(<<Event(w, "terminate", 0)>>, {"post"}) = {}
<1> DEFINE e == Event(w, "terminate", 0)
<1>1. e \in Letters /\ e.kind # "post"
  BY EventType DEF Event
<1> HIDE DEF e
<1>2. <<e>> \in Seq(Letters) /\ DOMAIN <<e>> = 1..1 /\ <<e>>[1] = e
  BY <1>1
<1>3. Places(<<e>>, {"post"}) = {}
  BY <1>1, <1>2 DEF Places
<1> QED
  BY <1>2, <1>3 DEF e

LEMMA BroadcastsAreNoPosts ==
    ASSUME NEW w \in Worker, NEW n \in Nat
    PROVE  /\ [i \in 1..n |-> Event(w, "broadcast", 0)] \in Seq(Letters)
           /\ Places([i \in 1..n |-> Event(w, "broadcast", 0)], {"post"}) = {}
<1>1. [i \in 1..n |-> Event(w, "broadcast", 0)] \in Seq(Letters)
  BY EventType, SameEvents
<1>2. \A i \in 1..n : [j \in 1..n |-> Event(w, "broadcast", 0)][i].kind # "post"
  BY DEF Event
<1>3. DOMAIN [i \in 1..n |-> Event(w, "broadcast", 0)] = 1..n
  OBVIOUS
<1> QED
  BY <1>1, <1>2, <1>3 DEF Places

(* A message is popped: what was first in the inbox is in hand.              *)
LEMMA MailPulled ==
    ASSUME Typed, NEW v \in Worker, MailOf(v), page[v] # "new", v \in registry \cup leaving,
           UNCHANGED <<page, posted>>, Pull(v)
    PROVE  MailOf(v)'
<1> DEFINE q == inbox[v]  u == Tail(q)  msg == Head(q)
           P == Places(q, {"post"})  Q == Places(u, {"post"})
<1>0. inbox[v] \in Seq(Letters) /\ posted[v] \in Nat /\ handled[v] \in Nat
  BY DEF Typed
<1>1. /\ q # <<>> /\ inbox'[v] = u /\ thread[v] = "poll" /\ hand[v] = <<>>
      /\ hand'[v] = <<msg>> /\ handled' = handled
  BY DEF Pull, Typed
<1>2. q \in Seq(Letters) /\ Len(q) \in Nat /\ DOMAIN q = 1..Len(q) /\ P \subseteq 1..Len(q)
  BY <1>0, LenProperties, PlacesFinite
<1>3. Numbered(q, P, handled[v], posted[v])
  BY <1>1 DEF MailOf, Mail, Reads, Popped, HasPost
<1> HIDE DEF q
<1>4. /\ msg \in Letters /\ u \in Seq(Letters) /\ Len(u) = Len(q) - 1 /\ Len(q) > 0
      /\ msg = q[1] /\ \A i \in 1..Len(q) - 1 : u[i] = q[i + 1]
  BY <1>1, <1>2, HeadTailProperties, EmptySeq
<1>5. DOMAIN u = 1..Len(q) - 1
  BY <1>4, LenProperties
<1>6. Q = {i \in 1..Len(q) - 1 : i + 1 \in P}
  BY <1>2, <1>4, <1>5 DEF Places
<1>7. P \in SUBSET Int /\ Q \in SUBSET Int /\ \A i \in P : i >= 1
  BY <1>2, <1>6
<1>8. 1 \in P <=> msg.kind = "post"
  BY <1>2, <1>4 DEF Places
<1>9. \A i \in Q : u[i].n = q[i + 1].n
  BY <1>4, <1>6
<1>10. /\ Head(hand'[v]) = msg /\ hand'[v] # <<>> /\ Mail(v)' = Q
       /\ HasPost(v)' <=> msg.kind = "post"
  BY <1>1 DEF HasPost, Mail
<1> HIDE DEF P, Q, u, msg
<1>11. CASE msg.kind = "post"
  <2> DEFINE next == handled[v] + 1  R == P \ {1}
  <2>1. q[1].n = next /\ Numbered(q, R, next, posted[v])
    BY <1>0, <1>3, <1>7, <1>8, <1>11, NumberedTaken
  <2>2. Moved(q, R, u, Q, -1)
    <3>1. \A i \in P \ {1} : i + (-1) \in Q /\ i + (-1) + 1 = i
      BY <1>2, <1>6
    <3>2. \A i \in Q : i - (-1) \in P \ {1}
      BY <1>6
    <3> QED
      BY <1>9, <3>1, <3>2 DEF Moved
  <2>3. next \in Nat /\ R \in SUBSET Int
    BY <1>0, <1>7
  <2>4. Popped(v)' = next
    BY <1>1, <1>10, <1>11 DEF Popped
  <2> HIDE DEF next, R
  <2>5. Numbered(u, Q, next, posted[v])
    BY <1>0, <1>7, <2>1, <2>2, <2>3, NumberedMoved
  <2>6. Head(hand'[v]).n = handled'[v] + 1
    BY <1>1, <1>4, <1>10, <2>1 DEF next
  <2> QED
    BY <1>1, <1>10, <2>4, <2>5, <2>6 DEF MailOf
<1>12. CASE msg.kind # "post"
  <2>1. Moved(q, P, u, Q, -1)
    <3>1. \A i \in P : i + (-1) \in Q /\ i + (-1) + 1 = i
      BY <1>2, <1>6, <1>8, <1>12
    <3>2. \A i \in Q : i - (-1) \in P
      BY <1>6
    <3> QED
      BY <1>9, <3>1, <3>2 DEF Moved
  <2>2. Numbered(u, Q, handled[v], posted[v])
    BY <1>0, <1>3, <1>7, <2>1, NumberedMoved
  <2>3. Popped(v)' = handled[v] /\ ~HasPost(v)'
    BY <1>1, <1>10, <1>12 DEF Popped
  <2> QED
    BY <1>1, <1>10, <2>2, <2>3 DEF MailOf
<1> QED
  BY <1>11, <1>12

(* The message in hand is handled.                                           *)
LEMMA MailTaken ==
    ASSUME Typed, BirthInv, NEW v \in Worker, MailOf(v), page[v] # "new",
           v \in registry \cup leaving, UNCHANGED <<page, posted>>, Take(v)
    PROVE  MailOf(v)'
<1>1. /\ hand[v] # <<>> /\ hand'[v] = <<>> /\ inbox' = inbox
      /\ IF Head(hand[v]).kind = "post" THEN handled'[v] = Head(hand[v]).n
                                        ELSE handled'[v] = handled[v]
  BY DEF Take, Taken, Typed
<1>2. Reads(v)
  BY <1>1 DEF Reads, BirthInv
<1>3. ~HasPost(v)' /\ Popped(v)' = handled'[v] /\ Mail(v)' = Mail(v)
  BY <1>1 DEF HasPost, Popped, Mail
<1>4. handled'[v] = Popped(v)
  BY <1>1, <1>2 DEF Popped, HasPost, MailOf
<1> QED
  BY <1>1, <1>2, <1>3, <1>4 DEF MailOf

LEMMA MailStep == Typed /\ ModeInv /\ BirthInv /\ MailInv /\ [Next]_vars => MailInv'
<1> SUFFICES ASSUME Typed, ModeInv, BirthInv, MailInv, [Next]_vars, NEW v \in Worker
             PROVE  MailOf(v)'
  BY DEF MailInv
<1>0. MailOf(v) /\ inbox[v] \in Seq(Letters) /\ posted[v] \in Nat /\ handled[v] \in Nat
  BY DEF MailInv, Typed
<1> USE DEF counterVars, threadVars, mainVars, historyVars
<1>1. CASE UNCHANGED vars
  BY <1>0, <1>1, MailStays DEF vars, Reads
<1>2. ASSUME NEW w \in Worker, Spawn(w) PROVE MailOf(v)'
  <2>1. /\ UNCHANGED <<inbox, hand, posted, handled, leaving>> /\ page[w] = "new"
        /\ page' = [page EXCEPT ![w] = "open"] /\ thread' = [thread EXCEPT ![w] = "boot"]
        /\ registry' = registry \cup {w}
    BY <1>2 DEF Spawn
  <2>2. CASE v = w
    <3>1. inbox'[v] = <<>> /\ hand'[v] = <<>> /\ posted'[v] = 0 /\ handled'[v] = 0
          /\ page'[v] = "open"
      BY <1>0, <2>1, <2>2 DEF MailOf, Typed
    <3>2. Places(<<>>, {"post"}) = {}
      BY DEF Places
    <3>3. Numbered(<<>>, {}, 0, 0)
      BY DEF Numbered
    <3> QED
      BY <3>1, <3>2, <3>3 DEF MailOf, Mail, Popped, HasPost
  <2>3. CASE v # w
    BY <1>0, <2>1, <2>3, MailStays DEF Typed, Reads
  <2> QED
    BY <2>2, <2>3
<1>3. ASSUME NEW w \in Worker, SpawnFails(w) PROVE MailOf(v)'
  <2>1. /\ UNCHANGED <<inbox, hand, posted, handled, leaving, registry, thread>>
        /\ page'[v] = "new" => page[v] = "new"
    BY <1>3 DEF SpawnFails, Typed
  <2> QED
    BY <1>0, <2>1, MailStays DEF Reads
<1>4. ASSUME NEW w \in Worker, PostMessage(w) PROVE MailOf(v)'
  <2>1. /\ UNCHANGED <<page, registry, leaving, thread, hand, handled>> /\ page[w] = "open"
        /\ w \in registry /\ thread[w] # "dead"
        /\ posted' = [posted EXCEPT ![w] = @ + 1]
        /\ inbox' = [inbox EXCEPT ![w] = Append(@, Event(w, "post", posted[w] + 1))]
    BY <1>4 DEF PostMessage
  <2>2. CASE v # w
    BY <1>0, <2>1, <2>2, MailStays DEF Typed, Reads
  <2>3. CASE v = w
    <3> SUFFICES ASSUME Reads(v) PROVE MailOf(v)'
      BY <2>1, <2>3 DEF MailOf, Reads
    <3> DEFINE e == Event(v, "post", posted[v] + 1)  q == inbox[v]  u == Append(q, e)
               P == Places(q, {"post"})  Q == Places(u, {"post"})
    <3>1. e \in Letters /\ e.kind = "post" /\ e.n = posted[v] + 1
      <4>1. posted[v] + 1 \in Nat
        BY <1>0
      <4> QED
        BY <4>1, EventType DEF Event
    <3>2. q \in Seq(Letters) /\ Len(q) \in Nat /\ DOMAIN q = 1..Len(q) /\ P \subseteq 1..Len(q)
      BY <1>0, LenProperties, PlacesFinite
    <3> HIDE DEF e, q
    <3>3. u \in Seq(Letters) /\ Len(u) = Len(q) + 1
          /\ \A i \in 1..Len(q) : u[i] = q[i]
          /\ u[Len(q) + 1] = e
      BY <3>1, <3>2, AppendProperties
    <3>4. DOMAIN u = 1..Len(q) + 1
      BY <3>3, LenProperties
    <3>5. Q = P \cup {Len(q) + 1}
      BY <3>1, <3>2, <3>3, <3>4 DEF Places
    <3>6. \A i \in P : i < Len(q) + 1 /\ u[i].n = q[i].n
      BY <3>2, <3>3
    <3>7. u[Len(q) + 1].n = posted[v] + 1
      BY <3>1, <3>3
    <3>8. P \in SUBSET Int
      BY <3>2
    <3>9. Numbered(q, P, Popped(v), posted[v]) /\ (HasPost(v) => Head(hand[v]).n = handled[v] + 1)
      BY <1>0, <2>1, <2>3 DEF MailOf, Mail, q
    <3> HIDE DEF u, P, Q
    <3>10. Numbered(u, P \cup {Len(q) + 1}, Popped(v), posted[v] + 1)
      <4>1. Len(q) + 1 \in Int /\ Popped(v) \in Nat /\ posted[v] \in Nat
        BY <1>0, <3>2 DEF Popped
      <4> QED
        BY <3>6, <3>7, <3>8, <3>9, <4>1, NumberedMore
    <3>11. inbox'[v] = u /\ posted'[v] = posted[v] + 1 /\ handled'[v] = handled[v]
           /\ page'[v] # "new"
      BY <1>0, <2>1, <2>3 DEF Typed, u, q, e
    <3>12. Mail(v)' = Q
      BY <3>11 DEF Mail, Q
    <3>13. Popped(v)' = Popped(v) /\ HasPost(v)' = HasPost(v) /\ hand'[v] = hand[v]
      BY <2>1 DEF Popped, HasPost
    <3> QED
      BY <3>5, <3>9, <3>10, <3>11, <3>12, <3>13 DEF MailOf
  <2> QED
    BY <2>2, <2>3
<1>5. CASE PageBroadcasts
  <2>1. /\ UNCHANGED <<page, registry, leaving, thread, hand, posted, handled>>
        /\ inbox'[v] = IF v \in Listeners({}) THEN Append(inbox[v], Event(v, "broadcast", 0))
                                              ELSE inbox[v]
    BY <1>5 DEF PageBroadcasts
  <2>2. CASE v \in Listeners({})
    <3> DEFINE e == Event(v, "broadcast", 0)
    <3>1. e \in Letters /\ e.kind # "post"
      BY EventType DEF Event
    <3> HIDE DEF e
    <3>2. <<e>> \in Seq(Letters) /\ DOMAIN <<e>> = 1..1 /\ <<e>>[1] = e
      BY <3>1
    <3>3. Places(<<e>>, {"post"}) = {}
      BY <3>1, <3>2 DEF Places
    <3>4. inbox'[v] = inbox[v] \o <<e>>
      BY <1>0, <2>1, <2>2, <3>1, AppendIsConcat DEF e
    <3>5. page[v] # "new"
      BY <2>2 DEF Listeners, BirthInv
    <3> QED
      BY <1>0, <2>1, <3>2, <3>3, <3>4, <3>5, MailFrame DEF Reads
  <2>3. CASE v \notin Listeners({})
    BY <1>0, <2>1, <2>3, MailStays DEF Reads
  <2> QED
    BY <2>2, <2>3
<1>6. ASSUME NEW w \in Worker, Terminate(w) PROVE MailOf(v)'
  <2>1. /\ UNCHANGED <<thread, hand, posted, handled>> /\ leaving = {}
        /\ leaving' = registry \cap {w} /\ registry' = registry \ {w}
        /\ page' = [page EXCEPT ![w] = "shut"]
        /\ inbox' = [inbox EXCEPT ![w] = IF w \in registry THEN Terminating(w) ELSE @]
    BY <1>6 DEF Terminate, ScriptRuns
  <2>2. page'[v] = "new" => page[v] = "new" /\ v # w
    BY <2>1 DEF Typed
  <2>3. Reads(v)' => Reads(v)
    BY <2>1 DEF Reads
  <2>4. CASE v = w /\ w \in registry
    <3>1. inbox'[v] = inbox[v] \o <<Event(v, "terminate", 0)>>
      BY <2>1, <2>4 DEF Typed, Terminating
    <3> QED
      BY <1>0, <2>1, <2>2, <2>3, <2>4, <3>1, TerminatingIsNoPost, MailFrame
  <2>5. CASE ~(v = w /\ w \in registry)
    <3>1. inbox'[v] = inbox[v]
      BY <2>1, <2>5 DEF Typed
    <3> QED
      BY <1>0, <2>1, <2>2, <2>3, <3>1, MailStays
  <2> QED
    BY <2>4, <2>5
<1>7. CASE FrameGone
  <2>1. /\ UNCHANGED <<thread, hand, posted, handled>> /\ leaving = {}
        /\ leaving' = registry \cap Framed /\ registry' = registry \ Framed
        /\ page'[v] = "new" => page[v] = "new"
        /\ inbox'[v] = IF v \in leaving' THEN Terminating(v) ELSE inbox[v]
    BY <1>7 DEF FrameGone, ScriptRuns
  <2>2. Reads(v)' => Reads(v)
    BY <2>1 DEF Reads
  <2>3. CASE v \in leaving'
    <3>1. inbox'[v] = inbox[v] \o <<Event(v, "terminate", 0)>> /\ page[v] # "new"
      BY <2>1, <2>3 DEF Terminating, BirthInv
    <3> QED
      BY <1>0, <2>1, <2>2, <3>1, TerminatingIsNoPost, MailFrame
  <2>4. CASE v \notin leaving'
    BY <1>0, <2>1, <2>2, <2>4, MailStays
  <2> QED
    BY <2>3, <2>4
<1>8. CASE Navigate
  <2>1. /\ UNCHANGED <<thread, hand, posted, handled, inbox, registry, leaving>>
        /\ page'[v] = "new" => page[v] = "new"
    BY <1>8 DEF Navigate
  <2> QED
    BY <1>0, <2>1, MailStays DEF Reads
<1>9. CASE ResetBegins
  <2>1. /\ UNCHANGED <<thread, hand, posted, handled, registry, leaving>>
        /\ page'[v] = "new" => page[v] = "new"
        /\ inbox'[v] = IF v \in registry THEN Terminating(v) ELSE inbox[v]
    BY <1>9 DEF ResetBegins
  <2>2. CASE v \in registry
    <3>1. inbox'[v] = inbox[v] \o <<Event(v, "terminate", 0)>> /\ page[v] # "new"
      BY <2>1, <2>2 DEF Terminating, BirthInv
    <3> QED
      BY <1>0, <2>1, <3>1, TerminatingIsNoPost, MailFrame DEF Reads
  <2>3. CASE v \notin registry
    BY <1>0, <2>1, <2>3, MailStays DEF Reads
  <2> QED
    BY <2>2, <2>3
<1>10. CASE Deliver
  <2> DEFINE Hears(w) == {i \in Places(head \o outbox, {"broadcast"}) :
                              w \in Listeners({(head \o outbox)[i].handle})}
             n == Cardinality(Hears(v))
  <2>1. /\ UNCHANGED <<page, registry, leaving, thread, hand, posted, handled>>
        /\ inbox'[v] = inbox[v] \o [i \in 1..n |-> Event(v, "broadcast", 0)]
    BY <1>10 DEF Deliver, Drained
  <2>2. n \in Nat
    <3>1. IsFiniteSet(Places(head \o outbox, {"broadcast"}))
      BY ConcatProperties, PlacesFinite DEF Typed
    <3> QED
      BY <3>1, FS_Subset, FS_CardinalityType
  <2>3. v \notin registry => n = 0
    <3>1. v \notin registry => Hears(v) = {}
      BY DEF Listeners
    <3> QED
      BY <3>1, FS_EmptySet
  <2> HIDE DEF n
  <2>4. page[v] = "new" => n = 0
    BY <2>3 DEF BirthInv
  <2>5. n = 0 => [i \in 1..n |-> Event(v, "broadcast", 0)] = <<>>
    OBVIOUS
  <2> QED
    BY <1>0, <2>1, <2>2, <2>4, <2>5, BroadcastsAreNoPosts, MailFrame DEF Reads
<1>11. CASE DeliverOne \/ DeliveryEnds \/ ResetEnds \/ Park
  <2>1. /\ UNCHANGED <<inbox, hand, posted, handled, page, thread, leaving>>
        /\ registry' \subseteq registry
    BY <1>11 DEF DeliverOne, DeliveryEnds, ResetEnds, Park
  <2> QED
    BY <1>0, <2>1, MailStays DEF Reads
<1>12. ASSUME NEW w \in Worker, GraceIsOver(w) PROVE MailOf(v)'
  <2>1. UNCHANGED <<inbox, hand, posted, handled, page, thread, leaving, registry>>
    BY <1>12 DEF GraceIsOver
  <2> QED
    BY <1>0, <2>1, MailStays DEF Reads
<1>13. ASSUME NEW w \in Worker, Reap(w) PROVE MailOf(v)'
  <2>1. /\ UNCHANGED <<posted, hand, handled, page, thread, registry>>
        /\ w \in leaving /\ leaving' = leaving \ {w} /\ inbox' = [inbox EXCEPT ![w] = <<>>]
    BY <1>13 DEF Reap, Reaped
  <2>2. CASE v # w
    BY <1>0, <2>1, <2>2, MailStays DEF Typed, Reads
  <2>3. CASE v = w
    BY <1>0, <2>1, <2>3 DEF Typed, ModeInv, BirthInv, MailOf, Reads
  <2> QED
    BY <2>2, <2>3
<1>14. ASSUME NEW w \in Worker, Thread(w) PROVE MailOf(v)'
  <2>1. /\ UNCHANGED <<page, registry, leaving, posted>> /\ thread[w] \notin {"none", "dead"}
        /\ \A u \in Worker \ {w} : /\ thread'[u] = thread[u] /\ hand'[u] = hand[u]
                                   /\ inbox'[u] = inbox[u] /\ handled'[u] = handled[u]
    BY <1>14, ThreadLocal
  <2>2. page[w] # "new"
    BY <2>1 DEF BirthInv
  <2>3. CASE v # w
    BY <1>0, <2>1, <2>3, MailStays DEF Reads
  <2>4. CASE v = w /\ ~Reads(v)'
    BY <2>1, <2>2, <2>4 DEF MailOf
  <2>5. CASE v = w /\ Reads(v)'
    <3>1. v \in registry \cup leaving /\ thread'[v] \notin {"ends", "dead"}
      BY <2>1, <2>5 DEF Reads
    <3>2. \A states : Goes(v, states) => thread'[v] \in states
      BY DEF Goes, Typed
    <3>3. CASE ScriptPosts(v) \/ ScriptBroadcasts(v)
      <4>1. UNCHANGED <<inbox, hand, handled, thread>>
        BY <3>3 DEF ScriptPosts, ScriptBroadcasts
      <4> QED
        BY <1>0, <2>1, <4>1, MailStays DEF Reads
    <3>4. CASE BootReturns(v) \/ PostReturns(v) \/ BroadcastReturns(v)
      <4>1. UNCHANGED <<inbox, hand, handled>> /\ thread[v] \notin {"ends", "dead"}
        BY <3>4 DEF BootReturns, PostReturns, BroadcastReturns
      <4> QED
        BY <1>0, <2>1, <3>1, <4>1, MailStays DEF Reads
    <3>5. ~(Closes(v) \/ Leaves(v) \/ Raises(v) \/ Ends(v))
      BY <3>1, <3>2 DEF Closes, Leaves, Raises, Ends
    <3>6. CASE Take(v)
      BY <1>0, <2>1, <2>2, <2>5, <3>1, <3>6, MailTaken
    <3>7. CASE Pull(v)
      BY <1>0, <2>1, <2>2, <2>5, <3>1, <3>7, MailPulled
    <3> QED
      BY <1>14, <2>5, <3>3, <3>4, <3>5, <3>6, <3>7 DEF Thread
  <2> QED
    BY <2>3, <2>4, <2>5
<1> QED
  BY <1>1, <1>2, <1>3, <1>4, <1>5, <1>6, <1>7, <1>8, <1>9, <1>10, <1>11, <1>12, <1>13, <1>14
  DEF Next, Page, Main

-----------------------------------------------------------------------------
(* A worker hears the page in order: Workers implements Mailbox.             *)

LEMMA SameReceiver ==
    ASSUME registry' \cup leaving' = registry \cup leaving,
           \A w \in Worker : thread'[w] = "none" <=> thread[w] = "none"
    PROVE  Receiver' = Receiver
BY DEF Receiver

LEMMA WorkerHearsInit == Init => ToWorker!Init
<1> SUFFICES ASSUME Init PROVE ToWorker!Init
  OBVIOUS
<1>1. Receiver = [w \in Worker |-> "new"]
  BY DEF Init, Receiver
<1> QED
  BY <1>1 DEF Init, ToWorker!Init

LEMMA WorkerHearsStep ==
    ASSUME Typed, ModeInv, BirthInv, MailInv, [Next]_vars
    PROVE  ToWorker!Next \/ UNCHANGED <<Receiver, posted, handled>>
<1> USE DEF counterVars, threadVars, mainVars, historyVars
<1>1. CASE UNCHANGED vars
  BY <1>1 DEF vars, Receiver
<1>2. ASSUME NEW w \in Worker, Spawn(w) PROVE ToWorker!Open(w)
  <2>1. /\ page[w] = "new" /\ thread' = [thread EXCEPT ![w] = "boot"]
        /\ registry' = registry \cup {w} /\ UNCHANGED <<leaving, posted, handled>>
    BY <1>2 DEF Spawn
  <2>2. thread[w] = "none" /\ w \notin registry \cup leaving
    BY <2>1 DEF BirthInv
  <2>3. Receiver[w] = "new" /\ Receiver' = [Receiver EXCEPT ![w] = "open"]
    BY <2>1, <2>2 DEF Receiver, Typed
  <2>4. posted' = [posted EXCEPT ![w] = @ + 0]
    BY <2>1 DEF Typed
  <2> QED
    BY <2>1, <2>3, <2>4 DEF ToWorker!Open
<1>3. ASSUME NEW w \in Worker, PostMessage(w) PROVE ToWorker!Post(w)
  BY <1>3 DEF PostMessage, ToWorker!Post, Receiver
<1>4. ASSUME NEW w \in Worker, SpawnFails(w) \/ GraceIsOver(w) \/ Terminate(w)
      PROVE  UNCHANGED <<Receiver, posted, handled>>
  <2>1. /\ UNCHANGED <<thread, posted, handled>>
        /\ registry' \cup leaving' = registry \cup leaving
    BY <1>4 DEF SpawnFails, GraceIsOver, Terminate, ScriptRuns
  <2> QED
    BY <2>1, SameReceiver
<1>5. CASE \/ PageBroadcasts \/ FrameGone \/ Navigate \/ ResetBegins \/ Deliver \/ DeliverOne
           \/ DeliveryEnds \/ Park
  <2>1. /\ UNCHANGED <<thread, posted, handled>>
        /\ registry' \cup leaving' = registry \cup leaving
    BY <1>5 DEF PageBroadcasts, FrameGone, Navigate, ResetBegins, Deliver, Drained, DeliverOne,
                DeliveryEnds, Park, ScriptRuns
  <2> QED
    BY <2>1, SameReceiver
<1>6. ASSUME NEW w \in Worker, Reap(w) PROVE ToWorker!Shut({w})
  <2>1. /\ w \in leaving /\ leaving' = leaving \ {w}
        /\ UNCHANGED <<thread, posted, handled, registry>>
    BY <1>6 DEF Reap, Reaped
  <2>2. w \notin registry /\ thread[w] # "none"
    BY <2>1 DEF ModeInv, BirthInv
  <2>3. Receiver[w] = "open"
    BY <2>1 DEF Receiver
  <2>4. Receiver' = [v \in Worker |-> IF v \in {w} THEN "shut" ELSE Receiver[v]]
    BY <2>1, <2>2 DEF Receiver
  <2> QED
    BY <2>1, <2>3, <2>4 DEF ToWorker!Shut
<1>7. CASE ResetEnds
  <2>1. /\ registry' = {} /\ leaving = {} /\ leaving' = {}
        /\ UNCHANGED <<thread, posted, handled>>
    BY <1>7 DEF ResetEnds, ModeInv
  <2>2. \A w \in registry : w \in Worker /\ thread[w] # "none" /\ Receiver[w] = "open"
    BY DEF Typed, BirthInv, Receiver
  <2>3. Receiver' = [v \in Worker |-> IF v \in registry THEN "shut" ELSE Receiver[v]]
    BY <2>1, <2>2 DEF Receiver
  <2>4. ToWorker!Shut(registry)
    BY <2>1, <2>2, <2>3 DEF ToWorker!Shut
  <2> QED
    BY <2>4 DEF ToWorker!Next, Typed
<1>8. ASSUME NEW w \in Worker, Thread(w)
      PROVE  ToWorker!Take(w) \/ UNCHANGED <<Receiver, posted, handled>>
  <2>1. /\ UNCHANGED <<registry, leaving, posted>>
        /\ thread[w] \notin {"none", "dead"} /\ thread'[w] # "none"
        /\ \A v \in Worker \ {w} : thread'[v] = thread[v]
    BY <1>8, ThreadLocal
  <2>2. Receiver' = Receiver
    BY <2>1, SameReceiver
  <2>3. CASE ~Take(w)
    <3>1. UNCHANGED handled
      BY <1>8, <2>3 DEF Thread, ScriptPosts, ScriptBroadcasts, BootReturns, PostReturns,
                        BroadcastReturns, Closes, Pull, Leaves, Raises, Ends
    <3> QED
      BY <2>1, <2>2, <3>1
  <2>4. CASE Take(w)
    <3> DEFINE msg == Head(hand[w])
    <3>1. /\ hand[w] # <<>> /\ ~stopping[w]
          /\ handled' = IF msg.kind = "post" THEN [handled EXCEPT ![w] = msg.n] ELSE handled
      BY <2>4 DEF Take, Taken
    <3>2. CASE msg.kind # "post"
      BY <2>1, <2>2, <3>1, <3>2
    <3>3. CASE msg.kind = "post"
      <4>1. w \in registry \cup leaving /\ thread[w] = "poll"
        BY <2>1, <3>1 DEF BirthInv
      <4>2. Reads(w) /\ HasPost(w)
        BY <3>1, <3>3, <4>1 DEF Reads, HasPost
      <4>3. Numbered(inbox[w], Mail(w), handled[w] + 1, posted[w]) /\ msg.n = handled[w] + 1
        BY <4>2 DEF MailInv, MailOf, Popped
      <4>4. handled[w] < posted[w]
        BY <4>3 DEF Numbered, Typed
      <4>5. handled' = [handled EXCEPT ![w] = handled[w] + 1]
        BY <3>1, <3>3, <4>3
      <4>6. Receiver[w] = "open"
        BY <4>1 DEF Receiver
      <4> QED
        BY <2>1, <2>2, <4>4, <4>5, <4>6 DEF ToWorker!Take
    <3> QED
      BY <3>2, <3>3
  <2> QED
    BY <2>3, <2>4
<1>9. \A w \in Worker : ToWorker!Open(w) \/ ToWorker!Post(w) \/ ToWorker!Take(w)
                        \/ ToWorker!Shut({w}) => ToWorker!Next
  BY DEF ToWorker!Next
<1> QED
  BY <1>1, <1>2, <1>3, <1>4, <1>5, <1>6, <1>7, <1>8, <1>9 DEF Next, Page, Main

(* A worker handles the page's posts in order, each once, and none after it  *)
(* was taken down: every step of the threads, of the page and of reset! is a *)
(* step of the mailbox or leaves it alone.                                   *)
THEOREM WorkerAlwaysHearsInOrder == Spec => WorkerHearsInOrder
<1> DEFINE Inv == LifeInv /\ MailInv
<1>1. Init => Inv
  BY InitTyped, ModeInit, BirthInit, WorkInit, MailInit DEF LifeInv
<1>2. Inv /\ [Next]_vars => Inv'
  BY TypedStep, ModeStep, BirthStep, WorkStep, MailStep DEF LifeInv
<1>3. Inv /\ [Next]_vars => [ToWorker!Next]_<<Receiver, posted, handled>>
  BY WorkerHearsStep DEF LifeInv
<1> HIDE DEF Inv
<1> QED
  BY <1>1, <1>2, <1>3, WorkerHearsInit, PTL
  DEF Spec, WorkerHearsInOrder, ToWorker!Spec, ToWorker!vars

-----------------------------------------------------------------------------
(* What workers say to the page: in the batch under delivery, at the head of *)
(* the outbox, and in the outbox.                                            *)

Flow == batch \o (head \o outbox)

Tells(q, w) == {i \in Places(q, Messages) : q[i].handle = w}

(* What w has said and its object, which still listens, has not heard lies   *)
(* there, once and in order.                                                 *)
ToldInv == \A w \in Worker :
               page[w] # "shut" => Numbered(Flow, Tells(Flow, w), given[w], sent[w])

LEMMA TellsInt ==
    ASSUME NEW q \in Seq(Events), NEW w
    PROVE  Tells(q, w) \in SUBSET Int /\ Tells(q, w) \subseteq 1..Len(q) /\ Len(q) \in Nat
BY PlacesFinite, LenProperties DEF Tells

LEMMA TellsConcat ==
    ASSUME NEW q \in Seq(Events), NEW r \in Seq(Events), NEW w
    PROVE  /\ Tells(q \o r, w) \subseteq 1 .. Len(q) + Len(r)
           /\ \A i \in 1 .. Len(q) : /\ i \in Tells(q \o r, w) <=> i \in Tells(q, w)
                                     /\ (q \o r)[i] = q[i]
           /\ \A i \in 1 .. Len(r) : /\ i + Len(q) \in Tells(q \o r, w) <=> i \in Tells(r, w)
                                     /\ (q \o r)[i + Len(q)] = r[i]
<1> DEFINE u == q \o r
<1>1. /\ Places(u, Messages) \subseteq 1 .. Len(q) + Len(r)
      /\ \A i \in 1 .. Len(q) : /\ i \in Places(u, Messages) <=> i \in Places(q, Messages)
                                /\ u[i] = q[i]
      /\ \A i \in 1 .. Len(r) :
            /\ i + Len(q) \in Places(u, Messages) <=> i \in Places(r, Messages)
            /\ u[i + Len(q)] = r[i]
  BY PlacesConcat
<1> HIDE DEF u
<1>2. Tells(u, w) \subseteq 1 .. Len(q) + Len(r)
  BY <1>1 DEF Tells
<1>3. \A i \in 1 .. Len(q) : i \in Tells(u, w) <=> i \in Tells(q, w)
  BY <1>1 DEF Tells
<1>4. \A i \in 1 .. Len(r) : i + Len(q) \in Tells(u, w) <=> i \in Tells(r, w)
  BY <1>1 DEF Tells
<1> QED
  BY <1>1, <1>2, <1>3, <1>4 DEF u

(* Nothing of w comes in at the end. *)
LEMMA ToldQuiet ==
    ASSUME NEW q \in Seq(Events), NEW r \in Seq(Events), NEW w, Tells(r, w) = {},
           NEW from \in Nat, NEW to \in Nat, Numbered(q, Tells(q, w), from, to)
    PROVE  Numbered(q \o r, Tells(q \o r, w), from, to)
<1> DEFINE u == q \o r  P == Tells(q, w)  Q == Tells(u, w)
<1>1. /\ Q \subseteq 1 .. Len(q) + Len(r)
      /\ \A i \in 1 .. Len(q) : (i \in Q <=> i \in P) /\ u[i] = q[i]
      /\ \A i \in 1 .. Len(r) : i + Len(q) \notin Q
  BY TellsConcat
<1>2. Len(q) \in Nat /\ Len(r) \in Nat /\ P \subseteq 1..Len(q)
  BY TellsInt
<1>3. Numbered(q, P, from, to)
  OBVIOUS
<1> HIDE DEF u, P, Q
<1>4. \A i \in Q : i \in 1..Len(q)
  <2> SUFFICES ASSUME NEW i \in Q, i \notin 1..Len(q) PROVE FALSE
    OBVIOUS
  <2>1. i \in Int /\ i - Len(q) \in 1..Len(r) /\ i - Len(q) + Len(q) = i
    BY <1>1, <1>2
  <2> QED
    BY <1>1, <2>1
<1>5. Q = P
  BY <1>1, <1>2, <1>4
<1>6. Moved(q, P, u, Q, 0) /\ P \in SUBSET Int /\ Q \in SUBSET Int
  BY <1>1, <1>2, <1>5 DEF Moved
<1>7. Numbered(u, Q, from, to)
  BY <1>3, <1>6, NumberedMoved
<1> QED
  BY <1>7 DEF u, Q

(* w says something more. *)
LEMMA ToldMore ==
    ASSUME NEW q \in Seq(Events), NEW w \in Worker, NEW e \in Events,
           e.kind \in Messages, e.handle = w, NEW from \in Nat, NEW to \in Nat, e.n = to + 1,
           Numbered(q, Tells(q, w), from, to)
    PROVE  Numbered(q \o <<e>>, Tells(q \o <<e>>, w), from, to + 1)
<1> DEFINE r == <<e>>  u == q \o r  P == Tells(q, w)  Q == Tells(u, w)
<1>1. r \in Seq(Events) /\ Len(r) = 1 /\ r[1] = e /\ DOMAIN r = 1..1
  OBVIOUS
<1>2. 1 \in Tells(r, w)
  BY <1>1 DEF Tells, Places
<1> HIDE DEF r
<1>3. /\ Q \subseteq 1 .. Len(q) + 1
      /\ \A i \in 1 .. Len(q) : (i \in Q <=> i \in P) /\ u[i] = q[i]
      /\ \A i \in 1 .. 1 : (i + Len(q) \in Q <=> i \in Tells(r, w)) /\ u[i + Len(q)] = r[i]
  BY <1>1, TellsConcat
<1>4. Len(q) \in Nat /\ P \subseteq 1..Len(q) /\ P \in SUBSET Int
  BY TellsInt
<1>5. Numbered(q, P, from, to)
  OBVIOUS
<1> HIDE DEF u, P, Q
<1>6. Len(q) + 1 \in Q /\ u[Len(q) + 1] = e
  <2>1. 1 + Len(q) \in Q /\ u[1 + Len(q)] = e
    BY <1>1, <1>2, <1>3
  <2>2. 1 + Len(q) = Len(q) + 1
    BY <1>4
  <2> QED
    BY <2>1, <2>2
<1>7. Q = P \cup {Len(q) + 1}
  <2>1. \A i \in Q : i \in 1..Len(q) \/ i = Len(q) + 1
    BY <1>3, <1>4
  <2>2. \A i \in Q : i \in P \/ i = Len(q) + 1
    BY <1>3, <2>1
  <2>3. \A i \in P : i \in Q
    BY <1>3, <1>4
  <2> QED
    BY <1>6, <2>2, <2>3
<1>8. \A i \in P : i < Len(q) + 1 /\ u[i].n = q[i].n
  BY <1>3, <1>4
<1>9. Numbered(u, P \cup {Len(q) + 1}, from, to + 1)
  <2>1. Len(q) + 1 \in Int /\ u[Len(q) + 1].n = to + 1
    BY <1>4, <1>6
  <2> QED
    BY <1>4, <1>5, <1>8, <2>1, NumberedMore
<1> QED
  BY <1>7, <1>9 DEF u, r, Q

(* The first d places of q go. *)
LEMMA ToldShift ==
    ASSUME NEW q \in Seq(Events), NEW u \in Seq(Events), NEW d \in Nat, d <= Len(q),
           Len(u) = Len(q) - d, \A j \in 1..Len(u) : u[j] = q[j + d],
           NEW w, NEW from \in Nat, NEW to \in Nat,
           Numbered(q, Tells(q, w) \ 1..d, from, to)
    PROVE  Numbered(u, Tells(u, w), from, to)
<1> DEFINE P == Tells(q, w) \ 1..d  Q == Tells(u, w)
<1>1. Len(q) \in Nat /\ DOMAIN q = 1..Len(q) /\ DOMAIN u = 1..Len(u)
  BY LenProperties
<1>0. Numbered(q, P, from, to)
  OBVIOUS
<1>2. P = {i \in d + 1 .. Len(q) : q[i].kind \in Messages /\ q[i].handle = w}
  BY <1>1 DEF Tells, Places
<1>3. Q = {j \in 1 .. Len(u) : u[j].kind \in Messages /\ u[j].handle = w}
  BY <1>1 DEF Tells, Places
<1> HIDE DEF P, Q
<1>4. \A i \in P : i + (-d) \in Q /\ u[i + (-d)].n = q[i].n
  <2> SUFFICES ASSUME NEW i \in P PROVE i + (-d) \in Q /\ u[i + (-d)].n = q[i].n
    OBVIOUS
  <2>1. i + (-d) \in 1 .. Len(u) /\ i + (-d) + d = i
    BY <1>1, <1>2
  <2>2. u[i + (-d)] = q[i]
    BY <2>1
  <2> QED
    BY <1>2, <1>3, <2>1, <2>2
<1>5. \A j \in Q : j - (-d) \in P
  <2> SUFFICES ASSUME NEW j \in Q PROVE j - (-d) \in P
    OBVIOUS
  <2>1. j \in 1 .. Len(u) /\ j - (-d) = j + d /\ j + d \in d + 1 .. Len(q)
    BY <1>1, <1>3
  <2> QED
    BY <1>2, <1>3, <2>1
<1>6. Moved(q, P, u, Q, -d) /\ P \in SUBSET Int /\ Q \in SUBSET Int /\ -d \in Int
  BY <1>1, <1>2, <1>3, <1>4, <1>5 DEF Moved
<1>7. Numbered(u, Q, from, to)
  BY <1>0, <1>6, NumberedMoved
<1> QED
  BY <1>7 DEF Q

LEMMA ToldInit == Init => ToldInv
<1> SUFFICES ASSUME Init PROVE ToldInv
  OBVIOUS
<1>1. Flow = <<>>
  <2>1. batch = <<>> /\ head = <<>> /\ outbox = <<>> /\ <<>> \in Seq(Events)
    BY EmptySeq DEF Init
  <2> QED
    BY <2>1, ConcatEmptySeq DEF Flow
<1>2. \A w \in Worker : Tells(<<>>, w) = {} /\ given[w] = 0 /\ sent[w] = 0
  BY DEF Init, Tells, Places
<1>3. Numbered(<<>>, {}, 0, 0)
  BY DEF Numbered
<1> QED
  BY <1>1, <1>2, <1>3 DEF ToldInv

LEMMA FlowType == ASSUME Typed PROVE Flow \in Seq(Events)
BY ConcatProperties DEF Typed, Flow

LEMMA EventsAssociative ==
    \A q, r, u \in Seq(Events) : (q \o r) \o u = q \o (r \o u)
BY ConcatAssociative

(* What goes on the outbox is at the end of the flow. *)
LEMMA FlowGrows ==
    ASSUME Typed, NEW r \in Seq(Events), outbox' = outbox \o r, UNCHANGED <<batch, head>>
    PROVE  Flow' = Flow \o r
<1> DEFINE rest == head \o outbox
<1>1. rest \in Seq(Events) /\ batch \in Seq(Events) /\ head \in Seq(Events)
      /\ outbox \in Seq(Events)
  BY ConcatProperties DEF Typed
<1>2. head \o (outbox \o r) = rest \o r
  BY <1>1, EventsAssociative
<1>3. Flow' = batch \o (head \o (outbox \o r)) /\ Flow = batch \o rest
  BY DEF Flow
<1> HIDE DEF rest
<1>4. (batch \o rest) \o r = batch \o (rest \o r)
  <2>1. batch \in Seq(Events) /\ rest \in Seq(Events) /\ r \in Seq(Events)
    BY <1>1
  <2> QED
    BY <2>1, EventsAssociative
<1> QED
  BY <1>2, <1>3, <1>4

(* Steps at which no worker says anything, and no object hears.              *)
LEMMA ToldFrame ==
    ASSUME Typed, ToldInv, NEW r \in Seq(Events), Places(r, Messages) = {},
           outbox' = outbox \o r, UNCHANGED <<batch, head, given, sent>>,
           \A w \in Worker : page[w] = "shut" => page'[w] = "shut"
    PROVE  ToldInv'
<1>1. Flow' = Flow \o r /\ Flow \in Seq(Events)
  BY FlowGrows, FlowType
<1> SUFFICES ASSUME NEW w \in Worker, page'[w] # "shut"
             PROVE  Numbered(Flow', Tells(Flow', w), given[w], sent[w])
  BY DEF ToldInv
<1>2. Numbered(Flow, Tells(Flow, w), given[w], sent[w])
  BY DEF ToldInv
<1>3. Tells(r, w) = {} /\ given[w] \in Nat /\ sent[w] \in Nat
  BY DEF Tells, Typed
<1> QED
  BY <1>1, <1>2, <1>3, ToldQuiet

LEMMA ToldStays ==
    ASSUME Typed, ToldInv, UNCHANGED <<batch, head, outbox, given, sent>>,
           \A w \in Worker : page[w] = "shut" => page'[w] = "shut"
    PROVE  ToldInv'
BY DEF ToldInv, Flow

(* w says something, after r, which is nothing to hear.                      *)
LEMMA ToldSaid ==
    ASSUME Typed, ToldInv, NEW w \in Worker, NEW kind \in Messages,
           NEW r \in Seq(Events), Places(r, Messages) = {}, Says(w, kind, outbox \o r),
           UNCHANGED <<batch, head, given>>,
           \A v \in Worker : page[v] = "shut" => page'[v] = "shut"
    PROVE  ToldInv'
<1> DEFINE e == Event(w, kind, sent[w] + 1)  f == Flow \o r
<1>1. e \in Events /\ e.kind \in Messages /\ e.handle = w /\ e.n = sent[w] + 1
  <2>1. sent[w] + 1 \in Nat /\ kind \in Kinds
    BY DEF Typed, Messages, Kinds
  <2> QED
    BY <2>1, EventType DEF Event
<1>2. sent' = [sent EXCEPT ![w] = @ + 1] /\ outbox' = Append(outbox \o r, e)
  BY DEF Says
<1> HIDE DEF e
<1>3. <<e>> \in Seq(Events) /\ r \o <<e>> \in Seq(Events)
  BY <1>1, ConcatProperties
<1>4. outbox' = outbox \o (r \o <<e>>)
  <2>1. outbox \o r \in Seq(Events) /\ outbox \in Seq(Events)
    BY ConcatProperties DEF Typed
  <2> QED
    BY <1>1, <1>2, <1>3, <2>1, AppendIsConcat, ConcatAssociative
<1>5. Flow' = f \o <<e>> /\ f \in Seq(Events) /\ Flow \in Seq(Events)
  <2>1. Flow' = Flow \o (r \o <<e>>) /\ Flow \in Seq(Events)
    BY <1>3, <1>4, FlowGrows, FlowType
  <2> QED
    BY <1>3, <2>1, ConcatAssociative, ConcatProperties
<1> SUFFICES ASSUME NEW v \in Worker, page'[v] # "shut"
             PROVE  Numbered(Flow', Tells(Flow', v), given[v], sent'[v])
  BY DEF ToldInv
<1>6. given[v] \in Nat /\ sent[v] \in Nat /\ Tells(r, v) = {}
      /\ Numbered(Flow, Tells(Flow, v), given[v], sent[v])
  BY DEF Typed, Tells, ToldInv
<1>7. Numbered(f, Tells(f, v), given[v], sent[v])
  BY <1>5, <1>6, ToldQuiet
<1> HIDE DEF f
<1>8. CASE v = w
  <2>1. sent'[v] = sent[v] + 1
    BY <1>2, <1>8 DEF Typed
  <2> QED
    BY <1>1, <1>5, <1>6, <1>7, <1>8, <2>1, ToldMore
<1>9. CASE v # w
  <2>1. sent'[v] = sent[v]
    BY <1>2, <1>9 DEF Typed
  <2>2. Tells(<<e>>, v) = {}
    <3>1. DOMAIN <<e>> = 1..1 /\ <<e>>[1] = e
      OBVIOUS
    <3> QED
      BY <1>1, <1>9, <3>1 DEF Tells, Places
  <2> QED
    BY <1>3, <1>5, <1>6, <1>7, <2>1, <2>2, ToldQuiet
<1> QED
  BY <1>8, <1>9

(* The first d places of the batch go. *)
LEMMA FlowShrinks ==
    ASSUME Typed, NEW d \in 0..Len(batch), batch' = SubSeq(batch, d + 1, Len(batch)),
           UNCHANGED <<head, outbox>>
    PROVE  /\ Flow' \in Seq(Events) /\ d <= Len(Flow) /\ Len(Flow') = Len(Flow) - d
           /\ \A j \in 1..Len(Flow') : Flow'[j] = Flow[j + d]
<1> DEFINE rest == head \o outbox
<1>1. rest \in Seq(Events) /\ batch \in Seq(Events) /\ Len(batch) \in Nat /\ Len(rest) \in Nat
  BY ConcatProperties, LenProperties DEF Typed
<1>2. /\ batch' \in Seq(Events) /\ Len(batch') = Len(batch) - d
      /\ \A j \in 1 .. Len(batch) - d : batch'[j] = batch[j + d]
  <2>1. \A i \in d + 1 .. Len(batch) : batch[i] \in Events
    BY <1>1, ElementOfSeq
  <2>2. d + 1 \in Int /\ Len(batch) \in Int /\ Len(batch) - (d + 1) + 1 = Len(batch) - d
    BY <1>1
  <2>3. /\ batch' \in Seq(Events)
        /\ Len(batch') = IF d + 1 <= Len(batch) THEN Len(batch) - (d + 1) + 1 ELSE 0
        /\ \A i \in 1 .. Len(batch) - (d + 1) + 1 : batch'[i] = batch[d + 1 + i - 1]
    BY <2>1, <2>2, SubSeqProperties
  <2>4. \A j \in 1 .. Len(batch) - d : d + 1 + j - 1 = j + d
    BY <1>1
  <2>5. Len(batch') = Len(batch) - d
    <3>1. CASE d = Len(batch)
      <4>1. Len(batch') = 0
        BY <1>1, <2>3, <3>1
      <4> QED
        BY <1>1, <3>1, <4>1
    <3>2. CASE d # Len(batch)
      <4>1. d + 1 <= Len(batch)
        BY <1>1, <3>2
      <4> QED
        BY <2>2, <2>3, <4>1
    <3> QED
      BY <3>1, <3>2
  <2> QED
    BY <2>2, <2>3, <2>4, <2>5
<1>3. Flow = batch \o rest /\ Flow' = batch' \o rest
  BY DEF Flow
<1> HIDE DEF rest
<1>4. /\ Flow' \in Seq(Events) /\ Len(Flow') = Len(batch) - d + Len(rest)
      /\ \A j \in 1 .. Len(batch) - d + Len(rest) :
            Flow'[j] = IF j <= Len(batch) - d THEN batch'[j] ELSE rest[j - (Len(batch) - d)]
  <2>1. /\ Flow' \in Seq(Events) /\ Len(Flow') = Len(batch') + Len(rest)
        /\ \A j \in 1 .. Len(batch') + Len(rest) :
              Flow'[j] = IF j <= Len(batch') THEN batch'[j] ELSE rest[j - Len(batch')]
    <3>1. batch' \in Seq(Events) /\ rest \in Seq(Events)
      BY <1>1, <1>2
    <3> QED
      BY <1>3, <3>1, ConcatProperties
  <2>2. Len(batch') = Len(batch) - d
    BY <1>2
  <2> QED
    BY <2>1, <2>2
<1>5. /\ Len(Flow) = Len(batch) + Len(rest)
      /\ \A j \in 1 .. Len(batch) + Len(rest) :
            Flow[j] = IF j <= Len(batch) THEN batch[j] ELSE rest[j - Len(batch)]
  BY <1>1, <1>3, ConcatProperties
<1>6. d <= Len(Flow) /\ Len(Flow') = Len(Flow) - d
  BY <1>1, <1>4, <1>5
<1>7. ASSUME NEW j \in 1..Len(Flow') PROVE Flow'[j] = Flow[j + d]
  <2>1. j \in 1 .. Len(batch) - d + Len(rest) /\ j + d \in 1 .. Len(batch) + Len(rest)
    BY <1>1, <1>4
  <2>2. j <= Len(batch) - d <=> j + d <= Len(batch)
    BY <1>1
  <2>3. j - (Len(batch) - d) = j + d - Len(batch)
    BY <1>1
  <2>4. j <= Len(batch) - d => j \in 1 .. Len(batch) - d
    BY <1>1, <2>1
  <2> QED
    BY <1>2, <1>4, <1>5, <2>1, <2>2, <2>3, <2>4
<1> QED
  BY <1>4, <1>6, <1>7

(* What an object hears next: the next message of the batch is the next one  *)
(* its worker has said.                                                      *)
LEMMA NextTold ==
    ASSUME Typed, ToldInv, NEW i \in Places(batch, Messages),
           Places(batch, Messages) \cap 1 .. i - 1 = {}
    PROVE  LET w == batch[i].handle
           IN  /\ i \in 1..Len(batch) /\ w \in Worker
               /\ \A v \in Worker : Tells(Flow, v) \cap 1..i = IF v = w THEN {i} ELSE {}
               /\ page[w] # "shut" =>
                     /\ batch[i].n = given[w] + 1 /\ given[w] < sent[w]
                     /\ Numbered(Flow, Tells(Flow, w) \ {i}, given[w] + 1, sent[w])
<1> DEFINE w == batch[i].handle  rest == head \o outbox
<1>1. rest \in Seq(Events) /\ batch \in Seq(Events) /\ Len(batch) \in Nat
      /\ i \in 1..Len(batch) /\ batch[i] \in Events
  BY ConcatProperties, LenProperties, PlacesFinite, ElementOfSeq DEF Typed
<1>2. w \in Worker /\ batch[i].kind \in Messages
  BY <1>1 DEF Events, Places
<1>3. \A v \in Worker, j \in 1..Len(batch) :
         (j \in Tells(Flow, v) <=> j \in Tells(batch, v)) /\ Flow[j] = batch[j]
  <2> HIDE DEF rest
  <2>1. Flow = batch \o rest
    BY DEF Flow, rest
  <2> SUFFICES ASSUME NEW v \in Worker
               PROVE  \A j \in 1..Len(batch) :
                         (j \in Tells(Flow, v) <=> j \in Tells(batch, v)) /\ Flow[j] = batch[j]
    OBVIOUS
  <2> QED
    BY <1>1, <2>1, TellsConcat
<1>4. \A v \in Worker, j \in 1..i : j \in Tells(Flow, v) <=> j = i /\ v = w
  <2> SUFFICES ASSUME NEW v \in Worker, NEW j \in 1..i
               PROVE  j \in Tells(Flow, v) <=> j = i /\ v = w
    OBVIOUS
  <2>1. j \in 1..Len(batch)
    BY <1>1
  <2>2. j # i => j \in 1 .. i - 1
    BY <1>1
  <2>3. j # i => j \notin Places(batch, Messages)
    BY <2>2
  <2> QED
    BY <1>3, <2>1, <2>3 DEF Tells
<1>5. \A v \in Worker : Tells(Flow, v) \cap 1..i = IF v = w THEN {i} ELSE {}
  <2>1. i \in 1..i
    BY <1>1
  <2> QED
    BY <1>4, <2>1
<1>6. ASSUME page[w] # "shut"
      PROVE  /\ batch[i].n = given[w] + 1 /\ given[w] < sent[w]
             /\ Numbered(Flow, Tells(Flow, w) \ {i}, given[w] + 1, sent[w])
  <2> DEFINE P == Tells(Flow, w)
  <2>1. P \in SUBSET Int /\ P \subseteq 1..Len(Flow)
    BY FlowType, TellsInt
  <2>2. Numbered(Flow, P, given[w], sent[w]) /\ given[w] \in Nat /\ sent[w] \in Nat
    BY <1>2, <1>6 DEF ToldInv, Typed
  <2>3. P \cap 1..i = {i}
    BY <1>2, <1>5
  <2>4. Flow[i] = batch[i]
    BY <1>1, <1>2, <1>3
  <2> HIDE DEF P, w
  <2>5. i \in P /\ \A j \in P : j >= i
    BY <1>1, <2>1, <2>3
  <2>6. /\ Flow[i].n = given[w] + 1 /\ given[w] < sent[w]
        /\ Numbered(Flow, P \ {i}, given[w] + 1, sent[w])
    BY <2>1, <2>2, <2>5, NumberedTaken
  <2> QED
    BY <2>4, <2>6 DEF P
<1> QED
  BY <1>1, <1>2, <1>5, <1>6

LEMMA ToldTaken ==
    ASSUME Typed, BirthInv, ToldInv, DeliverOne
    PROVE  ToldInv'
<1>1. PICK i \in Places(batch, Messages) :
          /\ Places(batch, Messages) \cap 1 .. i - 1 = {}
          /\ handler' = (page[batch[i].handle] = "open")
          /\ given' = IF handler' THEN [given EXCEPT ![batch[i].handle] = batch[i].n] ELSE given
          /\ batch' = SubSeq(batch, i + 1, Len(batch))
  BY DEF DeliverOne
<1> DEFINE w == batch[i].handle
<1>2. /\ i \in 1..Len(batch) /\ w \in Worker
      /\ \A v \in Worker : Tells(Flow, v) \cap 1..i = IF v = w THEN {i} ELSE {}
      /\ page[w] # "shut" =>
            /\ batch[i].n = given[w] + 1 /\ given[w] < sent[w]
            /\ Numbered(Flow, Tells(Flow, w) \ {i}, given[w] + 1, sent[w])
  BY <1>1, NextTold
<1>3. UNCHANGED <<head, outbox, page, sent>>
  BY DEF DeliverOne
<1>4. /\ Flow' \in Seq(Events) /\ i <= Len(Flow) /\ Len(Flow') = Len(Flow) - i
      /\ \A j \in 1..Len(Flow') : Flow'[j] = Flow[j + i]
  <2>1. i \in 0..Len(batch)
    BY <1>2
  <2> QED
    BY <1>1, <1>3, <2>1, FlowShrinks
<1>5. given' = IF page[w] = "open" THEN [given EXCEPT ![w] = batch[i].n] ELSE given
  BY <1>1
<1> HIDE DEF w
<1> SUFFICES ASSUME NEW v \in Worker, page[v] # "shut"
             PROVE  Numbered(Flow', Tells(Flow', v), given'[v], sent[v])
  BY <1>3 DEF ToldInv
<1>6. /\ given[v] \in Nat /\ sent[v] \in Nat /\ i \in Nat /\ Flow \in Seq(Events)
      /\ Numbered(Flow, Tells(Flow, v), given[v], sent[v])
      /\ page[v] \in {"new", "open"}
  <2>1. given[v] \in Nat /\ sent[v] \in Nat /\ page[v] \in {"new", "open"}
        /\ Len(batch) \in Nat
    BY LenProperties DEF Typed
  <2>2. i \in Nat
    BY <1>2, <2>1
  <2>3. Flow \in Seq(Events)
    BY FlowType
  <2> QED
    BY <2>1, <2>2, <2>3 DEF ToldInv
<1> DEFINE P == Tells(Flow, v) \ 1..i
<1>7. \A from \in Nat : Numbered(Flow, P, from, sent[v])
                        => Numbered(Flow', Tells(Flow', v), from, sent[v])
  <2> SUFFICES ASSUME NEW from \in Nat, Numbered(Flow, P, from, sent[v])
               PROVE  Numbered(Flow', Tells(Flow', v), from, sent[v])
    OBVIOUS
  <2> QED
    BY <1>4, <1>6, ToldShift
<1>8. CASE v = w
  <2>1. P = Tells(Flow, w) \ {i}
    <3>1. Tells(Flow, v) \cap 1..i = {i}
      BY <1>2, <1>8
    <3> QED
      BY <1>8, <3>1
  <2>2. /\ batch[i].n = given[v] + 1 /\ given[v] < sent[v]
        /\ Numbered(Flow, P, given[v] + 1, sent[v])
    BY <1>2, <1>8, <2>1
  <2>3. page[v] = "open"
    <3>1. page[v] = "new" => sent[v] = 0
      BY DEF BirthInv
    <3> QED
      BY <1>6, <2>2, <3>1
  <2>4. given'[v] = given[v] + 1
    BY <1>5, <1>8, <2>2, <2>3 DEF Typed
  <2>5. given[v] + 1 \in Nat
    BY <1>6
  <2> QED
    BY <1>7, <2>2, <2>4, <2>5
<1>9. CASE v # w
  <2>1. P = Tells(Flow, v)
    <3>1. Tells(Flow, v) \cap 1..i = {}
      BY <1>2, <1>9
    <3> QED
      BY <3>1
  <2>2. given'[v] = given[v]
    BY <1>5, <1>9 DEF Typed
  <2> QED
    BY <1>6, <1>7, <2>1, <2>2
<1> QED
  BY <1>8, <1>9

(* An ack or a broadcast is nothing to hear, and nor is the end of a batch.  *)
LEMMA QuietEvent ==
    ASSUME NEW w \in Worker, NEW kind \in {"broadcast", "bcack"}
    PROVE  /\ <<Event(w, kind, 0)>> \in Seq(Events)
           /\ Places(<<Event(w, kind, 0)>>, Messages) = {}
<1> DEFINE e == Event(w, kind, 0)
<1>1. e \in Events /\ e.kind \notin Messages
  BY EventType DEF Event, Kinds, Messages
<1> HIDE DEF e
<1>2. <<e>> \in Seq(Events) /\ DOMAIN <<e>> = 1..1 /\ <<e>>[1] = e
  BY <1>1
<1>3. Places(<<e>>, Messages) = {}
  BY <1>1, <1>2 DEF Places
<1> QED
  BY <1>2, <1>3 DEF e

(* What Acked puts on the outbox. *)
LEMMA AckedQuiet ==
    ASSUME Typed, NEW w \in Worker
    PROVE  \E r \in Seq(Events) : Places(r, Messages) = {} /\ Acked(w) = outbox \o r
<1>1. CASE thread[w] = "broadcast"
  <2> DEFINE e == Event(w, "bcack", 0)
  <2>1. <<e>> \in Seq(Events) /\ Places(<<e>>, Messages) = {} /\ e \in Events
    BY QuietEvent, EventType DEF Kinds
  <2>2. Acked(w) = Append(outbox, e) /\ outbox \in Seq(Events)
    BY <1>1 DEF Acked, Typed
  <2> HIDE DEF e
  <2>3. Acked(w) = outbox \o <<e>>
    BY <2>1, <2>2, AppendIsConcat
  <2> QED
    BY <2>1, <2>3
<1>2. CASE thread[w] # "broadcast"
  <2>1. Acked(w) = outbox \o <<>> /\ <<>> \in Seq(Events)
    BY <1>2, ConcatEmptySeq, EmptySeq DEF Acked, Typed
  <2>2. Places(<<>>, Messages) = {}
    BY DEF Places
  <2> QED
    BY <2>1, <2>2
<1> QED
  BY <1>1, <1>2

(* Parking the first event leaves it the first.                              *)
LEMMA ParkKeeps == ASSUME Typed, Park PROVE head' \o outbox' = head \o outbox
<1>1. /\ outbox # <<>> /\ head = <<>> /\ head' = <<Head(outbox)>> /\ outbox' = Tail(outbox)
      /\ outbox \in Seq(Events)
  BY DEF Park, Typed
<1>2. head \o outbox = outbox
  BY <1>1, ConcatEmptySeq
<1>3. outbox = <<Head(outbox)>> \o Tail(outbox)
  BY <1>1, HeadThenTail
<1> QED
  BY <1>1, <1>2, <1>3

LEMMA ToldStep == Typed /\ ModeInv /\ BirthInv /\ ToldInv /\ [Next]_vars => ToldInv'
<1> SUFFICES ASSUME Typed, ModeInv, BirthInv, ToldInv, [Next]_vars PROVE ToldInv'
  OBVIOUS
<1> USE DEF counterVars, threadVars, mainVars, historyVars
<1>0. Places(<<>>, Messages) = {} /\ <<>> \in Seq(Events) /\ outbox = outbox \o <<>>
  BY EmptySeq, ConcatEmptySeq DEF Places, Typed
<1>1. CASE UNCHANGED vars
  BY <1>1, ToldStays DEF vars
<1>2. ASSUME NEW w \in Worker, Spawn(w) PROVE ToldInv'
  <2>1. UNCHANGED <<batch, head, outbox, given, sent>>
        /\ \A v \in Worker : page[v] = "shut" => page'[v] = "shut"
    BY <1>2 DEF Spawn, Typed
  <2> QED
    BY <2>1, ToldStays
<1>3. ASSUME NEW w \in Worker, SpawnFails(w) PROVE ToldInv'
  <2>1. Says(w, "__error", outbox) /\ UNCHANGED <<batch, head, given>>
        /\ \A v \in Worker : page[v] = "shut" => page'[v] = "shut"
    BY <1>3 DEF SpawnFails, Typed
  <2>2. Says(w, "__error", outbox \o <<>>) /\ "__error" \in Messages
    BY <1>0, <2>1 DEF Messages
  <2> QED
    BY <1>0, <2>1, <2>2, ToldSaid
<1>4. ASSUME NEW w \in Worker, PostMessage(w) \/ Terminate(w) \/ GraceIsOver(w) PROVE ToldInv'
  <2>1. UNCHANGED <<batch, head, outbox, given, sent>>
        /\ \A v \in Worker : page[v] = "shut" => page'[v] = "shut"
    BY <1>4 DEF PostMessage, Terminate, GraceIsOver, Typed
  <2> QED
    BY <2>1, ToldStays
<1>5. CASE PageBroadcasts \/ FrameGone \/ Navigate \/ ResetBegins
  <2>1. UNCHANGED <<batch, head, outbox, given, sent>>
        /\ \A v \in Worker : page[v] = "shut" => page'[v] = "shut"
    BY <1>5 DEF PageBroadcasts, FrameGone, Navigate, ResetBegins
  <2> QED
    BY <2>1, ToldStays
<1>6. CASE Deliver
  <2> DEFINE events == head \o outbox  msgs == Places(events, Messages)
  <2>1. /\ mode = "idle" /\ outbox' = <<>> /\ head' = <<>> /\ UNCHANGED <<page, given, sent>>
        /\ IF msgs = {} THEN batch' = <<>> ELSE batch' = events
    BY <1>6 DEF Deliver, Drained
  <2>2. events \in Seq(Events) /\ batch = <<>>
    BY <2>1, ConcatProperties DEF Typed, ModeInv
  <2>3. Flow = events
    BY <2>2, ConcatEmptySeq DEF Flow
  <2>4. Flow' = batch'
    <3>1. batch' \in Seq(Events)
      BY <1>0, <2>1, <2>2
    <3> QED
      BY <1>0, <2>1, <3>1, ConcatEmptySeq DEF Flow
  <2> HIDE DEF events
  <2>5. CASE msgs # {}
    BY <2>1, <2>3, <2>4, <2>5 DEF ToldInv
  <2>6. CASE msgs = {}
    <3>1. \A w \in Worker : Tells(events, w) = {} /\ Tells(<<>>, w) = {}
      BY <1>0, <2>6 DEF Tells
    <3>2. \A from, to : Numbered(events, {}, from, to) => Numbered(<<>>, {}, from, to)
      BY DEF Numbered
    <3> QED
      BY <2>1, <2>3, <2>4, <2>6, <3>1, <3>2 DEF ToldInv
  <2> QED
    BY <2>5, <2>6
<1>7. CASE DeliverOne
  BY <1>7, ToldTaken
<1>8. CASE DeliveryEnds
  <2>1. Places(batch, Messages) = {} /\ batch' = <<>> /\ UNCHANGED <<head, outbox, page, given, sent>>
    BY <1>8 DEF DeliveryEnds
  <2> DEFINE d == Len(batch)  rest == head \o outbox
  <2>2. d \in Nat /\ d \in 0..d /\ batch \in Seq(Events) /\ rest \in Seq(Events)
    BY LenProperties, ConcatProperties DEF Typed
  <2>3. batch' = SubSeq(batch, d + 1, Len(batch))
    BY <2>1, <2>2, SubSeqEmpty
  <2>4. /\ Flow' \in Seq(Events) /\ d <= Len(Flow) /\ Len(Flow') = Len(Flow) - d
        /\ \A j \in 1..Len(Flow') : Flow'[j] = Flow[j + d]
    BY <2>1, <2>2, <2>3, FlowShrinks
  <2> SUFFICES ASSUME NEW w \in Worker, page[w] # "shut"
               PROVE  Numbered(Flow', Tells(Flow', w), given[w], sent[w])
    BY <2>1 DEF ToldInv
  <2>5. /\ given[w] \in Nat /\ sent[w] \in Nat /\ Flow \in Seq(Events)
        /\ Numbered(Flow, Tells(Flow, w), given[w], sent[w])
    BY FlowType DEF Typed, ToldInv
  <2>6. Tells(Flow, w) \ 1..d = Tells(Flow, w)
    <3>1. \A j \in 1..d : j \notin Tells(Flow, w)
      <4>1. Flow = batch \o rest
        BY DEF Flow
      <4>2. \A j \in 1..d : j \in Tells(Flow, w) <=> j \in Tells(batch, w)
        BY <2>2, <4>1, TellsConcat
      <4> QED
        BY <2>1, <4>2 DEF Tells
    <3> QED
      BY <3>1
  <2> HIDE DEF d
  <2> QED
    BY <2>2, <2>4, <2>5, <2>6, ToldShift
<1>9. CASE ResetEnds
  <2>1. mode = "reset" /\ outbox' = <<>> /\ head' = <<>> /\ UNCHANGED <<batch, page, given, sent>>
    BY <1>9 DEF ResetEnds
  <2>2. batch = <<>> /\ \A w \in Worker : page[w] # "shut" => page[w] = "new"
    BY <2>1 DEF ModeInv, Typed
  <2>3. Flow' = <<>>
    BY <1>0, <2>1, <2>2, ConcatEmptySeq DEF Flow
  <2>4. \A w \in Worker : page[w] # "shut" => given[w] = 0 /\ sent[w] = 0
    BY <2>2 DEF BirthInv
  <2>5. \A w \in Worker : Tells(<<>>, w) = {}
    BY <1>0 DEF Tells
  <2>6. Numbered(<<>>, {}, 0, 0)
    BY DEF Numbered
  <2> QED
    BY <2>1, <2>3, <2>4, <2>5, <2>6 DEF ToldInv
<1>10. ASSUME NEW w \in Worker, Reap(w) PROVE ToldInv'
  <2> DEFINE n == Count(inbox[w], {"broadcast"})  e == Event(w, "bcack", 0)
             r == [i \in 1..n |-> e]
  <2>1. outbox' = outbox \o r /\ UNCHANGED <<batch, head, given, sent, page>>
    BY <1>10 DEF Reap, Reaped
  <2>2. n \in Nat /\ e \in Events /\ e.kind \notin Messages
    BY PlacesFinite, EventType DEF Typed, Kinds, Event, Messages
  <2> HIDE DEF n, e
  <2>3. r \in Seq(Events)
    BY <2>2, SameEvents
  <2>4. Places(r, Messages) = {}
    BY <2>2 DEF Places
  <2> QED
    BY <2>1, <2>3, <2>4, ToldFrame
<1>11. CASE Park
  <2>1. /\ outbox # <<>> /\ head = <<>> /\ head' = <<Head(outbox)>> /\ outbox' = Tail(outbox)
        /\ UNCHANGED <<batch, given, sent, page>>
    BY <1>11 DEF Park
  <2>2. head' \o outbox' = head \o outbox
    BY <1>11, ParkKeeps
  <2>3. Flow' = Flow
    BY <2>1, <2>2 DEF Flow
  <2> QED
    BY <2>1, <2>3 DEF ToldInv
<1>12. ASSUME NEW w \in Worker, Thread(w) PROVE ToldInv'
  <2>1. UNCHANGED <<batch, head, given, page>>
    BY <1>12, ThreadLocal
  <2>2. CASE ScriptPosts(w)
    <3>1. Says(w, "message", outbox \o <<>>) /\ "message" \in Messages
      BY <1>0, <2>2 DEF ScriptPosts, Messages
    <3> QED
      BY <1>0, <2>1, <3>1, ToldSaid
  <2>3. CASE ScriptBroadcasts(w)
    <3> DEFINE e == Event(w, "broadcast", 0)
    <3>1. <<e>> \in Seq(Events) /\ Places(<<e>>, Messages) = {} /\ e \in Events
      BY QuietEvent, EventType DEF Kinds
    <3>2. outbox' = Append(outbox, e) /\ outbox \in Seq(Events) /\ UNCHANGED sent
      BY <2>3 DEF ScriptBroadcasts, Typed
    <3> HIDE DEF e
    <3>3. outbox' = outbox \o <<e>>
      BY <3>1, <3>2, AppendIsConcat
    <3> QED
      BY <2>1, <3>1, <3>2, <3>3, ToldFrame
  <2>4. CASE BroadcastReturns(w) \/ Leaves(w)
    <3>1. PICK r \in Seq(Events) : Places(r, Messages) = {} /\ Acked(w) = outbox \o r
      BY AckedQuiet
    <3>2. outbox' = Acked(w) /\ UNCHANGED sent
      BY <2>4 DEF BroadcastReturns, Leaves
    <3> QED
      BY <2>1, <3>1, <3>2, ToldFrame
  <2>5. CASE Pull(w) \/ Take(w) \/ BootReturns(w) \/ PostReturns(w) \/ Closes(w) \/ Ends(w)
    <3>1. UNCHANGED <<outbox, sent>>
      BY <2>5 DEF Pull, Take, Taken, BootReturns, PostReturns, Closes, Ends
    <3> QED
      BY <2>1, <3>1, ToldStays
  <2>6. CASE Raises(w)
    <3>1. PICK r \in Seq(Events) : Places(r, Messages) = {} /\ Acked(w) = outbox \o r
      BY AckedQuiet
    <3>2. Says(w, "__error", outbox \o r) /\ "__error" \in Messages
      BY <2>6, <3>1 DEF Raises, Messages
    <3> QED
      BY <2>1, <3>1, <3>2, ToldSaid
  <2> QED
    BY <1>12, <2>2, <2>3, <2>4, <2>5, <2>6 DEF Thread
<1> QED
  BY <1>1, <1>2, <1>3, <1>4, <1>5, <1>6, <1>7, <1>8, <1>9, <1>10, <1>11, <1>12
  DEF Next, Page, Main

-----------------------------------------------------------------------------
(* The page hears its workers in order: Workers implements Mailbox again.    *)

LEMMA PageHearsInit == Init => ToPage!Init
BY DEF Init, ToPage!Init

LEMMA PageHearsStep ==
    ASSUME Typed, ModeInv, BirthInv, ToldInv, [Next]_vars
    PROVE  ToPage!Next \/ UNCHANGED <<page, sent, given>>
<1> USE DEF counterVars, threadVars, mainVars, historyVars
<1>1. CASE UNCHANGED vars
  BY <1>1 DEF vars
<1>2. ASSUME NEW w \in Worker, Spawn(w) \/ SpawnFails(w) PROVE ToPage!Next
  <2>1. /\ page[w] = "new" /\ page' = [page EXCEPT ![w] = "open"] /\ UNCHANGED given
        /\ UNCHANGED sent \/ sent' = [sent EXCEPT ![w] = @ + 1]
    BY <1>2 DEF Spawn, SpawnFails, Says
  <2>2. sent' = [sent EXCEPT ![w] = @ + 0] \/ sent' = [sent EXCEPT ![w] = @ + 1]
    BY <2>1 DEF Typed
  <2>3. ToPage!Open(w)
    BY <2>1, <2>2 DEF ToPage!Open
  <2> QED
    BY <2>3 DEF ToPage!Next
<1>3. ASSUME NEW w \in Worker, PostMessage(w) \/ GraceIsOver(w) \/ Reap(w)
      PROVE  UNCHANGED <<page, sent, given>>
  BY <1>3 DEF PostMessage, GraceIsOver, Reap, Reaped
<1>4. ASSUME NEW K \in SUBSET Worker, \A k \in K : page[k] = "open",
             page' = [k \in Worker |-> IF k \in K THEN "shut" ELSE page[k]],
             UNCHANGED <<sent, given>>
      PROVE  ToPage!Next
  <2>1. ToPage!Shut(K)
    BY <1>4 DEF ToPage!Shut
  <2> QED
    BY <2>1 DEF ToPage!Next
<1>5. ASSUME NEW w \in Worker, Terminate(w) PROVE ToPage!Next
  <2>1. page[w] = "open" /\ page' = [k \in Worker |-> IF k \in {w} THEN "shut" ELSE page[k]]
        /\ UNCHANGED <<sent, given>>
    BY <1>5 DEF Terminate, Typed
  <2> DEFINE K == {w}
  <2>2. K \in SUBSET Worker /\ \A k \in K : page[k] = "open"
    BY <2>1
  <2>3. page' = [k \in Worker |-> IF k \in K THEN "shut" ELSE page[k]]
    BY <2>1
  <2> HIDE DEF K
  <2> QED
    BY <1>4, <2>1, <2>2, <2>3
<1>6. CASE FrameGone
  <2> DEFINE K == {w \in Framed : page[w] = "open"}
  <2>1. page' = [w \in Worker |-> IF w \in Framed /\ page[w] = "open" THEN "shut" ELSE page[w]]
        /\ UNCHANGED <<sent, given>> /\ K \in SUBSET Worker
    BY <1>6, WorkersAssumption DEF FrameGone
  <2>2. page' = [k \in Worker |-> IF k \in K THEN "shut" ELSE page[k]]
    BY <2>1
  <2> QED
    BY <1>4, <2>1, <2>2
<1>7. CASE Navigate \/ ResetBegins
  <2> DEFINE K == {w \in Worker : page[w] = "open"}
  <2>1. page' = [w \in Worker |-> IF page[w] = "open" THEN "shut" ELSE page[w]]
        /\ UNCHANGED <<sent, given>> /\ K \in SUBSET Worker
    BY <1>7 DEF Navigate, ResetBegins
  <2>2. page' = [k \in Worker |-> IF k \in K THEN "shut" ELSE page[k]]
    BY <2>1
  <2> QED
    BY <1>4, <2>1, <2>2
<1>8. CASE PageBroadcasts \/ Deliver \/ DeliveryEnds \/ ResetEnds \/ Park
  BY <1>8 DEF PageBroadcasts, Deliver, Drained, DeliveryEnds, ResetEnds, Park
<1>9. CASE DeliverOne
  <2>1. PICK i \in Places(batch, Messages) :
          /\ Places(batch, Messages) \cap 1 .. i - 1 = {}
          /\ handler' = (page[batch[i].handle] = "open")
          /\ given' = IF handler' THEN [given EXCEPT ![batch[i].handle] = batch[i].n] ELSE given
    BY <1>9 DEF DeliverOne
  <2> DEFINE w == batch[i].handle
  <2>2. w \in Worker /\ page[w] # "shut" => batch[i].n = given[w] + 1 /\ given[w] < sent[w]
    BY <2>1, NextTold
  <2>3. w \in Worker
    BY <2>1, NextTold
  <2>4. given' = IF page[w] = "open" THEN [given EXCEPT ![w] = batch[i].n] ELSE given
    BY <2>1
  <2>5. UNCHANGED <<page, sent>>
    BY <1>9 DEF DeliverOne
  <2> HIDE DEF w
  <2>6. CASE page[w] = "open"
    <3>1. given' = [given EXCEPT ![w] = @ + 1] /\ given[w] < sent[w]
      BY <2>2, <2>3, <2>4, <2>6
    <3>2. ToPage!Take(w)
      BY <2>5, <2>6, <3>1 DEF ToPage!Take
    <3> QED
      BY <2>3, <3>2 DEF ToPage!Next
  <2>7. CASE page[w] # "open"
    BY <2>4, <2>5, <2>7
  <2> QED
    BY <2>6, <2>7
<1>10. ASSUME NEW w \in Worker, Thread(w)
       PROVE  ToPage!Next \/ UNCHANGED <<page, sent, given>>
  <2>1. /\ UNCHANGED <<page, given>>
        /\ UNCHANGED sent \/ sent' = [sent EXCEPT ![w] = @ + 1]
    <3>1. UNCHANGED <<page, given>>
      BY <1>10, ThreadLocal
    <3>2. UNCHANGED sent \/ sent' = [sent EXCEPT ![w] = @ + 1]
      BY <1>10 DEF Thread, ScriptPosts, ScriptBroadcasts, BootReturns, PostReturns,
                   BroadcastReturns, Closes, Pull, Take, Taken, Leaves, Raises, Ends, Says
    <3> QED
      BY <3>1, <3>2
  <2>2. sent' = [sent EXCEPT ![w] = @ + 1] => ToPage!Post(w)
    BY <2>1 DEF ToPage!Post
  <2> QED
    BY <2>1, <2>2 DEF ToPage!Next
<1> QED
  BY <1>1, <1>2, <1>3, <1>5, <1>6, <1>7, <1>8, <1>9, <1>10 DEF Next, Page, Main

(* Each Worker object hears its worker's messages in the order it sent them, *)
(* each once, none skipped, and none after terminate() or the end of its     *)
(* document, whatever is parked and whatever is drained while a worker is    *)
(* taken down.                                                               *)
THEOREM PageAlwaysHearsInOrder == Spec => ToPage!Spec
<1> DEFINE Inv == LifeInv /\ ToldInv
<1>1. Init => Inv
  BY InitTyped, ModeInit, BirthInit, WorkInit, ToldInit DEF LifeInv
<1>2. Inv /\ [Next]_vars => Inv'
  BY TypedStep, ModeStep, BirthStep, WorkStep, ToldStep DEF LifeInv
<1>3. Inv /\ [Next]_vars => [ToPage!Next]_<<page, sent, given>>
  BY PageHearsStep DEF LifeInv
<1> HIDE DEF Inv
<1> QED
  BY <1>1, <1>2, <1>3, PageHearsInit, PTL DEF Spec, ToPage!Spec, ToPage!vars
=============================================================================
