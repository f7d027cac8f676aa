--------------------------- MODULE WebSocketChannel ---------------------------
(***************************************************************************)
(* WebSocket connections: the reader thread each one has (browser.rb,      *)
(* run_websocket_reader), the one queue the readers share, the delivery of *)
(* that queue to the page's WebSocket objects (websocket.js), and the hold *)
(* an event loop frame puts on the virtual clock while a ws.close() waits  *)
(* for the server's answer (hold_for_ws_close).                            *)
(*                                                                         *)
(* Readers run at any moment; the main thread is `pc`.  Page scripts run   *)
(* on the main thread: outside the loop, as tasks of a loop step, and as   *)
(* handlers in the middle of a delivery.  What the server sends is chosen  *)
(* where the reader reads it.  Left out: what the page sends, the payloads *)
(* and codes (an end of stream is reported as `__close` like a close       *)
(* frame), pings, cookies and the bad-port check.                          *)
(***************************************************************************)
EXTENDS Integers, Sequences, FiniteSets

CONSTANTS
    Socket,       \* connection ids: @websocket_seq never repeats one
    MaxMessages   \* bound: data frames the server sends, by connection

ASSUME WebSocketAssumption == IsFiniteSet(Socket) /\ MaxMessages \in [Socket -> Nat]

VARIABLES
    js,           \* _readyState of the page's object; "gone" with its document
    failed,       \* _failConnecting
    reader,       \* the reader thread; "none": no entry in @websocket_sockets
    sent,         \* data frames read from the server so far
    queue,        \* @websocket_queue
    head,         \* @websocket_queue_head, as a sequence of at most one event
    pending,      \* @ws_close_pending
    deadline,     \* @ws_close_wait_deadline: "none", "running" or "spent"
    pc,           \* where the main thread is
    back,         \* where it goes on after the delivery
    batch,        \* the events the delivery took from the queue
    pos,          \* how many of them websocket.js has handled
    handler,      \* a page handler of the last one runs
    seen,         \* history: what the page was told of each connection
    inFlight,     \* history: connections whose counted ws.close() is unanswered
    unsolicited   \* history: terminal events delivered since a reset that answer no ws.close()

pageVars == <<js, failed, seen>>
readerVars == <<reader, sent>>
deliveryVars == <<back, batch, pos, handler>>
holdVars == <<pending, deadline, inFlight, unsolicited>>
vars == <<pageVars, readerVars, queue, head, holdVars, pc, deliveryVars>>

Kind == {"open", "bad_open", "message", "close", "error"}
Event == [id : Socket, type : Kind, n : Nat]
Notice == [what : {"open", "message", "error", "clean", "abnormal"}, n : Nat]
Terminal == {"close", "error"}

(* byId still holds the page's object.                                     *)
Listed(s) == js[s] \in {"connecting", "open", "closing"}

(* The page has control: outside the loop, in a task, in an event handler. *)
ScriptRuns == pc \in {"idle", "advance"} \/ handler

Enqueue(s, type, n) == queue' = Append(queue, [id |-> s, type |-> type, n |-> n])

Init ==
    /\ js = [s \in Socket |-> "unborn"] /\ failed = [s \in Socket |-> FALSE]
    /\ reader = [s \in Socket |-> "none"] /\ sent = [s \in Socket |-> 0]
    /\ queue = <<>> /\ head = <<>>
    /\ pending = 0 /\ deadline = "none"
    /\ pc = "idle" /\ back = "idle" /\ batch = <<>> /\ pos = 0 /\ handler = FALSE
    /\ seen = [s \in Socket |-> <<>>] /\ inFlight = {} /\ unsolicited = 0

-----------------------------------------------------------------------------
(* The page.                                                               *)

(* new WebSocket(url), ws_open: the app answers the upgrade and a reader    *)
(* starts, or the app raises and the error is queued for the page.          *)
Open(s) ==
    /\ ScriptRuns /\ js[s] = "unborn"
    /\ js' = [js EXCEPT ![s] = "connecting"]
    /\ \/ reader' = [reader EXCEPT ![s] = "handshake"] /\ UNCHANGED queue
       \/ Enqueue(s, "error", 0) /\ UNCHANGED reader
    /\ UNCHANGED <<failed, seen, sent, head, holdVars, pc, deliveryVars>>

(* Mutant of Close: _failConnecting is not set.                             *)
CloseForgetsConnecting(s) ==
    /\ ScriptRuns /\ js[s] \in {"connecting", "open"}
    /\ js' = [js EXCEPT ![s] = "closing"]
    /\ IF reader[s] # "none"
       THEN pending' = pending + 1 /\ inFlight' = inFlight \cup {s}
       ELSE UNCHANGED <<pending, inFlight>>
    /\ UNCHANGED <<failed, seen, readerVars, queue, head, deadline, unsolicited, pc, deliveryVars>>

(* WebSocket.close and ws_close: no entry, no close frame and no count.     *)
Close(s) ==
    /\ ScriptRuns /\ js[s] \in {"connecting", "open"}
    /\ failed' = [failed EXCEPT ![s] = js[s] = "connecting"]
    /\ js' = [js EXCEPT ![s] = "closing"]
    /\ IF reader[s] # "none"
       THEN pending' = pending + 1 /\ inFlight' = inFlight \cup {s}
       ELSE UNCHANGED <<pending, inFlight>>
    /\ UNCHANGED <<seen, readerVars, queue, head, deadline, unsolicited, pc, deliveryVars>>

(* The document goes, with its byId and its objects.                        *)
PageGone ==
    /\ js' = [s \in Socket |-> IF js[s] = "unborn" THEN "unborn" ELSE "gone"]
    /\ failed' = [s \in Socket |-> FALSE] /\ seen' = [s \in Socket |-> <<>>]

(* A navigation boots a new VM; the connections stay.                       *)
Navigate ==
    /\ pc = "idle"
    /\ PageGone
    /\ UNCHANGED <<readerVars, queue, head, holdVars, pc, deliveryVars>>

(* reset!: the page goes and reset_websockets ends every connection; it     *)
(* kills the readers and does not join them.                                *)
Reset ==
    /\ pc = "idle"
    /\ PageGone
    /\ reader' = [s \in Socket |-> IF reader[s] \in {"none", "done"} THEN "none" ELSE "killed"]
    /\ sent' = [s \in Socket |-> 0]
    /\ queue' = <<>> /\ head' = <<>>
    /\ pending' = 0 /\ deadline' = "none" /\ inFlight' = {} /\ unsolicited' = 0
    /\ UNCHANGED <<pc, deliveryVars>>

-----------------------------------------------------------------------------
(* The reader threads.                                                     *)

ReaderStep(s, from, to, type, n) ==
    /\ reader[s] = from /\ reader' = [reader EXCEPT ![s] = to]
    /\ sent' = [sent EXCEPT ![s] = n]
    /\ Enqueue(s, type, n)
    /\ UNCHANGED <<pageVars, head, holdVars, pc, deliveryVars>>

(* The 101 came, with a subprotocol the page offered or another one.        *)
Upgraded(s) == \E type \in {"open", "bad_open"} : ReaderStep(s, "handshake", "reading", type, 0)

(* It did not come; reading it raises only on a connection the server       *)
(* dropped with our close frame unread.                                     *)
Refused(s) ==
    \/ ReaderStep(s, "handshake", "done", "error", 0)
    \/ failed[s] /\ ReaderStep(s, "handshake", "done", "close", 0)

ReadMessage(s) ==
    sent[s] < MaxMessages[s] /\ ReaderStep(s, "reading", "reading", "message", sent[s] + 1)

(* A close frame, the end of the stream, or a malformed frame.              *)
ReadEnd(s) == \E type \in Terminal : ReaderStep(s, "reading", "done", type, sent[s])

(* A killed reader that had its next event at hand still appends it.        *)
Straggles(s) == \E type \in Kind : ReaderStep(s, "killed", "none", type, 0)

-----------------------------------------------------------------------------
(* deliver_websocket_events: the parked event, then the queue.              *)

(* Mutant of Deliver: the parked event is forgotten.                        *)
DeliverQueueOnly(next) ==
    /\ head' = <<>> /\ queue' = <<>>
    /\ IF queue = <<>>
       THEN pc' = next /\ UNCHANGED deliveryVars
       ELSE /\ pc' = "deliver" /\ back' = next /\ batch' = queue
            /\ pos' = 0 /\ handler' = FALSE

Deliver(next) ==
    /\ head' = <<>> /\ queue' = <<>>
    /\ IF head \o queue = <<>>
       THEN pc' = next /\ UNCHANGED deliveryVars
       ELSE /\ pc' = "deliver" /\ back' = next /\ batch' = head \o queue
            /\ pos' = 0 /\ handler' = FALSE

(* What websocket.js does with event e of a listed connection: the new      *)
(* ready state and the events it dispatches.                                *)
Tell(s, state, notices) ==
    /\ js' = [js EXCEPT ![s] = state]
    /\ seen' = [seen EXCEPT ![s] = @ \o notices]
    /\ handler' = (notices # <<>>)

Note(what, n) == [what |-> what, n |-> n]

Handle(e) ==
    CASE e.type = "open" /\ js[e.id] = "connecting" -> Tell(e.id, "open", <<Note("open", 0)>>)
      [] e.type = "bad_open" /\ js[e.id] = "connecting" ->
            Tell(e.id, "closed", <<Note("error", 0), Note("abnormal", 0)>>)
      [] e.type \in {"open", "bad_open"} /\ js[e.id] # "connecting" -> Tell(e.id, js[e.id], <<>>)
      [] e.type = "message" -> Tell(e.id, js[e.id], <<Note("message", e.n)>>)
      [] e.type = "error" -> Tell(e.id, "closed", <<Note("error", e.n), Note("abnormal", e.n)>>)
      [] e.type = "close" ->
            Tell(e.id, "closed", <<Note(IF failed[e.id] THEN "abnormal" ELSE "clean", e.n)>>)

DeliverOne ==
    /\ pc = "deliver" /\ pos < Len(batch)
    /\ pos' = pos + 1
    /\ LET e == batch[pos + 1] IN
       IF Listed(e.id) THEN Handle(e) ELSE handler' = FALSE /\ UNCHANGED <<js, seen>>
    /\ UNCHANGED <<failed, readerVars, queue, head, holdVars, pc, back, batch>>

(* How many events of the delivery have one of the types.                   *)
Ends(types) == Cardinality({i \in DOMAIN batch : batch[i].type \in types})

Larger(m, n) == IF m >= n THEN m ELSE n

(* The delivery is over; @ws_close_pending becomes count.                   *)
Release(count) ==
    /\ pc = "deliver" /\ pos = Len(batch)
    /\ pending' = count
    /\ LET ended == {batch[i].id : i \in {j \in DOMAIN batch : batch[j].type \in Terminal}} IN
       /\ inFlight' = inFlight \ ended
       /\ unsolicited' = unsolicited + Cardinality(ended \ inFlight)
    /\ pc' = back
    /\ batch' = <<>> /\ pos' = 0 /\ back' = "idle" /\ handler' = FALSE
    /\ UNCHANGED <<pageVars, readerVars, queue, head, deadline>>

(* Mutants of DeliveryEnds: the count is not clamped; `__error` is not      *)
(* counted; the counter is cleared.                                         *)
DeliveryEndsUnclamped == Release(pending - Ends(Terminal))
DeliveryEndsCloseOnly == Release(Larger(pending - Ends({"close"}), 0))
DeliveryEndsClearing == Release(IF Ends(Terminal) = 0 THEN pending ELSE 0)

(* Each terminal event releases one hold, whoever asked for it.             *)
DeliveryEnds == Release(Larger(pending - Ends(Terminal), 0))

-----------------------------------------------------------------------------
(* The main thread: a delivery from settle, a poll or a turn of phase 1     *)
(* that another follows, and a frame of run_event_loop_frame.               *)

Settle == pc = "idle" /\ Deliver("idle") /\ UNCHANGED <<pageVars, readerVars, holdVars>>

(* The last turn of phase 1.                                                *)
LastTurn == pc = "idle" /\ Deliver("hold") /\ UNCHANGED <<pageVars, readerVars, holdVars>>

(* Nothing to wait for: phase 2.                                            *)
NoHold ==
    /\ pc = "hold" /\ pending = 0
    /\ deadline' = "none"
    /\ pc' = "advance"
    /\ UNCHANGED <<pageVars, readerVars, queue, head, pending, inFlight, unsolicited, deliveryVars>>

(* Mutant of HoldWaits: every wait starts a budget of its own.              *)
HoldWaitsAfresh ==
    /\ pc = "hold" /\ pending > 0 /\ head \o queue = <<>>
    /\ deadline' = "running"
    /\ pc' = "park"
    /\ UNCHANGED <<pageVars, readerVars, queue, head, pending, inFlight, unsolicited, deliveryVars>>

(* hold_for_ws_close.  With nothing to deliver it waits on the queue, while *)
(* a budget lasts that starts with the first wait; with the budget spent    *)
(* the frame goes on to phase 2.                                            *)
HoldWaits ==
    /\ pc = "hold" /\ pending > 0 /\ head \o queue = <<>>
    /\ deadline' = IF deadline = "none" THEN "running" ELSE deadline
    /\ pc' = IF deadline = "spent" THEN "advance" ELSE "park"
    /\ UNCHANGED <<pageVars, readerVars, queue, head, pending, inFlight, unsolicited, deliveryVars>>

(* Mutant of Park: the event goes back on the tail of the queue.            *)
ParkOnTail ==
    /\ pc = "park" /\ queue # <<>>
    /\ queue' = Append(Tail(queue), Head(queue))
    /\ pc' = "hold"
    /\ UNCHANGED <<pageVars, readerVars, head, holdVars, deliveryVars>>

(* pop_with_timeout: an event is parked ahead of the queue.                 *)
Park ==
    /\ pc = "park" /\ queue # <<>>
    /\ head' = <<Head(queue)>> /\ queue' = Tail(queue)
    /\ pc' = "hold"
    /\ UNCHANGED <<pageVars, readerVars, holdVars, deliveryVars>>

(* None came: the frame returns with the clock where it was.                *)
ParkTimesOut ==
    /\ pc = "park" /\ queue = <<>>
    /\ pc' = IF deadline = "spent" THEN "advance" ELSE "idle"
    /\ UNCHANGED <<pageVars, readerVars, queue, head, holdVars, deliveryVars>>

(* Something to deliver: it is, at this instant; the next wait is afresh.   *)
HoldDelivers ==
    /\ pc = "hold" /\ pending > 0 /\ head \o queue # <<>>
    /\ deadline' = "none"
    /\ Deliver("idle")
    /\ UNCHANGED <<pageVars, readerVars, pending, inFlight, unsolicited>>

(* Phase 2: the clock has advanced; tasks run, then the channels drain.     *)
Advance == pc = "advance" /\ Deliver("idle") /\ UNCHANGED <<pageVars, readerVars, holdVars>>

BudgetRunsOut ==
    /\ deadline = "running" /\ deadline' = "spent"
    /\ UNCHANGED <<pageVars, readerVars, queue, head, pending, inFlight, unsolicited, pc,
                   deliveryVars>>

Delivery == DeliverOne \/ DeliveryEnds
Frame == LastTurn \/ NoHold \/ HoldWaits \/ Park \/ ParkTimesOut \/ HoldDelivers \/ Advance
Page == (\E s \in Socket : Open(s) \/ Close(s)) \/ Navigate \/ Reset
Reader == \E s \in Socket : Upgraded(s) \/ Refused(s) \/ ReadMessage(s) \/ ReadEnd(s)
                             \/ Straggles(s)

Next == Page \/ Reader \/ Delivery \/ Frame \/ Settle \/ BudgetRunsOut

Spec == Init /\ [][Next]_vars

(* A driver that keeps pumping frames (the only caller that holds the       *)
(* clock) and a wall clock that moves.  Nothing is assumed of servers.      *)
Fairness == WF_vars(Frame) /\ WF_vars(Delivery) /\ WF_vars(BudgetRunsOut)
FairSpec == Spec /\ Fairness

-----------------------------------------------------------------------------
TypeOK ==
    /\ js \in [Socket -> {"unborn", "connecting", "open", "closing", "closed", "gone"}]
    /\ failed \in [Socket -> BOOLEAN]
    /\ reader \in [Socket -> {"none", "handshake", "reading", "done", "killed"}]
    /\ sent \in [Socket -> Nat]
    /\ queue \in Seq(Event) /\ head \in Seq(Event) /\ batch \in Seq(Event)
    /\ Len(head) <= 1 /\ pos \in 0..Len(batch) /\ handler \in BOOLEAN
    /\ pending \in Nat /\ unsolicited \in Nat /\ inFlight \subseteq Socket
    /\ deadline \in {"none", "running", "spent"}
    /\ pc \in {"idle", "hold", "park", "advance", "deliver"}
    /\ back \in {"idle", "hold"}
    /\ seen \in [Socket -> Seq(Notice)]

Times(s, what) == {i \in DOMAIN seen[s] : seen[s][i].what = what}

(* The life of a WebSocket as its page sees it: `open` at most once and      *)
(* before anything else, never after a close() that came first; one close    *)
(* event, after which nothing; and a clean close only of a connection that   *)
(* had opened.                                                               *)
LifecycleOrder ==
    \A s \in Socket :
        /\ Times(s, "open") \subseteq {1}
        /\ failed[s] => Times(s, "open") \cup Times(s, "clean") = {}
        /\ Times(s, "clean") \cup Times(s, "abnormal") \subseteq {Len(seen[s])}
        /\ Times(s, "clean") # {} => 1 \in Times(s, "open")

(* No data frame is lost, repeated or overtaken between the reader and the   *)
(* page, the event that a hold parks in front of the queue included; a close *)
(* event comes after every frame the reader read before the end.             *)
MessagesInOrder ==
    \A s \in Socket :
        /\ \A i \in Times(s, "message") :
               seen[s][i].n = Cardinality({j \in Times(s, "message") : j <= i})
        /\ \A i \in Times(s, "clean") : seen[s][i].n = Cardinality(Times(s, "message"))

Undelivered == head \o queue \o SubSeq(batch, pos + 1, Len(batch))

(* The end of a connection is never dropped on its way: a page object that   *)
(* still takes its connection for alive after the reader's end has the       *)
(* terminal event ahead of it.                                               *)
EndUnderway ==
    \A s \in Socket :
        reader[s] = "done" /\ Listed(s) =>
            \E i \in DOMAIN Undelivered :
                Undelivered[i].id = s /\ Undelivered[i].type \in Terminal

(* The counter behind the hold never counts a handshake that has ended: a    *)
(* frame does not wait for an answer that was already delivered.             *)
HoldIsOwed == pending <= Cardinality(inFlight)

(* And a hold is only ever lost to a terminal event that answers no          *)
(* ws.close() of this page (a failed open, a server that closed by itself,   *)
(* a reader that reset! killed and that reported all the same).              *)
HoldLostOnlyToOthers == Cardinality(inFlight) <= pending + unsolicited

(* "hold the clock until the reader's `__close` lands (bounded by the        *)
(* deadline in hold_for_ws_close ...)": a frame advances the clock over an   *)
(* unanswered ws.close() only when the budget is spent.                      *)
ClockHeldForClose ==
    [][pc' = "advance" /\ pc # "advance" /\ inFlight # {} => deadline = "spent"]_vars

(* However the servers answer, and they send finitely many frames, event     *)
(* loop frames do not hold the clock for ever.                               *)
ClockResumes == []<>(pc = "advance")

=============================================================================
