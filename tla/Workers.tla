------------------------------- MODULE Workers -------------------------------
(***************************************************************************)
(* Dedicated and shared workers: a thread each (browser.rb, run_worker),    *)
(* with an inbox of its own and one outbox for all, which the main thread   *)
(* drains (deliver_worker_messages), and the counters by which settle and   *)
(* the driver see that a worker still owes something (worker_pending?).     *)
(*                                                                         *)
(* Worker threads run at any moment; the main thread is `mode` and, while   *)
(* it takes workers down, `leaving`.  Page scripts run on it: outside the   *)
(* delivery and as handlers in the middle of one.  What a worker script     *)
(* does is free: it posts, broadcasts, closes itself or raises.  A message  *)
(* is popped in one step; the check after the pop, the busy count and the   *)
(* start of the handler are the next.  Left out: payloads, nested workers,  *)
(* ports and service workers.                                               *)
(***************************************************************************)
EXTENDS Integers, FiniteSetsExt, SequencesExt

CONSTANTS
    Worker,         \* handles: @worker_seq never repeats one
    Framed,         \* the workers an iframe's script creates
    MaxPosts,       \* bounds: posts to each worker, posts of each worker,
    MaxSends,
    MaxBroadcasts,  \* BroadcastChannel posts of the page and of all workers,
    MaxTraffic      \* and all of these together

ASSUME WorkersAssumption ==
    /\ IsFiniteSet(Worker) /\ Framed \subseteq Worker
    /\ MaxPosts \in [Worker -> Nat] /\ MaxSends \in [Worker -> Nat]
    /\ {MaxBroadcasts, MaxTraffic} \subseteq Nat

VARIABLES
    page,               \* of each Worker object: "new", "open" (in byHandle) or "shut"
    registry,           \* the keys of @workers
    thread,             \* "none", "boot", "poll", "post", "broadcast", "ends" or "dead"
    hand,               \* what it has popped and not looked at, at most one message
    holds,              \* its own `initializing` and `busy_held`, as "init" and "busy"
    stopping,           \* record[:stopping], or the thread was killed
    inbox,              \* record[:inbox]
    outbox,             \* @worker_outbox
    head,               \* @worker_outbox_head, as a sequence of at most one event
    inFlight,           \* @worker_in_flight
    tally,              \* record[:in_flight]
    broadcastPending,   \* @worker_broadcast_pending
    initializing,       \* @worker_initializing
    busy,               \* @worker_busy
    mode,               \* the main thread: "idle", "deliver" or "reset"
    batch,              \* what its delivery has left of the events it drained
    handler,            \* a page handler of the last one runs
    leaving,            \* workers it is taking down: out of @workers, not reaped
    posted, handled,    \* history: posts to each worker, the last one it handled
    sent, given,        \* history: events for each object, the last one it got
    broadcasts,         \* history: BroadcastChannel posts
    dropped             \* history: broadcasts read by a thread that was to stop

counterVars == <<inFlight, tally, broadcastPending>>
threadVars == <<thread, hand, holds, initializing, busy>>
mainVars == <<mode, batch, handler>>
historyVars == <<posted, handled, sent, given, broadcasts, dropped>>
vars == <<page, registry, threadVars, stopping, inbox, outbox, head, counterVars, mainVars,
          leaving, historyVars>>

(* Mutant of Clamp: the count may go below zero.                            *)
Unclamped(n) == n

Clamp(n) == Max({0, n})

Event(w, kind, n) == [handle |-> w, kind |-> kind, n |-> n]
Messages == {"message", "__error"}     \* the kinds of event a Worker object hears

Places(s, kinds) == {i \in DOMAIN s : s[i].kind \in kinds}
Count(s, kinds) == Cardinality(Places(s, kinds))

(* The bound on all messages (an error event counts, and is always sent).   *)
TrafficLeft == MapThenSumSet(LAMBDA w : posted[w] + sent[w], Worker) + broadcasts < MaxTraffic

(* An event for w's object goes on the outbox.                              *)
Says(w, kind, queue) ==
    /\ sent' = [sent EXCEPT ![w] = @ + 1]
    /\ outbox' = Append(queue, Event(w, kind, sent[w] + 1))

(* Page scripts have control.                                               *)
ScriptRuns == leaving = {} /\ (mode = "idle" \/ handler)

Init ==
    /\ page = [w \in Worker |-> "new"] /\ registry = {} /\ leaving = {}
    /\ thread = [w \in Worker |-> "none"]
    /\ hand = [w \in Worker |-> <<>>] /\ holds = [w \in Worker |-> {}]
    /\ stopping = [w \in Worker |-> FALSE]
    /\ inbox = [w \in Worker |-> <<>>] /\ outbox = <<>> /\ head = <<>>
    /\ inFlight = 0 /\ tally = [w \in Worker |-> 0] /\ broadcastPending = 0
    /\ initializing = 0 /\ busy = 0
    /\ mode = "idle" /\ batch = <<>> /\ handler = FALSE
    /\ posted = [w \in Worker |-> 0] /\ handled = [w \in Worker |-> 0]
    /\ sent = [w \in Worker |-> 0] /\ given = [w \in Worker |-> 0]
    /\ broadcasts = 0 /\ dropped = 0

-----------------------------------------------------------------------------
(* The page.                                                               *)

(* new Worker(url), worker_spawn: the record is there before the thread.    *)
Spawn(w) ==
    /\ ScriptRuns /\ page[w] = "new"
    /\ page' = [page EXCEPT ![w] = "open"]
    /\ registry' = registry \cup {w}
    /\ thread' = [thread EXCEPT ![w] = "boot"]
    /\ initializing' = initializing + 1 /\ holds' = [holds EXCEPT ![w] = {"init"}]
    /\ UNCHANGED <<hand, busy, stopping, inbox, outbox, head, counterVars, mainVars, leaving,
                   historyVars>>

(* worker_fail: no thread and no record, an error event for the object.     *)
SpawnFails(w) ==
    /\ ScriptRuns /\ page[w] = "new"
    /\ page' = [page EXCEPT ![w] = "open"]
    /\ Says(w, "__error", outbox)
    /\ UNCHANGED <<registry, threadVars, stopping, inbox, head, counterVars, mainVars, leaving,
                   posted, handled, given, broadcasts, dropped>>

(* worker.postMessage, worker_post_to_worker: a no-op for a dead thread.    *)
PostMessage(w) ==
    /\ ScriptRuns /\ page[w] = "open"
    /\ w \in registry /\ thread[w] # "dead" /\ posted[w] < MaxPosts[w] /\ TrafficLeft
    /\ posted' = [posted EXCEPT ![w] = @ + 1]
    /\ inbox' = [inbox EXCEPT ![w] = Append(@, Event(w, "post", posted[w] + 1))]
    /\ inFlight' = inFlight + 1 /\ tally' = [tally EXCEPT ![w] = @ + 1]
    /\ UNCHANGED <<page, registry, threadVars, stopping, outbox, head, broadcastPending, mainVars,
                   leaving, handled, sent, given, broadcasts, dropped>>

(* broadcast_external: whom a BroadcastChannel post reaches.                *)
Listeners(from) == {w \in registry \ from : thread[w] # "dead"}

(* A BroadcastChannel post of the page.                                     *)
PageBroadcasts ==
    /\ ScriptRuns /\ broadcasts < MaxBroadcasts /\ TrafficLeft
    /\ broadcasts' = broadcasts + 1
    /\ inbox' = [w \in Worker |-> IF w \in Listeners({})
                                  THEN Append(inbox[w], Event(w, "broadcast", 0)) ELSE inbox[w]]
    /\ broadcastPending' = broadcastPending + Cardinality(Listeners({}))
    /\ UNCHANGED <<page, registry, threadVars, stopping, outbox, head, inFlight, tally, mainVars,
                   leaving, posted, handled, sent, given, dropped>>

-----------------------------------------------------------------------------
(* Taking workers down.                                                    *)

Terminating(w) == inbox[w] \o <<Event(w, "terminate", 0)>>

(* worker.terminate(), worker_terminate up to the join.                     *)
Terminate(w) ==
    /\ ScriptRuns /\ page[w] = "open"
    /\ page' = [page EXCEPT ![w] = "shut"]
    /\ leaving' = registry \cap {w} /\ registry' = registry \ {w}
    /\ inbox' = [inbox EXCEPT ![w] = IF w \in registry THEN Terminating(w) ELSE @]
    /\ UNCHANGED <<threadVars, stopping, outbox, head, counterVars, mainVars, historyVars>>

(* The grace is over: stop_worker_wait stops the script or kills the thread. *)
GraceIsOver(w) ==
    /\ w \in leaving /\ ~stopping[w] /\ thread[w] # "dead"
    /\ stopping' = [stopping EXCEPT ![w] = TRUE]
    /\ UNCHANGED <<page, registry, threadVars, inbox, outbox, head, counterVars, mainVars, leaving,
                   historyVars>>

(* An iframe is discarded, terminate_realm_workers: nobody waits.           *)
FrameGone ==
    /\ ScriptRuns /\ \E w \in Framed : page[w] = "open"
    /\ page' = [w \in Worker |-> IF w \in Framed /\ page[w] = "open" THEN "shut" ELSE page[w]]
    /\ leaving' = registry \cap Framed /\ registry' = registry \ Framed
    /\ inbox' = [w \in Worker |-> IF w \in leaving' THEN Terminating(w) ELSE inbox[w]]
    /\ stopping' = [w \in Worker |-> stopping[w] \/ w \in leaving']
    /\ UNCHANGED <<threadVars, outbox, head, counterVars, mainVars, historyVars>>

(* reap_worker: w's posts are handed back, its unread broadcasts answered,  *)
(* and with no worker left the counters are zeroed.                         *)
Reaped(w, back) ==
    /\ w \in leaving /\ (thread[w] = "dead" \/ stopping[w])
    /\ leaving' = leaving \ {w}
    /\ inbox' = [inbox EXCEPT ![w] = <<>>]
    /\ outbox' = outbox \o [i \in 1..Count(inbox[w], {"broadcast"})
                                |-> Event(w, "bcack", 0)]
    /\ tally' = [tally EXCEPT ![w] = 0]
    /\ inFlight' = IF registry \cup leaving' = {} THEN 0 ELSE Clamp(inFlight - back)
    /\ broadcastPending' = IF registry \cup leaving' = {} THEN 0 ELSE broadcastPending
    /\ UNCHANGED <<page, registry, threadVars, stopping, head, mainVars, historyVars>>

(* Mutant of Reap: the posts of the worker stay counted.                    *)
ReapKeepsPosts(w) == Reaped(w, 0)

Reap(w) == Reaped(w, tally[w])

(* A navigation of the page drops its objects and its frames' realms; the   *)
(* workers stay.                                                            *)
Navigate ==
    /\ mode = "idle" /\ leaving = {} /\ \E w \in Worker : page[w] = "open"
    /\ page' = [w \in Worker |-> IF page[w] = "open" THEN "shut" ELSE page[w]]
    /\ UNCHANGED <<registry, threadVars, stopping, inbox, outbox, head, counterVars, mainVars,
                   leaving, historyVars>>

(* reset!, reset_workers: every worker is told to stop ...                  *)
ResetBegins ==
    /\ mode = "idle" /\ leaving = {} /\ registry # {}
    /\ mode' = "reset"
    /\ page' = [w \in Worker |-> IF page[w] = "open" THEN "shut" ELSE page[w]]
    /\ inbox' = [w \in Worker |-> IF w \in registry THEN Terminating(w) ELSE inbox[w]]
    /\ stopping' = [w \in Worker |-> stopping[w] \/ w \in registry]
    /\ UNCHANGED <<registry, threadVars, outbox, head, counterVars, batch, handler, leaving,
                   historyVars>>

(* ... waited for within a budget, and forgotten; the counts of the threads *)
(* (initializing, busy) are theirs to release.                              *)
ResetEnds ==
    /\ mode = "reset" /\ mode' = "idle"
    /\ registry' = {} /\ outbox' = <<>> /\ head' = <<>>
    /\ inFlight' = 0 /\ broadcastPending' = 0 /\ dropped' = 0
    /\ tally' = [w \in Worker |-> 0]
    /\ UNCHANGED <<page, threadVars, stopping, inbox, batch, handler, leaving, posted, handled,
                   sent, given, broadcasts>>

-----------------------------------------------------------------------------
(* The outbox: deliver_worker_messages and its callers.                    *)

(* The workers' own broadcasts are fanned out, the acks and the worker      *)
(* messages release what they answer, and the messages go to the page.      *)
Drained(events, acks) ==
    /\ mode = "idle" /\ leaving = {} /\ events # <<>>
    /\ outbox' = <<>> /\ head' = <<>>
    /\ LET msgs == Places(events, Messages)
           Answers(w) == {i \in msgs : events[i].handle = w}
           Hears(w) == {i \in Places(events, {"broadcast"}) :
                           w \in Listeners({events[i].handle})}
           heard == UNION {{w} \X Hears(w) : w \in Worker}
       IN /\ inbox' = [w \in Worker |-> inbox[w] \o [i \in 1..Cardinality(Hears(w)) |->
                                                        Event(w, "broadcast", 0)]]
          /\ broadcastPending' = Clamp(broadcastPending + Cardinality(heard) - acks)
          /\ inFlight' = Clamp(inFlight - Cardinality(msgs))
          /\ tally' = [w \in Worker |-> IF w \in registry
                                        THEN Clamp(tally[w] - Cardinality(Answers(w)))
                                        ELSE tally[w]]
          /\ IF msgs = {} THEN batch' = <<>> /\ mode' = "idle"
                          ELSE batch' = events /\ mode' = "deliver"
    /\ UNCHANGED <<page, registry, threadVars, stopping, handler, leaving, historyVars>>

Deliver == Drained(head \o outbox, Count(head \o outbox, {"bcack"}))

(* __csim_deliverWorkerMessages, called with the next message of what was   *)
(* drained, one event a call: byHandle decides whether the page hears.      *)
DeliverOne ==
    /\ mode = "deliver" /\ leaving = {}
    /\ \E i \in Places(batch, Messages) :
          /\ Places(batch, Messages) \cap 1 .. i - 1 = {}
          /\ LET e == batch[i] IN
             /\ handler' = (page[e.handle] = "open")
             /\ given' = IF handler' THEN [given EXCEPT ![e.handle] = e.n] ELSE given
          /\ batch' = SubSeq(batch, i + 1, Len(batch))
    /\ UNCHANGED <<page, registry, threadVars, stopping, inbox, outbox, head, counterVars, mode,
                   leaving, posted, handled, sent, broadcasts, dropped>>

DeliveryEnds ==
    /\ mode = "deliver" /\ leaving = {} /\ Places(batch, Messages) = {}
    /\ mode' = "idle" /\ handler' = FALSE /\ batch' = <<>>
    /\ UNCHANGED <<page, registry, threadVars, stopping, inbox, outbox, head, counterVars,
                   leaving, historyVars>>

(* Mutant of Park: the event goes back on the tail of the outbox.           *)
ParkOnTail ==
    /\ mode = "idle" /\ leaving = {} /\ broadcastPending > 0 /\ head = <<>> /\ outbox # <<>>
    /\ outbox' = Append(Tail(outbox), Head(outbox))
    /\ UNCHANGED <<page, registry, threadVars, stopping, inbox, head, counterVars, mainVars,
                   leaving, historyVars>>

(* park_worker_reply: settle waits for a reply and keeps the first event.   *)
Park ==
    /\ mode = "idle" /\ leaving = {} /\ broadcastPending > 0 /\ head = <<>> /\ outbox # <<>>
    /\ head' = <<Head(outbox)>> /\ outbox' = Tail(outbox)
    /\ UNCHANGED <<page, registry, threadVars, stopping, inbox, counterVars, mainVars, leaving,
                   historyVars>>

-----------------------------------------------------------------------------
(* The worker threads.                                                     *)

(* The worker's script runs, as a timer in the poll loop too.               *)
InScript(w) ==
    \/ thread[w] \in {"boot", "post", "broadcast"}
    \/ thread[w] = "poll" /\ hand[w] = <<>> /\ ~stopping[w]

ScriptPosts(w) ==
    /\ InScript(w) /\ sent[w] < MaxSends[w] /\ TrafficLeft
    /\ Says(w, "message", outbox)
    /\ UNCHANGED <<page, registry, threadVars, stopping, inbox, head, counterVars, mainVars,
                   leaving, posted, handled, given, broadcasts, dropped>>

ScriptBroadcasts(w) ==
    /\ InScript(w) /\ broadcasts < MaxBroadcasts /\ TrafficLeft
    /\ broadcasts' = broadcasts + 1
    /\ outbox' = Append(outbox, Event(w, "broadcast", 0))
    /\ UNCHANGED <<page, registry, threadVars, stopping, inbox, head, counterVars, mainVars,
                   leaving, posted, handled, sent, given, dropped>>

(* What no step of the loop touches: it is the main thread's.               *)
mainThreadVars == <<page, registry, stopping, head, counterVars, mainVars, leaving, posted, given,
                    broadcasts>>

(* The thread goes on in one of these states.                               *)
Goes(w, states) == \E to \in states : thread' = [thread EXCEPT ![w] = to]

(* After a script: on with the loop, or out of it after self.close().       *)
Afterwards == {"poll", "ends"}

(* The initial script returns, release_init.                                *)
BootReturns(w) ==
    /\ thread[w] = "boot" /\ Goes(w, Afterwards)
    /\ initializing' = initializing - 1 /\ holds' = [holds EXCEPT ![w] = @ \ {"init"}]
    /\ UNCHANGED <<mainThreadVars, hand, busy, inbox, outbox, handled, sent, dropped>>

(* The loop pops the next message.                                          *)
Pull(w) ==
    /\ thread[w] = "poll" /\ hand[w] = <<>> /\ inbox[w] # <<>>
    /\ hand' = [hand EXCEPT ![w] = <<Head(inbox[w])>>]
    /\ inbox' = [inbox EXCEPT ![w] = Tail(@)]
    /\ UNCHANGED <<mainThreadVars, thread, holds, initializing, busy, outbox, handled, sent,
                   dropped>>

(* The message in hand goes to its handler; a post is counted first.        *)
Taken(w) ==
    /\ hand[w] # <<>> /\ hand' = [hand EXCEPT ![w] = <<>>]
    /\ LET msg == Head(hand[w]) IN
       /\ msg.kind # "terminate" /\ Goes(w, {msg.kind})
       /\ IF msg.kind = "post"
          THEN /\ busy' = busy + 1 /\ holds' = [holds EXCEPT ![w] = @ \cup {"busy"}]
               /\ handled' = [handled EXCEPT ![w] = msg.n]
          ELSE UNCHANGED <<busy, holds, handled>>
    /\ UNCHANGED <<mainThreadVars, initializing, inbox, outbox, sent, dropped>>

(* Mutant of Take: the stop is not checked after the pop.                   *)
TakeUnchecked(w) == Taken(w)

Take(w) == ~stopping[w] /\ Taken(w)

(* Mutant of PostReturns: busy_held stays set.                              *)
PostReturnsHolding(w) ==
    /\ thread[w] = "post" /\ Goes(w, Afterwards)
    /\ busy' = busy - 1
    /\ UNCHANGED <<mainThreadVars, hand, holds, initializing, inbox, outbox, handled, sent,
                   dropped>>

(* The handler of a post has run to quiescence.                             *)
PostReturns(w) ==
    /\ thread[w] = "post" /\ Goes(w, Afterwards)
    /\ busy' = busy - 1 /\ holds' = [holds EXCEPT ![w] = @ \ {"busy"}]
    /\ UNCHANGED <<mainThreadVars, hand, initializing, inbox, outbox, handled, sent, dropped>>

(* The ack of a broadcast is posted under `ensure`.                         *)
Acked(w) == IF thread[w] = "broadcast" THEN Append(outbox, Event(w, "bcack", 0)) ELSE outbox

(* The handler of a broadcast returns.                                      *)
BroadcastReturns(w) ==
    /\ thread[w] = "broadcast" /\ Goes(w, Afterwards) /\ outbox' = Acked(w)
    /\ UNCHANGED <<mainThreadVars, hand, holds, initializing, busy, inbox, handled, sent, dropped>>

(* A timer of the poll loop has called self.close().                        *)
Closes(w) ==
    /\ thread[w] = "poll" /\ InScript(w) /\ Goes(w, {"ends"})
    /\ UNCHANGED <<mainThreadVars, hand, holds, initializing, busy, inbox, outbox, handled, sent,
                   dropped>>

(* It sees that it is to stop, with or without a message that it then       *)
(* drops, or the stop, or a kill, ends the script it runs.                  *)
Leaves(w) ==
    /\ thread[w] \notin {"none", "ends", "dead"}
    /\ stopping[w] \/ Places(hand[w], {"terminate"}) # {}
    /\ Goes(w, {"ends"}) /\ hand' = [hand EXCEPT ![w] = <<>>]
    /\ outbox' = Acked(w) /\ dropped' = dropped + Count(hand[w], {"broadcast"})
    /\ UNCHANGED <<mainThreadVars, holds, initializing, busy, inbox, handled, sent>>

(* Mutant of Raises: the ack is posted only when the handler returns.       *)
RaisesUnacked(w) ==
    /\ InScript(w) /\ ~stopping[w]
    /\ Goes(w, {"ends"}) /\ Says(w, "__error", outbox)
    /\ UNCHANGED <<mainThreadVars, hand, holds, initializing, busy, inbox, handled, dropped>>

(* The script raises: an error event, whatever it was doing.                *)
Raises(w) ==
    /\ InScript(w) /\ ~stopping[w]
    /\ Goes(w, {"ends"}) /\ Says(w, "__error", Acked(w))
    /\ UNCHANGED <<mainThreadVars, hand, holds, initializing, busy, inbox, handled, dropped>>

(* The thread's `ensure` gives up what it still holds.                      *)
Ends(w) ==
    /\ thread[w] = "ends" /\ Goes(w, {"dead"}) /\ holds' = [holds EXCEPT ![w] = {}]
    /\ busy' = IF "busy" \in holds[w] THEN busy - 1 ELSE busy
    /\ initializing' = IF "init" \in holds[w] THEN initializing - 1 ELSE initializing
    /\ UNCHANGED <<mainThreadVars, hand, inbox, outbox, handled, sent, dropped>>

Page == PageBroadcasts \/ FrameGone \/ Navigate \/ ResetBegins
        \/ \E w \in Worker : Spawn(w) \/ SpawnFails(w) \/ PostMessage(w) \/ Terminate(w)
Main == Deliver \/ DeliverOne \/ DeliveryEnds \/ ResetEnds
        \/ \E w \in Worker : GraceIsOver(w) \/ Reap(w)
Thread(w) == ScriptPosts(w) \/ ScriptBroadcasts(w) \/ Raises(w)
             \/ BootReturns(w) \/ PostReturns(w) \/ BroadcastReturns(w) \/ Closes(w)
             \/ Pull(w) \/ Take(w) \/ Leaves(w) \/ Ends(w)

Next == Page \/ Main \/ Park \/ \E w \in Worker : Thread(w)

Spec == Init /\ [][Next]_vars

(* A driver that keeps settling; nothing is assumed of the threads.         *)
FairSpec == Spec /\ WF_vars(Main)

-----------------------------------------------------------------------------
Kinds == {"post", "message", "broadcast", "bcack", "__error", "terminate"}
Events == [handle : Worker, kind : Kinds, n : Nat]

TypeOK ==
    /\ page \in [Worker -> {"new", "open", "shut"}]
    /\ registry \subseteq Worker /\ leaving \subseteq Worker
    /\ thread \in [Worker -> {"none", "boot", "poll", "post", "broadcast", "ends",
                            "dead"}]
    /\ hand \in [Worker -> Seq(Events)] /\ \A w \in Worker : Len(hand[w]) <= 1
    /\ holds \in [Worker -> SUBSET {"init", "busy"}]
    /\ stopping \in [Worker -> BOOLEAN]
    /\ inbox \in [Worker -> Seq(Events)] /\ outbox \in Seq(Events)
    /\ head \in Seq(Events) /\ Len(head) <= 1
    /\ inFlight \in Nat /\ tally \in [Worker -> Nat] /\ broadcastPending \in Nat
    /\ initializing \in Nat /\ busy \in Nat
    /\ mode \in {"idle", "deliver", "reset"} /\ batch \in Seq(Events) /\ handler \in BOOLEAN
    /\ posted \in [Worker -> Nat] /\ handled \in [Worker -> Nat]
    /\ sent \in [Worker -> Nat] /\ given \in [Worker -> Nat]
    /\ broadcasts \in Nat /\ dropped \in Nat

In(state) == {w \in Worker : thread[w] = state}

(* @worker_initializing and @worker_busy count every thread that boots and   *)
(* every one that handles a post, and beyond those no more than one count    *)
(* for a thread that has left its script and is in its `ensure`: however     *)
(* scripts end (a return, a raise, close(), a stop, a kill), and across a    *)
(* reset that leaves a thread running, worker_pending? neither sticks at     *)
(* true nor loses a worker at work.  A message popped and not yet counted is *)
(* outside it: no counter of the code covers that window.                    *)
Booting == Cardinality(In("boot"))
Handling == Cardinality(In("post"))
WorkCounted ==
    /\ initializing >= Booting /\ busy >= Handling
    /\ initializing + busy <= Booting + Handling + Cardinality(In("ends"))

(* Every post that @worker_in_flight waits an answer for is owed by a worker *)
(* that is still there: one that goes hands back what it holds, so that no   *)
(* pending count outlives the worker it counts.                              *)
Owed == UNION {{w} \X (1 .. tally[w]) : w \in registry \cup leaving}
InFlightOwed == inFlight <= Cardinality(Owed)

Unread == UNION {{w} \X Places(inbox[w], {"broadcast"}) : w \in Worker}
Carrying == {w \in Worker : thread[w] = "broadcast" \/ Places(hand[w], {"broadcast"}) # {}}

(* A broadcast the main thread waits an ack for is in an inbox, in a         *)
(* thread's hand, in a handler, or its ack is on the way; only a thread that *)
(* was told to stop between its pull and its check loses one for good.       *)
AcksOnlyLostToStops ==
    broadcastPending <= Cardinality(Unread) + Cardinality(Carrying)
                        + Count(head \o outbox, {"bcack"}) + dropped

(* Each Worker object hears its worker's messages in order, each once, none  *)
(* after terminate() or the end of its document, whatever is parked, in the  *)
(* middle of a delivery or late; and while it is there, and the driver keeps *)
(* settling, it hears all of them.                                           *)
ToPage == INSTANCE Mailbox WITH Key <- Worker, state <- page, posted <- sent, taken <- given
PageHearsAll == ToPage!FairSpec

(* A worker handles the page's posts in order, each once, and none after     *)
(* terminate() has returned, its frame has gone or the session was reset.    *)
Receiver == [w \in Worker |-> IF w \in registry \cup leaving THEN "open"
                              ELSE IF thread[w] = "none" THEN "new" ELSE "shut"]
ToWorker == INSTANCE Mailbox WITH Key <- Worker, state <- Receiver, taken <- handled
WorkerHearsInOrder == ToWorker!Spec
=============================================================================
