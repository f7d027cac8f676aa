# A verification development for capybara-simulated

capybara-simulated is a Capybara driver that runs the browser inside the test process: a Ruby
`Browser` (`lib/capybara/simulated/browser.rb`) owns a V8 or QuickJS runtime in which a
JavaScript bridge (`js/src/*.js`) implements the DOM and the web platform.  There is no wall
clock: the page's timers run on a virtual clock that the driver advances from inside Capybara's
polls.  Paths below are relative to `src/lib/capybara/simulated/`.

The modules here are TLA+ models of the parts of that program where the order of things decides,
checked by TLC on small instances, and proofs, checked by TLAPS, of what the models promise for
every instance.

## The system: inventory

| component | state it keeps | operations | what is hard | what makes it correct |
|---|---|---|---|---|
| Virtual-clock event loop (`js/src/timers.js`, `observers.js`; `run_loop_step`) | per realm: timers Map, rAF queue, pending observations, virtual clock; per process: `@timers_active` | setTimeout / setInterval / clear, rAF / cancel, observe, `__runLoopStep`, attach and dispose of child realms | callbacks change the queues, the documents and the tree of realms in the middle of a step; one flag stands for all realms | no pending work with the flag down; no timer early or unboundedly late; every step returns; every due task runs; a changed document is reported |
| Session history and navigation (`browser.rb`, `js/src/history.js`, `location.js`) | `@history`, `@history_idx`, the slots page scripts stash navigations into, `@flushed_nav_intents` | visit, refresh, go_back / go_forward, pushState / replaceState, history.go, location assign and reload, the flush of the outgoing page | page code runs in the middle of a Ruby navigation, navigations nest through the drain, intents are performed later than they were made | the index names the document in the VM; form state and popstate reach their own document; a discarded page's intents die with it |
| WebSocket channel (`browser.rb`, `js/src/websocket.js`) | reader threads, `@websocket_queue` and its parked head, `@ws_close_pending`, deadline, ready states | open, close, reader events, delivery, the hold on the clock, navigation, reset | real threads against the main thread; handlers in the middle of a delivery; one counter for all connections | events in order and once; one close event; the clock waits for a close handshake, and not for ever |
| Driver polling and find cache (`browser.rb`, `driver.rb`) | `@find_cache*`, grace and idle counters, reads that owe a tick | finds, `settle`, `tick_real_time`, `run_event_loop_frame`, fast-forward | state cached across page code; how far a poll may advance time | finds see the document as it is; a failing matcher does not burn its full wait |
| Frame histories and navigation | per-container history, frame realms | frame navigation, submit, reload, traverse | the frame may be gone when the intent is drained | as for the session history |
| EventSource and hijacked fetches | reader / app threads, queues, handles | open, close, deliver, abort, reset | late completions after an abort or a navigation | one completion per handle, none for a dead page |
| Workers (`browser.rb`, `run_worker` ff.; `js/src/workers.js`) | a thread, an inbox and a tally each; one outbox and parked head; `@worker_in_flight`, `@worker_broadcast_pending`, `@worker_initializing`, `@worker_busy` | new Worker, postMessage, BroadcastChannel, terminate, a frame that goes, navigation, reset, delivery, settle's wait | two VMs and a queue each way; a thread ends in many ways, at any moment; counters kept on many paths | messages in order, once, none after the end; counters agree with what is under way |
| Service workers (`browser.rb`, `js/src/sw-client.js`) | per version: thread, phase, holds; per registration: slots, queued lifecycle steps, a parked activation, early claims | register / update, install, activate, skipWaiting, claim, messages, waitUntil, death of a thread | steps outlive their version; the gate reads flags other threads clear; claims race the markers | slots and states agree; no handover cuts work off; no activation is parked for ever; no phantom version |
| Windows, mailboxes, BroadcastChannel | window table, message queues | open, close, postMessage | delivery to a closed or navigated window | order per sender, no delivery after close |
| Application request threads, keepalive, image loads | thread registries under locks | spawn, drain, reset!, dispose | work that crosses the session boundary | nothing of one test reaches the next |
| Asset and script caches | entries with validators, writer thread | lookup, store, refresh, clear | shared by threads without a lock | no stale entry is served |
| MutationObserver, custom elements, IndexedDB, streams, storage | queues of records, reactions, transactions | the web platform's algorithms | re-entrancy | the platform's ordering rules |
| DOM, parsing, selectors, cascade, layout, painting, canvas, crypto, events, forms | trees and values | pure computation | size | tested by the web-platform tests; not for TLC |
| Tracing, source maps, WebAuthn, Capybara node and driver fronts | logs, tables | reporting and delegation | - | - |

How they interact: the driver calls `run_loop_step` (one `__runLoopStep` of the main realm, which
steps its child realms) from every poll; a step reports `fired` and `dirtied`, from which the find
cache is invalidated; callbacks stash navigations into Ruby slots that the poll drains after the
step; background threads (WebSocket, EventSource, fetches, workers) append to queues the poll
drains between steps; a frame of `run_event_loop_frame` first runs what is due, then may hold the
clock for work under way elsewhere, and only then advances it.

## Modules

| module | models |
|---|---|
| `EventLoop` | `timers.js`, the observation part of `observers.js`, `bumpSettleGen`, realm registration, `run_loop_step`, `cached_find` |
| `EventLoop_proofs` | theorems about `EventLoop`: types, the active flag |
| `EventLoopClock_proofs` | theorems about `EventLoop`: how late a timer can be |
| `EventLoopStack_proofs` | theorems about `EventLoop`: steps inside steps, the find cache, steps with no budget |
| `SessionHistory` | the top-level history and navigation in `browser.rb`, `history.js` |
| `SessionHistory_proofs` | theorems about `SessionHistory`: types, flush, index, form state, popstate |
| `WebSocketChannel` | reader threads, delivery and hold in `browser.rb`, `websocket.js` |
| `WebSocketChannel_proofs` | theorems about `WebSocketChannel`: types, the hold, what a page is told |
| `Workers` | worker threads, inboxes, outbox, counters, and what takes workers down |
| `Workers_proofs` | theorems about `Workers`: types, the threads at work, both refinements of `Mailbox` |
| `WorkersCounts_proofs` | theorems about `Workers`: what is pending is owed |
| `Mailbox` | what one direction of a worker's channel promises (the abstract specification `Workers` implements, twice) |
| `ServiceWorker` | the lifecycle of one service worker registration: `sw-client.js`, the phases of `run_worker`, `sw_may_activate?` |
| `ServiceWorker_proofs` | theorems about `ServiceWorker`: every safety property its run checks |
| `MCEventLoop`, `MCSessionHistory`, `MCWebSocketChannel`, `MCWorkers`, `MCServiceWorker` | constants the configurations cannot write |

Each module also holds, right before the definition it varies, one or more definitions marked
`Mutant of`: the definition with a plausible bug.  They are used by no specification; each one,
put in the place of the original, makes the property that guards against it fail.

### EventLoop

Only differences of clock values matter, so a timer carries `wait` (due - virtualNow) and
advancing a realm's clock by d lowers all its waits by d; the state space is then finite although
time is unbounded.  A realm's step is a small machine (`phase`): the opening flush of due children,
picking the next task, the task, the frame of rAF callbacks, the observer callbacks, pinning the
clock, the drain of the children.  `current` is the realm whose step is on top of the stack; a
child's step runs inside its parent's flush or drain.  While a task, an animation frame or an
observer callback runs, or between steps, page scripts may perform any of the host operations, on
any realm they can reach.  `step[r].changed` is `currentSettleGen() !== startGen`, `dirtied` and
`fired` are what the step returns.  `findCacheOld` is a history variable: some document changed
since the cached find ran.

Abstracted: microtasks (run with their task), the other contributors to the rendering update
(scroll, animation and ResizeObserver steps), `raf` and `gen` in the report, string handlers.

### SessionHistory

`todo` is what is left of the Ruby call that is running: the rest of its body and of the bodies
that called it.  A navigation is the sequence flush, record, fetch, restore; a traversal replaces
record by moving the index and restores form state; a drain is the three slots of the top-level
document in the order of `drain_pending_navigation_once`.  Scripts run where the code runs them: in
the flush of the outgoing page, while the new document boots, and between calls.  A document is a
number; an entry knows the document it belongs to, and `form` is the document its form state was
captured from.  `flushedBy`, `unreturned` and `strays` are history variables.

A request may raise.  Then every body under way is unwound: `Raise` keeps of `todo` only the steps
that are in an `ensure` (`Ensured`), which then run, nested navigations and all, before the
exception reaches the test.  A POST has a body of its own (`NavigatePost`, and `Replay` of an entry
it recorded): its download puts the intents back itself, its redirect goes on as a GET at depth 1
(`redirected`), which puts nothing back, and it has no `ensure`.  Where a navigation ends that way
with intents in the stash (`Strays`), `unreturned` notes it until the next flush or commit.

Abstracted: URLs, the redirects of a GET, fragment navigations, `about:blank`, frames, responses
that come from a service worker, exceptions other than in the request.  `MaxEntries` bounds the
entries that are asked for, `MaxPosts` the form submissions, `MaxStrays` the navigations that bring
no document.

### WebSocketChannel

`pc` is where the main thread is: idle, in a delivery (`batch`, `pos`, and `handler` while the page
has control), or in the last part of `run_event_loop_frame` (hold, park, advance).  Readers act at
any moment.  What the server sends is chosen where the reader reads it.  `pending` and `deadline`
are `@ws_close_pending` and `@ws_close_wait_deadline`; `inFlight` and `unsolicited` are history
variables that keep, by connection, what the counter only adds up.  `Reset` kills the readers
without joining them: a killed reader may still append an event to the queue of the next test
(`Straggles`).

Abstracted: what the page sends, payloads and codes, cookies, pings, bad ports.  `MaxMessages`
bounds the frames a server sends.

### Workers

A worker's `thread` is booting, polling, in the handler of a post or of a broadcast, in the
`ensure` of `run_worker`, or dead; what its script does is free: post, broadcast, close itself,
raise.  A message is popped into `hand` (`Pull`); the check of the stop, the busy count and the
start of the handler are a step of their own (`Take`), and a thread that is to stop goes with what
it has in hand (`Leaves`).  `holds` is the thread's own `initializing` and `busy_held`: the way a
script ends decides what is left in it (`BootReturns` and `PostReturns` give a count up, a raise, a
stop or a kill does not), and `Ends`, the `ensure`, gives up what it finds there.  The main thread is `mode` (idle, in
a delivery with `batch` and `handler`, or in a reset) and, while it waits for workers it takes
down, `leaving`; page scripts run when it is idle and inside handlers.  `Terminate`, `GraceIsOver`
and `Reap` are `worker_terminate` before, during and after its join; `FrameGone` is
`terminate_realm_workers`; `Navigate` drops the page's objects and leaves the threads, as
`rebuild_ctx` does; `ResetBegins` and `ResetEnds` are the two halves of `reset_workers`, between
and after which threads may still run.  A post of a worker is an event on `outbox`; `Park` is
settle's wait, which keeps one event ahead of the queue.  `batch` is what the delivery has left of
the events it drained, of which `DeliverOne` takes the next message: Ruby passes the events of a
batch to the page one by one (`browser.rb:6850-6858`), so their order is that of the outbox.  `posted`, `handled`, `sent`
and `given` number the messages, for the refinement.  What the code adds up event by event (the
messages a drain releases, the listeners of a broadcast, the posts a worker owes) is the size of a
set, `Count`, `heard` or `Owed`: the proofs compare such sets.

`Mailbox` is the abstract specification of one direction: a receiver is opened and shut, messages
are taken in the order posted, each once, none after the receiver was shut.  `PageHearsAll` is
`Mailbox!FairSpec` for the Worker objects of the page, `WorkerHearsInOrder` is `Mailbox!Spec` for
the workers.

Abstracted: payloads and structured clones, nested workers, SharedWorker ports, module loading.
`WorkCounted` begins at the busy count: between the pop of a post and its count
`worker_drive_pending?` (`browser.rb:6885-6890`) reads false, and no counter of the code says
otherwise.  A count and its flag change in one step; in the code they are two statements, and a kill
between them would strand the count or release it twice.  `MaxPosts`, `MaxSends`,
`MaxBroadcasts` and `MaxTraffic` bound the messages.

### ServiceWorker

One registration and its versions.  Each version has a place in the page's state machine (`state`,
`step`), in the host (`live`, `skip`, `extended`, `swMsgs`) and a `thread` with a `phase`.  `queue`
holds the versions whose next lifecycle step is a queued task (`_scheduleLifecycle`), `now` the one
a marker resumes in the middle of a delivery.  A delivery handles what it drained kind by kind, in
the order `Kinds`.  `mirror`, `activating` and `claims` are what Ruby keeps about the scope; `resume` is
the parked activation, which `SkipWaiting` and `TryActivate` wake.

Abstracted: fetch events, `unregister()`, other realms, overlapping scopes, clients that come
later, page listeners that run inside a step or a delivery, what a worker still handles while it is
joined, a thread that raises between the evaluation of its script and its first phase.  The bounds
are the versions and `MaxMessages`.

## Runs

| run | question | bounds |
|---|---|---|
| `event_loop_timers` | clock and flag | main realm and one iframe, 2 timers and 1 rAF per realm, delay 1, period 1, budgets 0 and 2, one task per step, with and without yielding |
| `event_loop_render` | rendering update, find cache, termination, idle flag | 1 timer and 1 rAF per realm, delay 0, an observing iframe, each realm writes its own document, two tasks per step |
| `event_loop_due` | no due task is overtaken for ever | two distinguishable handlers, delay 0, an interval of 1, one task per step |
| `session_history` | index, documents, form state, popstate, flush | 2 entries asked for (the list reaches 3), history.go(-1), one form submission, two navigations that download or raise, arbitrary nesting |
| `websocket_channel` | order, life cycle, hold | two connections, one of which sends a data frame |
| `workers` | order and end of both channels, counters | a worker of the page and one of an iframe; the first gets two messages and posts one; one broadcast, of whoever makes it; two of these messages at most, and an error event of each worker besides |
| `service_worker` | slots, gate, claims, wakeups, dead threads | with and without an active version: two newer ones, of which one claims and may fail or die, and one skips waiting; one document; one message to the active version |
| `event_loop_window`, `event_loop_find_cache`, `session_history_traverse`, `session_history_post`, `websocket_hold` | one statement of the repository each, which the code does not keep (below) | the smallest instance that shows it |

Why the bounds are enough: in the event loop two timers per realm give every order of the Map scan
and of a re-armed interval against another task; one iframe gives the flush, the drain, the skip
and disposal in each phase (the proofs cover any tree); budget 2 against delay 1 gives a timer due
within, at and after the limit; with one task per step a step runs out of iterations, with two it does not.
In the history two entries and a truncation are the least in which an index, a target or a form
state can belong to the wrong entry; the nesting of navigations is not bounded.  For WebSockets
every pair of connections interacts through the shared counter and queue only, so two of them show
what one does to another; a connection's message is there to meet its open, its close and its own
repetition, and the order of two messages rests on the theorem.  Two strays in the history are what it takes for a request to raise in the
restore that another one's exception runs; one POST is replayed, traversed to and left like any
other entry.  For workers every pair interacts through the outbox and the global counts, so two
show what one does to another, one of each sort of owner; a worker that raises, closes itself or
does not start sends an error event besides its message, so order has two events to get wrong.
The broadcast is the one traffic that crosses workers; two messages are enough for each kind to meet
each other one, and its own.  The safety properties are proved without these bounds.  For service
workers three versions are the least in which one is active, one waits and a third supersedes it; which of them claims, skips or
fails is fixed so that each meets each of the slots' races; one client is enough because the gate
and a claim ask the same of each.

Fairness.  JavaScript runs to completion, so a step under way goes on (`WF(LoopStep)`), and while
`@timers_active` is up Capybara's polling calls the driver again, in `find_with_timer_fallback`,
`settle` and the frame pump (`WF(timersActive /\ DriverSteps)`).  Nothing is assumed of page
scripts.  For WebSockets the frame pump goes on, a delivery goes on, and a wall-clock budget runs
out; nothing is assumed of servers.  For workers the driver keeps settling (`WF(Main)`: deliveries go
on, a grace or a reset ends, a worker is reaped); nothing is assumed of the threads, nor of the
page.  `event_loop_timers`, `session_history` and `service_worker` check safety only and use no
fairness.

## Where the code and its comments part

1. `event_loop_window` - a same-isolate window realm is its own `top`, so when it goes idle it
   clears the process-wide flag over its opener's timers (`timers.js:56-78`,
   `v8_runtime.rb:998-1092`).
2. `event_loop_find_cache` - an iframe's callback that writes the parent's document in the final
   drain is in no `dirtied` report (`v8_runtime.rb:402-412`, `timers.js:433-458`).
3. `session_history_traverse` - an absolute traversal target outlives a truncation of the list
   (`browser.rb:2193-2251`).
4. `session_history_post` - what the flush took from a page is kept "for the paths that DON'T commit
   a new document (a `Content-Disposition: attachment` response, a raise mid-fetch): there the page
   lives on, so its `location.href = ...` must still happen" (`browser.rb:12012-12014`), but a POST
   that raises, or that is redirected to a GET that downloads or raises, leaves it in
   `@flushed_nav_intents`: `navigate_post` has no `ensure`, and `navigate` at depth 1 restores nothing
   (`3287-3303`, `11741-11746`).
5. `websocket_hold` - another connection's terminal event releases the hold of a close handshake
   (`browser.rb:4008-4012`, `4053-4056`).

The passing runs exclude exactly these circumstances: `Windows = {}` and no iframe that writes its
parent's document in the event loop runs; `PageDelta = {-1}` in the history run.  There
`FlushBalanced` excuses a stash left by such a submission (`unreturned`) and no other: not that of a
POST that downloads, which puts it back, and not that of a GET.  For WebSockets
`HoldIsOwed` and `HoldLostOnlyToOthers` say what does hold of the counter: it never counts an
ended handshake, and falls short only by terminal events that answered no close().

These the modules show too, without a run of their own (a property above is stated around each):

- replaceState's state is merged into the entry "so a subsequent back to this entry restores the
  same state" (`browser.rb:11210-11212`), but a traversal across documents boots a VM whose
  `history.js` starts with null and never gets it (`2246-2254`; `Commit` sets `jsState` to
  `NoState`).
- An ack of a broadcast is "contractual" (`browser.rb:9286-9290`), but a thread told to stop that
  has just pulled one drops it (`9277-9281`), and one that closes itself leaves those in its inbox
  unread until it is reaped.  `AcksOnlyLostToStops` allows the first and counts the second as
  unread: it says how many acks can be missing, not that none is.
- A reaped worker's tally is handed back although its answer may already be in the outbox, and is
  then released twice (`6573`, `6834-6835`; called benign in `5729-5733`); the same goes for acks
  when the last worker goes.  `InFlightOwed` is therefore an upper bound on the count.
- "A worker is terminated with its context" (`5693-5699`), but a navigation disposes the frames'
  realms without `terminate_realm_workers` (`v8_runtime.rb:446-455`, `577-587`): workers outlive
  the page until `reset!` (`Navigate` of `Workers`).

And these lie outside what `ServiceWorker` models: a registration of a longer scope, or a claim
into it, that takes the last client of the active version posts no wakeup (`5296-5316`,
`5364-5407`), although "every hold-clearing transition posts its own try_activate" (`9318-9323`);
a dead thread with messages left holds its successor until it is reaped; an `unregister()` that
overtakes an `update()` leaks the thread of the new version (`sw-client.js:227-237`, `552-563`); a
raise between the evaluation's outcome and the first phase leaves `installing` for ever
(`9190-9227`, against `9490-9496`).

One observation that is no divergence: without the `@flushing_outgoing_page` guard of `history_go`
the index would still describe the document, because the flush runs before the entry is recorded
and the recorded entry becomes the current one whatever the index was.

## Proofs

Findings are numbered in the order `PROJECT.json` lists them.

`EventLoop_proofs` proves, for any finite or infinite set of realms, delays, periods, budgets and
bounds that satisfies the named assumptions of `EventLoop`:

- `TypeCorrect`: `Spec => []TypeOK`.  The budget left to a step is a natural number, that is, a
  task never takes the clock past the step's limit.
- `FlagSound`: with `Windows = {}`, `Spec => []TimersActiveSound`: the flag is up while any live
  realm has work pending.

`TimersActiveSound` is not inductive by itself.  `MaybeClear` looks at the subtree of `Top(r)`, so
lowering the flag is sound only if that subtree is the whole tree: the inductive invariant
(`FlagInv`) adds that every live realm's path contains the main realm (`MainAbove`) and that a
realm that is not live has no queues (`OnlyLiveHasWork`).  The proof then has one step per
action: scheduling raises the flag on the idle edge, and on the other edge the invariant already
has it up; removal either leaves the flag or finds the whole tree empty.

`EventLoopClock_proofs` proves, under the same assumptions and with any windows:

- `LatenessIsBounded`: `Spec => []LatenessBounded`.
- `OnlyThePinMakesLate`: `Spec => OnlyPinMakesLate`.

Neither follows from the state of the timers alone: that the pin moves the clock by `left` is
harmless only because of when it happens.  The inductive invariant (`ClockInv`) records, for each
realm, that a step under way has one of the driver's budgets and no more than that left, and that
a step that renders without having yielded holds no overdue timer.  `BeginRender` establishes the
second part (everything left lies beyond the limit), scripts keep it (delays are not negative),
and `PinClock` spends it.  `RunTask` needs a lemma of its own: when the clock moves at all, the
timer `IsNext` picks is the lowest, so no other one is overtaken.  TLC checked `ClockInv` with the
constants of `EventLoopTimers.cfg` before it was proved.

`EventLoopStack_proofs` proves, under the same assumptions and with any windows:

- `CacheFresh`: with `CanWrite \subseteq {<<r, r>> : r \in Realm}`, `Spec => []FindCacheFresh`.
- `ZeroBudgetHolds`: `Spec => ZeroBudgetHoldsClock`.

Both are about steps that run inside each other.  `StackInv` says which those are: the path of a
realm in `childIds` is its owner's path and itself (`TreeShape`), and the realms whose step is under
way are the current one and those on its path (`Stacked`), so entering a child never restarts a step
that is under way and a return is to one that is.  With it, `FreshInv` is inductive: while the cache
would be served although a document has changed, some step under way has that change in `dirtied`,
or in `changed` and has yet to fold it in.  The hypothesis is needed: a script that changes another
realm's document after that realm's step has folded in its own changes is finding 2.  For the other
theorem `HoldInv` says that the steps inside a step with no budget have none, which with `ClockInv`
leaves `RunTask` and `PinClock` nothing to advance by.  TLC checked these invariants, with iframes
and with a window, before they were proved.

`SessionHistory_proofs` proves, for any entries asked for, deltas, posts and strays:

- `TypeCorrect`, `FlushAlwaysBalanced` and `FlushedIntentsAlwaysDie`: `Spec => []TypeOK`,
  `[]FlushBalanced`, `[]FlushedIntentsDie`.
- `IndexAlwaysDescribes`, `FormStateAlwaysOwn`, `PopStateAlwaysToOwner`:
  `Spec /\ []IndexInRange =>` `[]IndexDescribesDocument`, `[]FormStateOwn`, `PopStateToOwner`.
- `OnlyCutTargetsLeaveRange`: `Spec /\ [][TargetsKept]_vars => []IndexInRange`, where `TargetsKept`
  says of a step that it does not cut the list short of a traversal target that still waits, in a
  slot, in the slots a flush has saved or stashed, or in a body under way.

What a navigation still owes lies in `todo`, so the invariants are about its shape.  `CallsInv`
says that every body under way still has the steps that must follow the one it is at (`Whole`),
that a request is made for an entry (`RequestOfEntry`), that the flags of a flush and of a restore
are up only while the step that takes them down is to come (`FlagsInv`), and that a stash is either
still to be put back or was left behind by a submission (`StashPending`); `Raise` keeps a
sublist of `todo`, and the lemmas about `Kept` say that it keeps those.  `Owned` adds what ties
list and document: the entry at the index is the document's unless one is awaited, an unbroken run
of pushes belongs to one document, form state to its entry's.  It needs the index to be in the list,
which is false in general: finding 3 is a traversal target that has become stale, and the step after
it indexes past the end.  The three theorems therefore assume `[]IndexInRange` of the behaviour.  By
`OnlyCutTargetsLeaveRange`, whose inductive invariant is `RangeInv`, the behaviours it fails in are
those in which a target was cut off while it waited, however much pages traverse: finding 3 is the
only way out.

`WebSocketChannel_proofs` proves, for any finite set of connections and any number of frames,
`TypeCorrect`, `HoldAlwaysOwed`,
`HoldOnlyLostToOthers`, `LifecycleAlwaysInOrder`, `MessagesAlwaysInOrder` and `EndAlwaysUnderway`,
the six invariants of its run, and `ClockHeldWhenAlone`: the clock passes an unanswered `ws.close()`
only with its budget spent or when a connection that nobody closed has ended, so the circumstance of
finding 5 is the only one.  `FlowInv` says where events may be and that a terminal event of a
connection is its last one, over the concatenation of batch, parked head and queue (`Path`); the
hold needs this because an event that came twice would be counted twice.  `StoryInv` tells, per
connection, what its page was told (`Lived`) and what is ahead of it (`EndAhead`, `OpensAhead`,
`FramesAhead`): a page cannot see a message twice because the frames ahead are numbered from what
it has seen on.

`ServiceWorker_proofs` proves, for any versions, clients and messages, every property of its run:
`TypeCorrect`, `SlotsAlwaysSound`, `ClaimsAlwaysBeforeActivated`, `NeverPhantoms`,
`WakeupAlwaysUnderway`, and the action properties `RedundantForever` and `HandoverAlwaysClean`.  Its
inductive invariant is one conjunction, because each part leans on the next: `Counted` (holds and
messages), `QueueInv` (a step is queued once; a parked one is not), `LifeInv` (states, slots and
steps fit, an evaluation's outcome is posted once), `MarkInv` (phase by phase, which markers are
on their way and what is still to come) and `WakeInv` (if the gate is open, a wakeup is pending).
The last one is what the code's "every hold-clearing transition posts its own try_activate" amounts
to in one registration.

`Workers_proofs` and `WorkersCounts_proofs` prove, for any finite set of workers and any bounds:

- `TypeCorrect` and `WorkAlwaysCounted`.  The invariant `LifeInv` adds when a worker is born, who is
  still to stop, and where the main thread can be.  Its `WorkInv` is about what each thread holds:
  the two counts are the numbers of threads whose own flag is up, a thread that boots or handles a
  post has its flag up, one in its `ensure` may have one up, and no other thread has.
- `WorkerAlwaysHearsInOrder`: `Spec => WorkerHearsInOrder`, that is, `Workers` implements `Mailbox`
  from the page to the workers; and `PageAlwaysHearsInOrder`: `Spec => ToPage!Spec`, the same from the
  workers to the page, without fairness.  Each step is mapped to a step of `Mailbox` or a stutter.
  `MailInv` and `ToldInv` are the invariants they need: what was posted and not yet taken lies in
  the inbox (in batch, parked head and outbox), once, in order and without a gap (`Numbered`); taking
  the first is then taking the next.
- `InFlightAlwaysOwed` and `AcksAlwaysOnlyLostToStops`: the two counters settle waits on are bounded
  by what workers owe.  Both are inductive with `LifeInv`.  A drain changes the inboxes or tallies of
  all workers at once, so the proofs compare sets of pairs of a worker and a thing of it (`Pairs`):
  the lemmas say that what holds of the sizes worker by worker holds of the whole.

Model-checked only, by TLC on the instances above:

- the liveness properties (`StepTerminates`, `DueTaskRuns`, `IdleFlagDrops`, `ClockResumes`) and the
  fairness part of `PageHearsAll`: liveness under fairness is out of the prover's reach.

## Not modelled

What the components table of `PROJECT.json` lists as `not_modelled`, and of the others what their
sections above name as abstracted.

- Layout, cascade, painting, canvas, parsing, selectors, cryptography, source maps: large
  sequential computations whose state does not outlive a call in an interesting way; they are most
  of the code by size.  `bridge.bundle.js` is generated from `js/src`.  Animations compute on reals.
- IndexedDB, custom elements, MutationObserver, streams, storage, XMLHttpRequest: algorithms of the
  web platform in one thread, written after their standards and exercised by the web-platform tests.
- EventSource and hijacked fetches have the queue, parked head and reset of `WebSocketChannel`
  without its handshake; frame histories have the list of `SessionHistory` without its flush.
- Polling heuristics (grace, fast-forward horizon) are wall-clock arithmetic; what they decide,
  when the loop is stepped and by how much, is free in `EventLoop`.
- Windows and their mailboxes, application request threads and the asset caches meet the rest of the
  driver at its boundary (another Browser, the application, the network), where the repository
  states little that could be checked.

## Plan

1. Done: `EventLoop` with its proofs, `SessionHistory` with POSTs and exceptions,
   `WebSocketChannel` with readers that outlive a reset, `Workers` and its refinement of
   `Mailbox`, `ServiceWorker`.
2. Done: the safety properties of `SessionHistory`, `WebSocketChannel`, `ServiceWorker` and
   `Workers`, with the safety of both refinements of `Mailbox`.
3. Done: `FindCacheFresh` and `ZeroBudgetHoldsClock` of `EventLoop`.  Every safety property of a
   passing run is now a theorem.
4. Next: weaker hypotheses.  `FlagSound` with windows (which realms' work the flag still covers),
   and the three theorems of `SessionHistory` up to the first traversal that leaves the list.
