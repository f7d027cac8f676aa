------------------------------ MODULE EventLoop ------------------------------
(***************************************************************************)
(* The virtual-clock event loop of js/src/timers.js, as the Ruby driver    *)
(* drives it: one __runLoopStep per poll, which runs the tasks that come   *)
(* due, one rendering update, and the loops of the child realms (iframes   *)
(* and same-isolate auxiliary windows).                                    *)
(*                                                                         *)
(* Every realm has its own timers Map, rAF queue and virtual clock.  Only  *)
(* differences of clock values matter to the loop, so a timer carries      *)
(* `wait`, which is due - virtualNow, and advancing a realm's clock by d   *)
(* lowers every wait of that realm by d.  The Map iterates in insertion    *)
(* order, so timers[r] is a sequence and a timer's id is its place in it.  *)
(* A page script is modelled by the host operations it may perform while   *)
(* it runs: any finite number of them, in any order.                       *)
(***************************************************************************)
EXTENDS Integers, Sequences, FiniteSets

CONSTANTS
    Realm,        \* context ids
    Main,         \* the driver's main realm, the one __runLoopStep is called on
    NoRealm,      \* the current realm when no step is running
    Windows,      \* realms built by create_window_realm: top === self
    Handler,      \* timer callbacks, as the properties tell them apart
    NoTask,       \* the handler of a step that is not running a task
    Delay,        \* values of toTimerDelay(ms) for setTimeout
    Period,       \* max(1, toTimerDelay(ms)) for setInterval
    Budget,       \* values of maxMs in a __runLoopStep call
    MaxIter,      \* values of maxIter in a __runLoopStep call
    YieldModes,   \* values of yieldOnGen
    CanWrite,     \* <<s, d>>: scripts of realm s write the document of realm d
    CanObserve,   \* realms whose page uses IntersectionObserver
    MaxTimers,    \* bound: timers pending at once in one realm
    MaxRafs       \* bound: animation frame requests queued at once in one realm

ASSUME RealmsAssumption ==
    /\ Main \in Realm
    /\ NoRealm \notin Realm
    /\ Windows \subseteq Realm \ {Main}
    /\ CanWrite \subseteq Realm \X Realm
    /\ CanObserve \subseteq Realm

ASSUME TimesAssumption ==
    /\ Delay \subseteq Nat
    /\ Period \subseteq Nat \ {0}
    /\ Budget \subseteq Nat
    /\ MaxIter \subseteq Nat \ {0}
    /\ YieldModes \subseteq BOOLEAN
    /\ MaxTimers \in Nat
    /\ MaxRafs \in Nat

Phase == {"idle", "flush", "pick", "task", "frames", "frame",
          "observers", "pin", "drain"}

(* wait = due - virtualNow; period = 0 for a timeout. *)
Timer == [handler : Handler, wait : Int, period : Nat]

(* The locals of one runLoopStepLocal / __runLoopStep activation: `left` is *)
(* limit - virtualNow, `changed` is currentSettleGen() # startGen, `batch`  *)
(* is the spliced rAF frame, `visited` the children the current             *)
(* drainChildRealms loop has reached.                                       *)
Step == [left : Nat, maxMs : Nat, maxIter : Nat, iters : Nat, yield : BOOLEAN,
         yielded : BOOLEAN, visited : SUBSET Realm, batch : Seq(BOOLEAN),
         task : Handler \cup {NoTask},
         fired : BOOLEAN, dirtied : BOOLEAN, changed : BOOLEAN]

(* runLoopStepLocal's prologue. *)
Entered(maxMs, maxIter, yield) ==
    [left |-> maxMs, maxMs |-> maxMs, maxIter |-> maxIter, iters |-> 0, yield |-> yield,
     yielded |-> FALSE, visited |-> {}, batch |-> <<>>, task |-> NoTask,
     fired |-> FALSE, dirtied |-> FALSE, changed |-> FALSE]

NoStep == Entered(0, 0, FALSE)

VARIABLES
    live,           \* realms that exist
    unborn,         \* context ids not handed out yet
    path,           \* path[r]: r and the realms above it in the step tree
    childIds,       \* __csimChildRealmIds, in insertion order
    timers,         \* the timers Map of each realm
    rafs,           \* rafCallbacks; an entry is TRUE once its id is in rafCancelled
    observing,      \* realms with activeIOs
    ioPending,      \* realms with ioNeedsUpdate
    timersActive,   \* Browser @timers_active, set through __setTimersActive
    current,        \* the realm whose step is on top of the JS stack
    phase,          \* where each realm's step is
    step,           \* the locals of each realm's step
    findCacheDirty, \* Browser @find_cache_dirty
    findCacheOld    \* history: a document changed since the cached find ran

realmVars == <<live, unborn, path, childIds>>
queueVars == <<timers, rafs, observing, ioPending>>
cacheVars == <<findCacheDirty, findCacheOld>>
vars == <<realmVars, queueVars, timersActive, current, phase, step, cacheVars>>

----------------------------------------------------------------------------
(* Pending work and the process-wide flag. *)

(* pendingEmpty() of realm r, negated, over given queues. *)
Pending(r, ts, rs, io) == ts[r] # <<>> \/ rs[r] # <<>> \/ r \in io

(* globalThis.top of realm r: a window realm is its own top; a frame        *)
(* inherits the top of the realm that owns its iframe.                      *)
Top(r) == IF path[r] \cap Windows = {} THEN Main
          ELSE CHOOSE w \in path[r] \cap Windows : TRUE

(* subtreePending() of realm t. *)
SubtreePending(t, ts, rs, io) ==
    \E r \in live : t \in path[r] /\ Pending(r, ts, rs, io)

(* Mutant of MaybeClear: the realm looks at its own queues only.            *)
MaybeClearOwnQueues(r, ts, rs, io) == timersActive /\ Pending(r, ts, rs, io)

(* maybeClearTimersActive() called in realm r: the new value of the flag. *)
MaybeClear(r, ts, rs, io) ==
    IF Pending(r, ts, rs, io) \/ SubtreePending(Top(r), ts, rs, io)
    THEN timersActive
    ELSE FALSE

(* Scheduling in r raises the flag on r's idle -> active transition only. *)
WakeOnIdle(r) == timersActive \/ ~Pending(r, timers, rafs, ioPending)

DropAt(s, i) == SubSeq(s, 1, i - 1) \o SubSeq(s, i + 1, Len(s))

(* The timers of one realm once its clock has advanced by d. *)
Advance(ts, d) == [i \in DOMAIN ts |-> [ts[i] EXCEPT !.wait = @ - d]]

(* Mutant of IsNext: `<=`, the last of the lowest due.                      *)
IsNextLast(ts, i) ==
    \A j \in DOMAIN ts :
        ts[i].wait < ts[j].wait \/ (ts[i].wait = ts[j].wait /\ i >= j)

(* The Map scan with a strict `<`: the first of the lowest due. *)
IsNext(ts, i) ==
    \A j \in DOMAIN ts :
        ts[i].wait < ts[j].wait \/ (ts[i].wait = ts[j].wait /\ i <= j)

HasDueTimer(r) == \E i \in DOMAIN timers[r] : timers[r][i].wait <= 0

----------------------------------------------------------------------------
Init ==
    /\ live = {Main}
    /\ unborn = Realm \ {Main}
    /\ path = [r \in Realm |-> {r}]
    /\ childIds = [r \in Realm |-> <<>>]
    /\ timers = [r \in Realm |-> <<>>]
    /\ rafs = [r \in Realm |-> <<>>]
    /\ observing = {}
    /\ ioPending = {}
    /\ timersActive = FALSE
    /\ current = NoRealm
    /\ phase = [r \in Realm |-> "idle"]
    /\ step = [r \in Realm |-> NoStep]
    /\ findCacheDirty = TRUE
    /\ findCacheOld = TRUE

----------------------------------------------------------------------------
(* What page scripts do.  They run as a task, an animation frame callback   *)
(* or an observer callback of the realm that is stepping, or, between       *)
(* steps, from the driver (an action's event handlers, execute_script).     *)

ScriptRuns ==
    current # NoRealm => phase[current] \in {"task", "frame", "observers"}

loopVars == <<current, phase, step>>

(* setTimeout / setInterval in realm r, by its own script or by one that    *)
(* reaches r's window (a cross-realm postMessage queues its task this way). *)
SetTimer(r, h, delay, period) ==
    /\ ScriptRuns
    /\ r \in live
    /\ Len(timers[r]) < MaxTimers
    /\ timers' = [timers EXCEPT ![r] =
                    Append(@, [handler |-> h, wait |-> delay, period |-> period])]
    /\ timersActive' = WakeOnIdle(r)
    /\ UNCHANGED <<realmVars, rafs, observing, ioPending, loopVars, cacheVars>>

SetTimeout(r) == \E h \in Handler, d \in Delay : SetTimer(r, h, d, 0)

SetInterval(r) == \E h \in Handler, p \in Period : SetTimer(r, h, p, p)

(* clearTimeout / clearInterval of a pending timer; of any other id it does *)
(* nothing.                                                                 *)
ClearTimer(r) ==
    /\ ScriptRuns
    /\ r \in live
    /\ \E i \in DOMAIN timers[r] :
          timers' = [timers EXCEPT ![r] = DropAt(@, i)]
    /\ timersActive' = MaybeClear(r, timers', rafs, ioPending)
    /\ UNCHANGED <<realmVars, rafs, observing, ioPending, loopVars, cacheVars>>

RequestAnimationFrame(r) ==
    /\ ScriptRuns
    /\ r \in live
    /\ Len(rafs[r]) < MaxRafs
    /\ rafs' = [rafs EXCEPT ![r] = Append(@, FALSE)]
    /\ timersActive' = WakeOnIdle(r)
    /\ UNCHANGED <<realmVars, timers, observing, ioPending, loopVars, cacheVars>>

(* Marks the id; the queue keeps the entry.  The id may be queued, or in    *)
(* the frame that is being run.                                             *)
CancelAnimationFrame(r) ==
    /\ ScriptRuns
    /\ r \in live
    /\ \/ \E i \in DOMAIN rafs[r] :
             /\ rafs' = [rafs EXCEPT ![r][i] = TRUE]
             /\ UNCHANGED step
       \/ \E i \in DOMAIN step[r].batch :
             /\ step' = [step EXCEPT ![r].batch[i] = TRUE]
             /\ UNCHANGED rafs
    /\ UNCHANGED <<realmVars, timers, observing, ioPending, timersActive, current,
                   phase, cacheVars>>

(* IntersectionObserver.observe: requestIntersectionUpdate + wakeLoop. *)
Observe(r) ==
    /\ ScriptRuns
    /\ r \in live \cap CanObserve
    /\ observing' = observing \cup {r}
    /\ ioPending' = ioPending \cup {r}
    /\ timersActive' = (timersActive \/ r \notin ioPending)
    /\ UNCHANGED <<realmVars, timers, rafs, loopVars, cacheVars>>

(* The last observer disconnects. *)
Disconnect(r) ==
    /\ ScriptRuns
    /\ r \in observing
    /\ observing' = observing \ {r}
    /\ ioPending' = ioPending \ {r}
    /\ UNCHANGED <<realmVars, timers, rafs, timersActive, loopVars, cacheVars>>

(* A DOM change in r's document: bumpSettleGen, which also asks for an      *)
(* intersection update.  A change made by a driver operation (no step       *)
(* running) is followed by that operation's invalidate_find_cache.          *)
Mutate(r) ==
    /\ ScriptRuns
    /\ r \in live
    /\ IF current = NoRealm THEN <<Main, r>> \in CanWrite \/ <<r, r>> \in CanWrite
                            ELSE <<current, r>> \in CanWrite
    /\ step' = [step EXCEPT ![r].changed = phase[r] # "idle"]
    /\ ioPending' = IF r \in observing THEN ioPending \cup {r} ELSE ioPending
    /\ timersActive' = (timersActive \/ (r \in observing /\ r \notin ioPending))
    /\ findCacheOld' = TRUE
    /\ findCacheDirty' = (findCacheDirty \/ current = NoRealm)
    /\ UNCHANGED <<realmVars, timers, rafs, observing, current, phase>>

(* An iframe of p gets its realm, or a script opens a same-isolate window;  *)
(* a window realm is always registered with the main realm.                 *)
AttachRealm(p, c) ==
    /\ ScriptRuns
    /\ p \in live
    /\ c \in unborn
    /\ c \in Windows => p = Main
    /\ live' = live \cup {c}
    /\ unborn' = unborn \ {c}
    /\ path' = [path EXCEPT ![c] = path[p] \cup {c}]
    /\ childIds' = [childIds EXCEPT ![p] = Append(@, c)]
    /\ UNCHANGED <<queueVars, timersActive, loopVars, cacheVars>>

(* An iframe is removed or navigated away from: its realm and every realm   *)
(* below it are disposed, their queues with them.  The flag is left alone.  *)
DetachRealm(c) ==
    LET gone == {r \in live : c \in path[r]} IN
    /\ ScriptRuns
    /\ c \in live \ {Main}
    /\ \A r \in gone : phase[r] = "idle"
    /\ live' = live \ gone
    /\ \E p \in live \ gone : \E i \in DOMAIN childIds[p] :
          /\ childIds[p][i] = c
          /\ childIds' = [r \in Realm |-> IF r \in gone THEN <<>>
                                        ELSE IF r = p THEN DropAt(childIds[p], i)
                                        ELSE childIds[r]]
    /\ timers' = [r \in Realm |-> IF r \in gone THEN <<>> ELSE timers[r]]
    /\ rafs' = [r \in Realm |-> IF r \in gone THEN <<>> ELSE rafs[r]]
    /\ observing' = observing \ gone
    /\ ioPending' = ioPending \ gone
    /\ UNCHANGED <<unborn, path, timersActive, loopVars, cacheVars>>

PageScript ==
    \/ \E r \in live : SetTimeout(r)
    \/ \E r \in live : SetInterval(r)
    \/ \E r \in live : ClearTimer(r)
    \/ \E r \in live : RequestAnimationFrame(r)
    \/ \E r \in live : CancelAnimationFrame(r)
    \/ \E r \in live : Observe(r)
    \/ \E r \in live : Disconnect(r)
    \/ \E r \in live : Mutate(r)
    \/ \E p \in live, c \in unborn : AttachRealm(p, c)
    \/ \E c \in live : DetachRealm(c)

----------------------------------------------------------------------------
(* The driver. *)

(* run_loop_step from tick_real_time, settle or run_event_loop_frame.  The  *)
(* callers step without the flag too, when an asynchronous channel has      *)
(* traffic.                                                                 *)
RunLoopStep(maxMs, maxIter, yield) ==
    /\ current = NoRealm
    /\ current' = Main
    /\ phase' = [phase EXCEPT ![Main] = "flush"]
    /\ step' = [step EXCEPT ![Main] = Entered(maxMs, maxIter, yield)]
    /\ UNCHANGED <<realmVars, queueVars, timersActive, cacheVars>>

DriverSteps ==
    \E maxMs \in Budget, maxIter \in MaxIter, yield \in YieldModes :
        RunLoopStep(maxMs, maxIter, yield)

(* cached_find with a cache that may not be served: it queries the document. *)
FindQueries ==
    /\ current = NoRealm
    /\ findCacheDirty
    /\ findCacheDirty' = FALSE
    /\ findCacheOld' = FALSE
    /\ UNCHANGED <<realmVars, queueVars, timersActive, loopVars>>

----------------------------------------------------------------------------
(* The step of the current realm r. *)

At(r, p) == current = r /\ phase[r] = p

Goto(r, p) == phase' = [phase EXCEPT ![r] = p]

(* drainChildRealms: c is the next child of the iteration over the Set,     *)
(* which sees children added and removed meanwhile.  With budget 0 (the     *)
(* opening flush always) a child with no due timer is skipped.              *)
NextChild(r, c) ==
    \E i \in DOMAIN childIds[r] :
        /\ childIds[r][i] = c
        /\ c \notin step[r].visited
        /\ \A j \in 1 .. i - 1 : childIds[r][j] \in step[r].visited

ChildrenDone(r) == \A i \in DOMAIN childIds[r] : childIds[r][i] \in step[r].visited

ChildBudget(r) == IF phase[r] = "flush" THEN 0 ELSE step[r].maxMs

SkipChild(r, c) ==
    /\ current = r
    /\ phase[r] \in {"flush", "drain"}
    /\ NextChild(r, c)
    /\ ChildBudget(r) = 0 /\ ~HasDueTimer(c)
    /\ step' = [step EXCEPT ![r].visited = @ \cup {c}]
    /\ UNCHANGED <<realmVars, queueVars, timersActive, current, phase, cacheVars>>

StepChild(r, c) ==
    /\ current = r
    /\ phase[r] \in {"flush", "drain"}
    /\ NextChild(r, c)
    /\ ChildBudget(r) # 0 \/ HasDueTimer(c)
    /\ step' = [step EXCEPT ![r].visited = @ \cup {c},
                            ![c] = Entered(ChildBudget(r), step[r].maxIter, FALSE)]
    /\ current' = c
    /\ phase' = [phase EXCEPT ![c] = "flush"]
    /\ UNCHANGED <<realmVars, queueVars, timersActive, cacheVars>>

FlushDone(r) ==
    /\ At(r, "flush")
    /\ ChildrenDone(r)
    /\ Goto(r, "pick")
    /\ step' = [step EXCEPT ![r].visited = {}]
    /\ UNCHANGED <<realmVars, queueVars, timersActive, current, cacheVars>>

(* Mutant of OutOfIterations: the clock is pinned at the limit all the same. *)
OutOfIterationsPins(r) ==
    /\ At(r, "pick")
    /\ step[r].iters >= step[r].maxIter
    /\ Goto(r, "drain")
    /\ timers' = [timers EXCEPT ![r] = Advance(@, step[r].left)]
    /\ step' = [step EXCEPT ![r].left = 0, ![r].dirtied = @ \/ step[r].changed]
    /\ UNCHANGED <<realmVars, rafs, observing, ioPending, timersActive, current, cacheVars>>

(* iter++ >= maxIter: return at once, with no rendering update, the clock   *)
(* where it is, and the flag as it is.                                      *)
OutOfIterations(r) ==
    /\ At(r, "pick")
    /\ step[r].iters >= step[r].maxIter
    /\ Goto(r, "drain")
    /\ step' = [step EXCEPT ![r].dirtied = @ \/ step[r].changed]
    /\ UNCHANGED <<realmVars, queueVars, timersActive, current, cacheVars>>

(* Mutant of RunTask: a timer due just past the limit still runs.           *)
RunTaskPastLimit(r) ==
    /\ At(r, "pick")
    /\ step[r].iters < step[r].maxIter
    /\ \E i \in DOMAIN timers[r] :
          LET t == timers[r][i]
              d == IF t.wait > 0 THEN t.wait ELSE 0
              moved == Advance(timers[r], d) IN
          /\ IsNext(timers[r], i)
          /\ t.wait <= step[r].left + 1
          /\ timers' = [timers EXCEPT ![r] =
                IF t.period # 0 THEN [moved EXCEPT ![i].wait = t.period]
                                ELSE DropAt(moved, i)]
          /\ step' = [step EXCEPT ![r].left = @ - d, ![r].iters = @ + 1,
                                  ![r].fired = TRUE, ![r].task = t.handler]
    /\ Goto(r, "task")
    /\ UNCHANGED <<realmVars, rafs, observing, ioPending, timersActive, current, cacheVars>>

(* The lowest-due timer runs: the clock moves to its due time, an interval  *)
(* is re-armed in place, a timeout leaves the Map before its handler runs.  *)
RunTask(r) ==
    /\ At(r, "pick")
    /\ step[r].iters < step[r].maxIter
    /\ \E i \in DOMAIN timers[r] :
          LET t == timers[r][i]
              d == IF t.wait > 0 THEN t.wait ELSE 0
              moved == Advance(timers[r], d) IN
          /\ IsNext(timers[r], i)
          /\ t.wait <= step[r].left
          /\ timers' = [timers EXCEPT ![r] =
                IF t.period # 0 THEN [moved EXCEPT ![i].wait = t.period]
                                ELSE DropAt(moved, i)]
          /\ step' = [step EXCEPT ![r].left = @ - d, ![r].iters = @ + 1,
                                  ![r].fired = TRUE, ![r].task = t.handler]
    /\ Goto(r, "task")
    /\ UNCHANGED <<realmVars, rafs, observing, ioPending, timersActive, current,
                   cacheVars>>

(* The handler and its microtask checkpoint are over. *)
TaskDone(r) ==
    /\ At(r, "task")
    /\ IF step[r].yield /\ step[r].changed
       THEN /\ step' = [step EXCEPT ![r].task = NoTask, ![r].yielded = TRUE,
                                    ![r].batch = rafs[r]]
            /\ rafs' = [rafs EXCEPT ![r] = <<>>]
            /\ Goto(r, "frames")
       ELSE /\ step' = [step EXCEPT ![r].task = NoTask]
            /\ Goto(r, "pick")
            /\ UNCHANGED rafs
    /\ UNCHANGED <<realmVars, timers, observing, ioPending, timersActive, current,
                   cacheVars>>

(* Nothing left within the budget: runRenderPhase splices the rAF queue. *)
BeginRender(r) ==
    /\ At(r, "pick")
    /\ step[r].iters < step[r].maxIter
    /\ \A i \in DOMAIN timers[r] : timers[r][i].wait > step[r].left
    /\ step' = [step EXCEPT ![r].batch = rafs[r]]
    /\ rafs' = [rafs EXCEPT ![r] = <<>>]
    /\ Goto(r, "frames")
    /\ UNCHANGED <<realmVars, timers, observing, ioPending, timersActive, current,
                   cacheVars>>

(* Mutant of RunFrame: the queue is not spliced, a frame requested by a     *)
(* callback joins the one that is being run.                                *)
RunFrameOfLiveQueue(r) ==
    LET frames == step[r].batch \o rafs[r] IN
    /\ At(r, "frames")
    /\ frames # <<>>
    /\ step' = [step EXCEPT ![r].batch = Tail(frames)]
    /\ rafs' = [rafs EXCEPT ![r] = <<>>]
    /\ IF Head(frames) THEN UNCHANGED phase ELSE Goto(r, "frame")
    /\ UNCHANGED <<realmVars, timers, observing, ioPending, timersActive, current, cacheVars>>

(* One rAF callback of the spliced frame, unless its id was cancelled. *)
RunFrame(r) ==
    /\ At(r, "frames")
    /\ step[r].batch # <<>>
    /\ step' = [step EXCEPT ![r].batch = Tail(@)]
    /\ IF Head(step[r].batch) THEN UNCHANGED phase ELSE Goto(r, "frame")
    /\ UNCHANGED <<realmVars, queueVars, timersActive, current, cacheVars>>

FrameDone(r) ==
    /\ At(r, "frame")
    /\ Goto(r, "frames")
    /\ UNCHANGED <<realmVars, queueVars, timersActive, current, step, cacheVars>>

(* updateIntersectionObservations: the request is dropped before the        *)
(* callbacks run; a page that observes nothing runs no script here.         *)
UpdateObservations(r) ==
    /\ At(r, "frames")
    /\ step[r].batch = <<>>
    /\ ioPending' = ioPending \ {r}
    /\ Goto(r, IF r \in observing THEN "observers" ELSE "pin")
    /\ UNCHANGED <<realmVars, timers, rafs, observing, timersActive, current, step,
                   cacheVars>>

ObserversDone(r) ==
    /\ At(r, "observers")
    /\ Goto(r, "pin")
    /\ UNCHANGED <<realmVars, queueVars, timersActive, current, step, cacheVars>>

(* Mutant of PinClock: without maybeClearTimersActive.                      *)
PinClockKeepsFlag(r) ==
    LET d == IF step[r].yielded THEN 0 ELSE step[r].left IN
    /\ At(r, "pin")
    /\ timers' = [timers EXCEPT ![r] = Advance(@, d)]
    /\ step' = [step EXCEPT ![r].left = @ - d,
                            ![r].dirtied = @ \/ step[r].changed]
    /\ Goto(r, "drain")
    /\ UNCHANGED <<realmVars, rafs, observing, ioPending, timersActive, current, cacheVars>>

(* End of the rendering update: unless the step yielded, the clock is       *)
(* pinned at the limit; then maybeClearTimersActive.                        *)
PinClock(r) ==
    LET d == IF step[r].yielded THEN 0 ELSE step[r].left IN
    /\ At(r, "pin")
    /\ timers' = [timers EXCEPT ![r] = Advance(@, d)]
    /\ step' = [step EXCEPT ![r].left = @ - d,
                            ![r].dirtied = @ \/ step[r].changed]
    /\ timersActive' = MaybeClear(r, timers', rafs, ioPending)
    /\ Goto(r, "drain")
    /\ UNCHANGED <<realmVars, rafs, observing, ioPending, current, cacheVars>>

(* Mutant of StepReturns: only a task that ran dirties the find cache.      *)
StepReturnsFired(r) ==
    /\ r = Main
    /\ At(r, "drain")
    /\ ChildrenDone(r)
    /\ Goto(r, "idle")
    /\ current' = NoRealm
    /\ step' = [step EXCEPT ![r] = NoStep]
    /\ findCacheDirty' = (findCacheDirty \/ step[r].fired)
    /\ UNCHANGED <<realmVars, queueVars, timersActive, findCacheOld>>

(* __runLoopStep returns: to drainChildRealms in the owner, which folds the *)
(* counts in, or to the driver, which dirties the find cache from them.     *)
StepReturns(r) ==
    /\ r = Main
    /\ At(r, "drain")
    /\ ChildrenDone(r)
    /\ Goto(r, "idle")
    /\ current' = NoRealm
    /\ step' = [step EXCEPT ![r] = NoStep]
    /\ findCacheDirty' = (findCacheDirty \/ step[r].dirtied \/ step[r].fired)
    /\ UNCHANGED <<realmVars, queueVars, timersActive, findCacheOld>>

ChildStepReturns(r, owner) ==
    /\ r # owner
    /\ \E i \in DOMAIN childIds[owner] : childIds[owner][i] = r
    /\ At(r, "drain")
    /\ ChildrenDone(r)
    /\ Goto(r, "idle")
    /\ current' = owner
    /\ step' = [step EXCEPT ![r] = NoStep,
                            ![owner].fired = @ \/ step[r].fired,
                            ![owner].dirtied = @ \/ step[r].dirtied]
    /\ UNCHANGED <<realmVars, queueVars, timersActive, cacheVars>>

LoopStep ==
    \E r \in live :
        \/ \E c \in live : SkipChild(r, c) \/ StepChild(r, c)
        \/ FlushDone(r)   \/ OutOfIterations(r) \/ RunTask(r)
        \/ TaskDone(r)    \/ BeginRender(r) \/ RunFrame(r)        \/ FrameDone(r)
        \/ UpdateObservations(r) \/ ObserversDone(r) \/ PinClock(r)
        \/ StepReturns(r) \/ \E p \in live : ChildStepReturns(r, p)

Next == PageScript \/ DriverSteps \/ FindQueries \/ LoopStep

Spec == Init /\ [][Next]_vars

(* JavaScript runs to completion, and while the flag is up the driver keeps *)
(* polling (find_with_timer_fallback and settle step only then).            *)
FairSpec ==
    /\ Spec
    /\ WF_vars(LoopStep)
    /\ WF_vars(timersActive /\ DriverSteps)

----------------------------------------------------------------------------
(* Properties. *)

TypeOK ==
    /\ live \subseteq Realm
    /\ unborn \subseteq Realm
    /\ path \in [Realm -> SUBSET Realm]
    /\ childIds \in [Realm -> Seq(Realm)]
    /\ timers \in [Realm -> Seq(Timer)]
    /\ rafs \in [Realm -> Seq(BOOLEAN)]
    /\ observing \subseteq Realm
    /\ ioPending \subseteq Realm
    /\ timersActive \in BOOLEAN
    /\ current \in Realm \cup {NoRealm}
    /\ phase \in [Realm -> Phase]
    /\ step \in [Realm -> Step]
    /\ findCacheDirty \in BOOLEAN
    /\ findCacheOld \in BOOLEAN

(* The driver stops stepping when @timers_active is down, so work that is   *)
(* pending in any realm, after any operation of any realm, must keep it up: *)
(* otherwise a timer, an rAF or an observer delivery is stranded.           *)
(* timers.js 57-79: "only when nothing in the WHOLE realm tree (from the    *)
(* top window down) is pending".                                            *)
TimersActiveSound ==
    \A r \in live : Pending(r, timers, rafs, ioPending) => timersActive

(* A timer is never late by more than one step's budget.  (It can be late:  *)
(* the rendering update runs before the clock is pinned at the step's       *)
(* limit, so a timer that an rAF or observer callback schedules is already  *)
(* overdue when the step ends.)  A step that stops early, out of iterations *)
(* or on a settle-generation bump, must not move the clock to its limit.    *)
LatenessBounded ==
    \A r \in Realm : \A i \in DOMAIN timers[r] :
        \E b \in Budget \cup {0} : timers[r][i].wait + b >= 0

(* Only the pin at the end of a step that ran all it could makes a timer    *)
(* overdue; firing a timer, or yielding to the driver, never does.          *)
Overdue(ts) == \E i \in DOMAIN ts : ts[i].wait < 0

OnlyPinMakesLate ==
    [][\A r \in Realm : Overdue(timers'[r]) /\ ~Overdue(timers[r]) =>
          phase[r] = "pin" /\ ~step[r].yielded]_vars

(* Between driver calls, a find answered from the single-slot cache sees    *)
(* the document as it is: whatever a step's tasks, rAF callbacks or         *)
(* observers changed has reached @find_cache_dirty through the step's       *)
(* `dirtied` / `fired` report (tick_real_time 2655-2681).                   *)
FindCacheFresh ==
    current = NoRealm /\ findCacheOld => findCacheDirty

(* A step with no budget (the quiescence turns and the boot drain) runs     *)
(* only what is due now, in every realm: no delayed timer runs or comes     *)
(* closer, so a test still sees the state before it.                        *)
ZeroBudgetHoldsClock ==
    [][LoopStep /\ step[Main].maxMs = 0 =>
          \A r \in Realm : \A i \in DOMAIN timers[r] :
              timers[r][i].wait > 0 =>
                  \E j \in DOMAIN timers'[r] : timers'[r][j] = timers[r][i]]_vars

(* Every __runLoopStep call returns, although tasks keep scheduling due-now *)
(* tasks and animation frames keep requesting frames: maxIter bounds the    *)
(* first, splicing the rAF queue the second.                                *)
StepTerminates == (current # NoRealm) ~> (current = NoRealm)

(* A task that is due, in any realm, runs (or is cleared, or its realm is   *)
(* discarded) while the driver polls: neither the tasks that other tasks    *)
(* keep scheduling nor a re-armed interval overtakes it for ever.           *)
DueTask(r, h) == \E i \in DOMAIN timers[r] : timers[r][i].handler = h /\ timers[r][i].wait <= 0

DueTaskRuns ==
    \A r \in Realm, h \in Handler : DueTask(r, h) ~> (~DueTask(r, h) \/ step[r].task = h)

(* Once nothing is pending the flag comes down, so Driver#wait? does not    *)
(* hold every failing matcher to its full wait time.                        *)
AnyPending == \E r \in live : Pending(r, timers, rafs, ioPending)

IdleFlagDrops == ~AnyPending ~> (AnyPending \/ ~timersActive)
=============================================================================
