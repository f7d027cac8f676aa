---------------------------- MODULE ServiceWorker ----------------------------
(***************************************************************************)
(* The lifecycle of one service worker registration.  Each version runs on  *)
(* a thread of its own (browser.rb, run_worker), which goes through its     *)
(* phases at its own pace; the page plays the observable states, a task     *)
(* each (sw-client.js, _scheduleLifecycle), and waits where it must for the *)
(* markers the threads post on the shared outbox; the host decides whether  *)
(* a waiting version may take over (sw_may_activate?).                      *)
(*                                                                         *)
(* The main thread delivers what it drained kind by kind, `now` is the      *)
(* continuation it resumes in the middle, and otherwise it runs tasks and   *)
(* page scripts.  Events of one kind come in any order (the outbox has the  *)
(* order they were posted in).  Every client is in the registration's       *)
(* scope and in no other's, and was there from the start.  Left out:        *)
(* fetches, unregister() (and sw_reaped, which only matters after one),     *)
(* other realms, page listeners that run inside a step or a delivery, what  *)
(* a worker still handles while worker_terminate joins it, and a thread     *)
(* that raises between its sw_eval and its first phase.  A flag and the     *)
(* skip event that announces it are one step, and so are a claim and the    *)
(* marker after it.                                                         *)
(***************************************************************************)
EXTENDS Integers, SequencesExt, FiniteSets

CONSTANTS
    Version,       \* worker handles of the versions, handed out in increasing order
    Established,   \* the version that is active at the start, if any is
    Client,        \* documents in scope
    None,          \* no version
    Gone,          \* in place of its version: no such client any more
    Claiming,      \* the versions whose activate handler calls clients.claim()
    Skipping,      \* the versions whose script may call skipWaiting()
    Failing,       \* the versions whose script may fail, or close its worker
    MaxMessages    \* bound: messages of clients to versions, by version

ASSUME ServiceWorkerAssumption ==
    /\ Version \subseteq Nat /\ IsFiniteSet(Version) /\ MaxMessages \in [Version -> Nat]
    /\ Established \in Version /\ Claiming \cup Skipping \cup Failing \subseteq Version
    /\ None \notin Version /\ Gone \notin Version \cup {None}

VARIABLES
    state,          \* of the page's ServiceWorker objects; "new" and "evaluating": none yet
    slot,           \* the registration's _installing, _waiting and _active
    step,           \* the lifecycle step each version is at
    queue,          \* the versions whose step is a queued task, a setTimeout(0) each
    now,            \* the version whose step is resumed right now
    resume,         \* whose activation _resumeActivation continues
    outcome,        \* swInstallOutcome
    phaseDone,      \* swPhaseDone
    live,           \* the versions in @workers
    skip,           \* record[:skip_waiting]
    extended,       \* record[:extended]
    swMsgs,         \* record[:sw_msgs]
    mirror,         \* @sw_registrations[scope]
    activating,     \* @sw_activating_scopes[scope]
    claims,         \* @sw_pending_claims
    controller,     \* @sw_clients: each client's version, or Gone
    parked,         \* @sw_activation_parked
    outbox,         \* @worker_outbox
    batch,          \* what the delivery has left
    thread,         \* "none", "eval", "poll", "message" or "dead"
    phase,          \* sw_phase_pending: "none", "install", "activate" or "done"
    inbox,          \* messages not pulled yet
    exts,           \* __csimSwPendingExts
    posted          \* history: messages to each version

lifeVars == <<state, slot, step, queue, now, resume, outcome, phaseDone>>
holdVars == <<extended, swMsgs, inbox, exts>>
workerVars == <<live, thread, phase, mirror, outbox, holdVars>>
miscVars == <<skip, posted>>
scopeVars == <<activating, claims>>
vars == <<lifeVars, workerVars, controller, miscVars, scopeVars, parked, batch>>

Event(v, kind) == [version |-> v, kind |-> kind]

(* A try-activate is the same whoever posts it, and one stands for many.    *)
Try == Event(None, "try")

(* A new registration, or one with an active version that has been idle.    *)
Init == \E first \in {None, Established} :
    LET Only(x, y) == [v \in Version |-> IF v = first THEN x ELSE y]
        Zero == [v \in Version |-> 0]
    IN  /\ state = Only("activated", "new") /\ step = Only("ended", "none")
        /\ slot = [installing |-> None, waiting |-> None, active |-> first]
        /\ queue = <<>> /\ now = None /\ resume = None
        /\ outcome = [v \in Version |-> "none"] /\ phaseDone = {}
        /\ live = {first} \ {None} /\ mirror = first /\ activating = None /\ claims = {}
        /\ thread = Only("poll", "none") /\ phase = Only("done", "none")
        /\ extended = {} /\ swMsgs = Zero /\ inbox = Zero /\ exts = Zero
        /\ controller = [c \in Client |-> first] /\ skip = {} /\ posted = Zero
        /\ parked = FALSE /\ outbox = {} /\ batch = {}

-----------------------------------------------------------------------------
(* The gate.                                                               *)

(* Mutant: messages not dispatched yet hold nothing.                        *)
ExtendedByPromises(v) == v \in live /\ v \in extended

(* sw_worker_extended?                                                      *)
Extended(v) == v \in live /\ (v \in extended \/ swMsgs[v] > 0)

(* sw_worker_controls_clients?: while v is the scope's mirrored version,    *)
(* every client the scope matches uses it, controlled or not.               *)
ControlsClients(v) ==
    \E c \in Client : controller[c] = v \/ (mirror = v /\ controller[c] # Gone)

(* mayActivate, sw_may_activate?: skipWaiting() bypasses the clients only.   *)
MayActivate(v) ==
    \/ slot.active \in {None, v}
    \/ /\ ~Extended(slot.active)
       /\ (v \in skip /\ v \in live) \/ ~ControlsClients(slot.active)

(* Mutant: a thread ends without a word.                                    *)
NoLastWords(v) == {}

(* What a thread that ends posts for a phase it left open: an unfinished    *)
(* install failed, an unfinished activate still activates.                  *)
LastWords(v) ==
    CASE phase[v] = "install"  -> {Event(v, "install_failed")}
      [] phase[v] = "activate" -> {Event(v, "activated")}
      [] OTHER                 -> {}

(* worker_terminate: the thread has ended, reap_worker drops what the host  *)
(* keeps about it and wakes whoever its holds kept waiting.                 *)
Terminates(w) ==
    IF w \notin live THEN UNCHANGED workerVars
    ELSE /\ live' = live \ {w} /\ thread' = [thread EXCEPT ![w] = "dead"]
         /\ extended' = extended \ {w} /\ swMsgs' = [swMsgs EXCEPT ![w] = 0]
         /\ inbox' = [inbox EXCEPT ![w] = 0] /\ exts' = [exts EXCEPT ![w] = 0]
         /\ phase' = [phase EXCEPT ![w] = "done"]
         /\ mirror' = IF mirror = w THEN None ELSE mirror
         /\ outbox' = outbox \cup LastWords(w) \cup {Try}

-----------------------------------------------------------------------------
(* The page.                                                               *)

(* The main thread is free for a task or a script of the page.              *)
Idle == now = None /\ batch = {}

(* register() with a new script, or an update() that found one.             *)
Spawn(v) ==
    /\ Idle /\ state[v] = "new" /\ v # Established
    /\ \A u \in Version \ {Established} : u < v => state[u] # "new"
    /\ state' = [state EXCEPT ![v] = "evaluating"]
    /\ live' = live \cup {v} /\ thread' = [thread EXCEPT ![v] = "eval"]
    /\ UNCHANGED <<slot, step, queue, now, resume, outcome, phaseDone, phase, mirror, outbox,
                   holdVars, controller, miscVars, scopeVars, parked, batch>>

(* ServiceWorker.postMessage, to registration.active (a bound: the others   *)
(* have a postMessage, too): a hold until the worker has dispatched it.     *)
PostMessage(v) ==
    /\ Idle /\ v = slot.active /\ v \in live /\ posted[v] < MaxMessages[v]
    /\ swMsgs' = [swMsgs EXCEPT ![v] = @ + 1] /\ inbox' = [inbox EXCEPT ![v] = @ + 1]
    /\ posted' = [posted EXCEPT ![v] = @ + 1]
    /\ UNCHANGED <<lifeVars, live, thread, phase, mirror, outbox, extended, exts, controller,
                   skip, scopeVars, parked, batch>>

(* unregister_client wakes a parked activation, if there ever was one.      *)
ClientGone(c) ==
    /\ Idle /\ controller[c] # Gone /\ controller' = [controller EXCEPT ![c] = Gone]
    /\ batch' = IF parked THEN {Try} ELSE {}
    /\ UNCHANGED <<lifeVars, workerVars, miscVars, scopeVars, parked>>

-----------------------------------------------------------------------------
(* The lifecycle's steps: each one a task, or a continuation resumed.       *)

Running(v, s) ==
    /\ step[v] = s
    /\ now = v \/ (Idle /\ queue # <<>> /\ Head(queue) = v)

(* Mutant: the queued steps of a superseded version go on.                  *)
NeverSuperseded(v) == FALSE

Superseded(v) == state[v] = "redundant"

Rest == IF now = None THEN Tail(queue) ELSE queue

GoesOn(v, s) == step' = [step EXCEPT ![v] = s] /\ queue' = Append(Rest, v) /\ now' = None
Ends(v) == step' = [step EXCEPT ![v] = "ended"] /\ queue' = Rest /\ now' = None
Waits == queue' = Rest /\ now' = None /\ UNCHANGED step

(* `redundant` is terminal: the steps of a superseded version stop.         *)
Stops(v) ==
    /\ Superseded(v) /\ \E s \in {"updatefound", "installed", "activating", "activated"} : Running(v, s)
    /\ outcome' = [outcome EXCEPT ![v] = "none"] /\ Ends(v)
    /\ UNCHANGED <<state, slot, resume, phaseDone, workerVars, controller, miscVars, scopeVars, parked,
                   batch>>

UpdateFound(v) ==
    /\ ~Superseded(v) /\ Running(v, "updatefound") /\ GoesOn(v, "installed")
    /\ UNCHANGED <<state, slot, resume, outcome, phaseDone, workerVars, controller, miscVars, scopeVars,
                   parked, batch>>

AwaitMarker(v) ==
    /\ ~Superseded(v)
    /\ \/ Running(v, "installed") /\ outcome[v] = "none"
       \/ Running(v, "activated") /\ v \notin phaseDone
    /\ Waits
    /\ UNCHANGED <<state, slot, resume, outcome, phaseDone, workerVars, controller, miscVars, scopeVars,
                   parked, batch>>

(* A registration left without any version is dropped: the next is new.     *)
InstallFailed(v) ==
    /\ ~Superseded(v) /\ Running(v, "installed") /\ outcome[v] = "failed"
    /\ outcome' = [outcome EXCEPT ![v] = "none"]
    /\ state' = [state EXCEPT ![v] = "redundant"]
    /\ slot' = [slot EXCEPT !.installing = IF @ = v THEN None ELSE @]
    /\ Terminates(v) /\ Ends(v)
    /\ UNCHANGED <<resume, phaseDone, controller, miscVars, scopeVars, parked, batch>>

(* A version already waiting is retired the moment a newer one is installed. *)
Installed(v) ==
    /\ ~Superseded(v) /\ Running(v, "installed") /\ outcome[v] = "ok"
    /\ outcome' = [outcome EXCEPT ![v] = "none"]
    /\ state' = [u \in Version |-> CASE u = v            -> "installed"
                                     [] u = slot.waiting -> "redundant"
                                     [] OTHER            -> state[u]]
    /\ slot' = [slot EXCEPT !.installing = None, !.waiting = v]
    /\ Terminates(slot.waiting) /\ GoesOn(v, "activating")
    /\ UNCHANGED <<resume, phaseDone, controller, miscVars, scopeVars, parked, batch>>

ParkActivation(v) ==
    /\ ~Superseded(v) /\ Running(v, "activating") /\ ~MayActivate(v)
    /\ resume' = v /\ parked' = TRUE /\ Waits
    /\ UNCHANGED <<state, slot, outcome, phaseDone, workerVars, controller, miscVars, scopeVars, batch>>

(* The version takes the active slot and the one it replaces is retired.    *)
Activates(v) ==
    /\ ~Superseded(v) /\ Running(v, "activating") /\ MayActivate(v)
    /\ state' = [u \in Version |-> CASE u = v           -> "activating"
                                     [] u = slot.active -> "redundant"
                                     [] OTHER           -> state[u]]
    /\ slot' = [slot EXCEPT !.waiting = None, !.active = v]
    /\ activating' = v
    /\ Terminates(slot.active) /\ GoesOn(v, "activated")
    /\ UNCHANGED <<resume, outcome, phaseDone, controller, miscVars, claims, parked, batch>>

(* broadcast_claim: every client whose longest scope this is.               *)
Claimed(v) == [c \in Client |-> IF controller[c] = Gone THEN Gone ELSE v]

(* sw_register_scope first, with the claims that came early: the claim is   *)
(* in place before anyone can see 'activated'.                              *)
Activated(v) ==
    /\ ~Superseded(v) /\ Running(v, "activated") /\ v \in phaseDone
    /\ phaseDone' = phaseDone \ {v}
    /\ mirror' = v /\ activating' = None /\ claims' = claims \ {v}
    /\ controller' = IF v \in claims THEN Claimed(v) ELSE controller
    /\ state' = [state EXCEPT ![v] = "activated"] /\ Ends(v)
    /\ UNCHANGED <<slot, resume, outcome, live, thread, phase, outbox, holdVars, miscVars, parked,
                   batch>>

Lifecycle(v) ==
    \/ Stops(v) \/ UpdateFound(v) \/ AwaitMarker(v) \/ InstallFailed(v) \/ Installed(v)
    \/ ParkActivation(v) \/ Activates(v) \/ Activated(v)

-----------------------------------------------------------------------------
(* The delivery of the outbox.                                             *)

Deliver ==
    /\ Idle /\ outbox # {} /\ batch' = outbox /\ outbox' = {}
    /\ UNCHANGED <<lifeVars, live, thread, phase, mirror, holdVars, controller, miscVars, scopeVars, parked>>

Evals == {"eval_ok", "eval_failed"}
Phases == {"install_ok", "install_failed", "activated"}

(* Mutant: the phase markers before the claims.                             *)
PhasesFirst == <<Evals, Phases, {"claim"}, {"skip"}, {"try"}>>

(* The kinds in the order they are delivered in.                            *)
Kinds == <<Evals, {"claim"}, Phases, {"skip"}, {"try"}>>

Before(d, e) == \E i, k \in DOMAIN Kinds : i < k /\ d.kind \in Kinds[i] /\ e.kind \in Kinds[k]

Handles(e) == now = None /\ batch' = batch \ {e} /\ \A d \in batch : ~Before(d, e)

(* Mutant: the version still installing is left as it is.                   *)
EvalOkKeepsOld(e) ==
    LET v == e.version
    IN  /\ e.kind = "eval_ok" /\ Handles(e)
        /\ state' = [state EXCEPT ![v] = "installing"]
        /\ slot' = [slot EXCEPT !.installing = v]
        /\ Terminates(slot.installing)
        /\ step' = [step EXCEPT ![v] = "updatefound"] /\ queue' = Append(queue, v)
        /\ UNCHANGED <<now, resume, outcome, phaseDone, controller, miscVars, scopeVars, parked>>

(* The outcome creates the version's object; a version still installing is  *)
(* superseded by it.                                                        *)
EvalOk(e) ==
    LET v == e.version
    IN  /\ e.kind = "eval_ok" /\ Handles(e)
        /\ state' = [u \in Version |-> CASE u = v               -> "installing"
                                         [] u = slot.installing -> "redundant"
                                         [] OTHER               -> state[u]]
        /\ slot' = [slot EXCEPT !.installing = v]
        /\ Terminates(slot.installing)
        /\ step' = [step EXCEPT ![v] = "updatefound"] /\ queue' = Append(queue, v)
        /\ UNCHANGED <<now, resume, outcome, phaseDone, controller, miscVars, scopeVars, parked>>

EvalFailed(e) ==
    /\ e.kind = "eval_failed" /\ Handles(e)
    /\ state' = [state EXCEPT ![e.version] = "failed"] /\ Terminates(e.version)
    /\ UNCHANGED <<slot, step, queue, now, resume, outcome, phaseDone, controller, miscVars, scopeVars, parked>>

(* A claim whose version is neither mirrored nor activating is kept.        *)
Claim(e) ==
    /\ e.kind = "claim" /\ Handles(e)
    /\ IF e.version \in {mirror, activating}
       THEN controller' = Claimed(e.version) /\ UNCHANGED claims
       ELSE claims' = claims \cup {e.version} /\ UNCHANGED controller
    /\ UNCHANGED <<lifeVars, workerVars, miscVars, activating, parked>>

(* Whoever waits for the marker goes on at once.                            *)
Continues(v, s) == now' = IF step[v] = s /\ ~Contains(queue, v) THEN v ELSE None

PhaseDone(e) ==
    LET v == e.version
    IN  /\ e.kind \in Phases /\ Handles(e)
        /\ IF e.kind = "activated"
           THEN /\ phaseDone' = phaseDone \cup {v} /\ Continues(v, "activated") /\ UNCHANGED outcome
           ELSE /\ outcome' = [outcome EXCEPT ![v] = IF e.kind = "install_ok" THEN "ok" ELSE "failed"]
                /\ Continues(v, "installed") /\ UNCHANGED phaseDone
        /\ UNCHANGED <<state, slot, step, queue, resume, workerVars, controller, miscVars, scopeVars, parked>>

(* A parked activation is resumed and asks the gate again.                  *)
Resumes == now' = resume /\ resume' = None

SkipWaiting(e) ==
    /\ e.kind = "skip" /\ Handles(e)
    /\ IF e.version = (IF slot.waiting # None THEN slot.waiting ELSE slot.installing) /\ resume # None
       THEN Resumes ELSE UNCHANGED <<now, resume>>
    /\ UNCHANGED <<state, slot, step, queue, outcome, phaseDone, workerVars, controller, miscVars, scopeVars,
                   parked>>

TryActivate(e) ==
    /\ e = Try /\ Handles(e)
    /\ IF parked /\ resume # None /\ slot.waiting # None /\ MayActivate(slot.waiting)
       THEN Resumes ELSE UNCHANGED <<now, resume>>
    /\ UNCHANGED <<state, slot, step, queue, outcome, phaseDone, workerVars, controller, miscVars, scopeVars,
                   parked>>

Main ==
    \/ Deliver \/ \E v \in Version : Lifecycle(v)
    \/ \E e \in batch : \/ EvalOk(e) \/ EvalFailed(e) \/ Claim(e) \/ PhaseDone(e)
                        \/ SkipWaiting(e) \/ TryActivate(e)

-----------------------------------------------------------------------------
(* A version's thread.  A hold it clears and the wakeup that follows are    *)
(* one step: in between the gate can only let the activation through.       *)

Posts(es) == outbox' = outbox \cup es

(* The script's evaluation, and the install event after it.                 *)
Evaluates(v) ==
    /\ thread[v] = "eval"
    /\ \/ Posts({Event(v, "eval_ok")}) /\ thread' = [thread EXCEPT ![v] = "poll"]
          /\ phase' = [phase EXCEPT ![v] = "install"]
       \/ v \in Failing /\ Posts({Event(v, "eval_failed")})
          /\ thread' = [thread EXCEPT ![v] = "dead"] /\ UNCHANGED phase
    /\ UNCHANGED <<lifeVars, live, mirror, holdVars, controller, miscVars, scopeVars, parked, batch>>

(* sw_check_phase: the waitUntil promises of the open phase have settled.   *)
(* The activate handler of a claiming version has called clients.claim().   *)
PhaseSettles(v) ==
    /\ thread[v] = "poll"
    /\ \/ /\ phase[v] = "install" /\ Posts({Event(v, "install_ok")})
          /\ phase' = [phase EXCEPT ![v] = "activate"]
       \/ /\ v \in Failing /\ phase[v] = "install" /\ Posts({Event(v, "install_failed")})
          /\ phase' = [phase EXCEPT ![v] = "done"]
       \/ /\ phase[v] = "activate" /\ phase' = [phase EXCEPT ![v] = "done"]
          /\ Posts({Event(v, "activated")} \cup IF v \in Claiming THEN {Event(v, "claim")} ELSE {})
    /\ UNCHANGED <<lifeVars, live, thread, mirror, holdVars, controller, miscVars, scopeVars, parked, batch>>

(* skipWaiting(): the flag is on the record before the event is queued.     *)
SkipWaits(v) ==
    /\ thread[v] \in {"eval", "poll"} /\ v \in Skipping \ skip
    /\ skip' = skip \cup {v} /\ Posts({Event(v, "skip")})
    /\ UNCHANGED <<lifeVars, live, thread, phase, mirror, holdVars, controller, posted, scopeVars,
                   parked, batch>>

(* A client's message is dispatched; its handler may call waitUntil.        *)
Pull(v) ==
    /\ thread[v] = "poll" /\ inbox[v] > 0
    /\ inbox' = [inbox EXCEPT ![v] = @ - 1] /\ thread' = [thread EXCEPT ![v] = "message"]
    /\ \/ exts' = [exts EXCEPT ![v] = @ + 1] /\ extended' = extended \cup {v}
       \/ UNCHANGED <<exts, extended>>
    /\ UNCHANGED <<lifeVars, live, phase, mirror, outbox, swMsgs, controller, miscVars, scopeVars,
                   parked, batch>>

(* A handler's waitUntil settles: the last one clears the flag.             *)
Settles(v) ==
    /\ thread[v] \in {"poll", "message"} /\ exts[v] > 0
    /\ exts' = [exts EXCEPT ![v] = @ - 1]
    /\ IF exts[v] = 1 THEN extended' = extended \ {v} /\ Posts({Try}) ELSE UNCHANGED <<extended, outbox>>
    /\ UNCHANGED <<lifeVars, live, thread, phase, mirror, swMsgs, inbox, controller, miscVars, scopeVars,
                   parked, batch>>

LastHold(v) == v \notin extended /\ swMsgs[v] = 1

(* Mutant: a message's hold outlives its dispatch.                          *)
DispatchKeepsHold(v) ==
    /\ thread[v] = "message" /\ thread' = [thread EXCEPT ![v] = "poll"]
    /\ Posts(IF LastHold(v) THEN {Try} ELSE {})
    /\ UNCHANGED <<lifeVars, live, phase, mirror, holdVars, controller, miscVars, scopeVars, parked, batch>>

(* Mutant: the end of a dispatch wakes nobody.                              *)
DispatchWakesNobody(v) ==
    /\ thread[v] = "message" /\ thread' = [thread EXCEPT ![v] = "poll"]
    /\ swMsgs' = [swMsgs EXCEPT ![v] = @ - 1]
    /\ UNCHANGED <<lifeVars, live, phase, mirror, outbox, extended, inbox, exts, controller, miscVars,
                   scopeVars, parked, batch>>

(* The dispatch is over and no longer extends the worker's lifetime.        *)
Dispatched(v) ==
    /\ thread[v] = "message" /\ thread' = [thread EXCEPT ![v] = "poll"]
    /\ swMsgs' = [swMsgs EXCEPT ![v] = @ - 1] /\ Posts(IF LastHold(v) THEN {Try} ELSE {})
    /\ UNCHANGED <<lifeVars, live, phase, mirror, extended, inbox, exts, controller, miscVars, scopeVars,
                   parked, batch>>

(* self.close(), or a raise: the record stays, with the holds it has.       *)
Dies(v) ==
    /\ v \in Failing /\ thread[v] = "poll" /\ Posts(LastWords(v))
    /\ thread' = [thread EXCEPT ![v] = "dead"] /\ phase' = [phase EXCEPT ![v] = "done"]
    /\ UNCHANGED <<lifeVars, live, mirror, holdVars, controller, miscVars, scopeVars, parked, batch>>

Thread(v) ==
    \/ Evaluates(v) \/ PhaseSettles(v) \/ SkipWaits(v) \/ Pull(v) \/ Settles(v) \/ Dispatched(v) \/ Dies(v)

Page ==
    \/ \E v \in Version : Spawn(v) \/ PostMessage(v)
    \/ \E c \in Client : ClientGone(c)

Next == Main \/ Page \/ \E v \in Version : Thread(v)

Spec == Init /\ [][Next]_vars

-----------------------------------------------------------------------------
(* Properties.                                                             *)

Pending == outbox \cup batch

TypeOK ==
    /\ state \in [Version -> {"new", "evaluating", "failed", "installing", "installed", "activating",
                              "activated", "redundant"}]
    /\ slot \in [{"installing", "waiting", "active"} -> Version \cup {None}]
    /\ step \in [Version -> {"none", "updatefound", "installed", "activating", "activated", "ended"}]
    /\ IsInjective(queue) /\ ToSet(queue) \subseteq Version
    /\ {now, resume, mirror, activating} \subseteq Version \cup {None}
    /\ live \cup skip \cup extended \cup claims \cup phaseDone \subseteq Version
    /\ outcome \in [Version -> {"none", "ok", "failed"}]
    /\ controller \in [Client -> Version \cup {None, Gone}]
    /\ parked \in BOOLEAN
    /\ \A v \in Version :
        /\ swMsgs[v] \in 0 .. MaxMessages[v] /\ inbox[v] + exts[v] <= posted[v]
        /\ v \in live => swMsgs[v] = inbox[v] + (IF thread[v] = "message" THEN 1 ELSE 0)
    /\ Pending \subseteq [version : Version \cup {None}, kind : Evals \cup Phases \cup {"claim", "skip", "try"}]

(* The three slots hold different versions, each in the state its slot      *)
(* stands for and still running; every version in such a state is in its    *)
(* slot; and navigations are routed to the active version or to none        *)
(* (sw-client.js, _scheduleLifecycle; browser.rb, @sw_registrations).       *)
SlotsSound ==
    /\ \A v \in Version :
        /\ slot.installing = v <=> state[v] = "installing"
        /\ slot.waiting = v <=> state[v] = "installed"
        /\ slot.active = v <=> state[v] \in {"activating", "activated"}
        /\ v \in {slot.installing, slot.waiting, slot.active} => v \in live
    /\ mirror \in {None, slot.active}

(* A version that went redundant stays so, whatever its queued steps, its   *)
(* parked continuation and its late markers still want to do                *)
(* (sw-client.js, run: "redundant is a TERMINAL state").                    *)
RedundantIsFinal == [][\A v \in Version : state[v] = "redundant" => state'[v] = "redundant"]_vars

(* A handover never cuts work off: a version is replaced only when it has   *)
(* no message left, dispatches none and has no waitUntil open; and unless   *)
(* the successor skipped waiting, no document is controlled by it           *)
(* (browser.rb, sw_may_activate?).                                          *)
HandoverClean ==
    [][slot'.active # slot.active /\ slot.active # None =>
         LET v == slot.active
         IN  /\ inbox[v] = 0 /\ thread[v] # "message" /\ exts[v] = 0
             /\ slot'.active \in skip \/ \A c \in Client : controller[c] # v]_vars

(* "Every hold-clearing transition posts its own try_activate" (browser.rb, *)
(* run_worker): a parked activation the gate would let through is being     *)
(* resumed, or a wakeup is on its way.                                      *)
WakeupUnderway ==
    resume # None /\ resume = slot.waiting /\ MayActivate(resume) =>
        \/ now # None
        \/ {Try, Event(resume, "skip")} \cap Pending # {}

(* Nobody sees 'activated' while a claim of the activate handler is still   *)
(* to be applied (browser.rb, deliver_worker_messages: claims before phase  *)
(* markers; sw-client.js: the mirror, which applies the kept claims, before *)
(* the state).                                                              *)
ClaimsBeforeActivated ==
    \A v \in Version :
        state[v] = "activated" => v \notin claims /\ Event(v, "claim") \notin Pending

(* A thread that ended leaves no phantom: while its version still evaluates, *)
(* installs or activates, the step that ends that is queued, or the marker  *)
(* it waits for is on its way (browser.rb, run_worker, the terminal markers *)
(* of its ensure).                                                          *)
NoPhantoms ==
    \A v \in Version :
        thread[v] = "dead" /\ state[v] \in {"evaluating", "installing", "activating"} =>
            \/ now = v \/ Contains(queue, v)
            \/ \E e \in Pending : e.version = v /\ e.kind \notin {"claim", "skip"}
=============================================================================
