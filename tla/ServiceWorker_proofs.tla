------------------------- MODULE ServiceWorker_proofs -------------------------
(* Theorems about ServiceWorker, for any number of versions, documents and  *)
(* messages.                                                                *)
EXTENDS ServiceWorker, TLAPS, SequenceTheorems

----------------------------------------------------------------------------
(* The queue of lifecycle steps.                                            *)

LEMMA ContainsIs ==
    ASSUME NEW S, NEW q \in Seq(S), NEW x
    PROVE  /\ Contains(q, x) <=> \E i \in DOMAIN q : q[i] = x
           /\ Contains(q, x) => x \in S
           /\ Contains(q, x) <=> x \in ToSet(q)
<1>1. DOMAIN q = 1 .. Len(q) /\ \A i \in 1 .. Len(q) : q[i] \in S
  BY LenProperties, ElementOfSeq
<1> QED
  BY <1>1 DEF Contains, ToSet

LEMMA AppendQueued ==
    ASSUME NEW S, NEW q \in Seq(S), NEW e \in S
    PROVE  /\ Append(q, e) \in Seq(S)
           /\ \A x : Contains(Append(q, e), x) <=> Contains(q, x) \/ x = e
           /\ IsInjective(q) /\ ~Contains(q, e) => IsInjective(Append(q, e))
<1> DEFINE r == Append(q, e)
<1>1. /\ r \in Seq(S) /\ Len(r) = Len(q) + 1 /\ \A i \in 1 .. Len(q) : r[i] = q[i]
      /\ r[Len(q) + 1] = e
  BY AppendProperties
<1> HIDE DEF r
<1>2. DOMAIN r = 1 .. Len(q) + 1 /\ DOMAIN q = 1 .. Len(q) /\ Len(q) \in Nat
  BY <1>1, LenProperties
<1>3. \A i \in DOMAIN r : i \in DOMAIN q \/ i = Len(q) + 1
  BY <1>2
<1>4. \A i \in DOMAIN q : i \in DOMAIN r /\ r[i] = q[i]
  BY <1>1, <1>2
<1>5. Len(q) + 1 \in DOMAIN r
  BY <1>2
<1>6. \A x : Contains(q, x) <=> \E i \in DOMAIN q : q[i] = x
  BY ContainsIs
<1>7. \A x : Contains(r, x) <=> \E i \in DOMAIN r : r[i] = x
  BY <1>1, ContainsIs
<1>8. \A x : Contains(r, x) <=> Contains(q, x) \/ x = e
  BY <1>1, <1>3, <1>4, <1>5, <1>6, <1>7
<1>9. IsInjective(q) /\ ~Contains(q, e) => IsInjective(r)
  BY <1>1, <1>3, <1>4, <1>6 DEF IsInjective
<1> QED
  BY <1>1, <1>8, <1>9 DEF r

LEMMA TailQueued ==
    ASSUME NEW S, NEW q \in Seq(S), q # <<>>, IsInjective(q)
    PROVE  /\ Tail(q) \in Seq(S) /\ Head(q) \in S /\ IsInjective(Tail(q))
           /\ Contains(q, Head(q))
           /\ \A x : Contains(Tail(q), x) <=> Contains(q, x) /\ x # Head(q)
<1> DEFINE t == Tail(q)
<1>1. /\ t \in Seq(S) /\ Len(t) = Len(q) - 1 /\ Len(q) \in Nat \ {0} /\ Head(q) = q[1]
      /\ Head(q) \in S /\ \A i \in 1 .. Len(q) - 1 : t[i] = q[i + 1]
  BY EmptySeq, HeadTailProperties
<1> HIDE DEF t
<1>2. DOMAIN t = 1 .. Len(q) - 1 /\ DOMAIN q = 1 .. Len(q)
  BY <1>1, LenProperties
<1>3. \A i \in DOMAIN t : i + 1 \in DOMAIN q /\ t[i] = q[i + 1] /\ i + 1 # 1 /\ i \in Nat
  BY <1>1, <1>2
<1>4. \A i \in DOMAIN q : i = 1 \/ (i - 1 \in DOMAIN t /\ t[i - 1] = q[i])
  <2>1. \A i \in 1 .. Len(q) : i = 1 \/ (i - 1 \in 1 .. Len(q) - 1 /\ i - 1 + 1 = i)
    BY <1>1
  <2> QED
    BY <1>1, <1>2, <2>1
<1>5. 1 \in DOMAIN q
  BY <1>1, <1>2
<1>6. \A x : Contains(q, x) <=> \E i \in DOMAIN q : q[i] = x
  BY ContainsIs
<1>7. \A x : Contains(t, x) <=> \E i \in DOMAIN t : t[i] = x
  BY <1>1, ContainsIs
<1>8. \A x : Contains(t, x) <=> Contains(q, x) /\ x # Head(q)
  <2>1. ASSUME NEW x, Contains(t, x) PROVE Contains(q, x) /\ x # Head(q)
    BY <1>1, <1>3, <1>5, <1>6, <1>7, <2>1 DEF IsInjective
  <2>2. ASSUME NEW x, Contains(q, x), x # Head(q) PROVE Contains(t, x)
    BY <1>1, <1>4, <1>6, <1>7, <2>2
  <2> QED
    BY <2>1, <2>2
<1>9. IsInjective(t)
  <2> SUFFICES ASSUME NEW i \in DOMAIN t, NEW j \in DOMAIN t, t[i] = t[j] PROVE i = j
    BY DEF IsInjective
  <2>1. i + 1 = j + 1
    BY <1>3 DEF IsInjective
  <2> QED
    BY <1>3, <2>1
<1> QED
  BY <1>1, <1>5, <1>6, <1>8, <1>9 DEF t

----------------------------------------------------------------------------
(* Types.                                                                   *)

Slots == {"installing", "waiting", "active"}
WorkerEvents == [version : Version, kind : Evals \cup Phases \cup {"claim", "skip"}]

LifeTyped ==
    /\ state \in [Version -> {"new", "evaluating", "failed", "installing", "installed", "activating",
                              "activated", "redundant"}]
    /\ slot \in [Slots -> Version \cup {None}]
    /\ step \in [Version -> {"none", "updatefound", "installed", "activating", "activated", "ended"}]
    /\ queue \in Seq(Version)
    /\ now \in Version \cup {None} /\ resume \in Version \cup {None}
    /\ outcome \in [Version -> {"none", "ok", "failed"}] /\ phaseDone \subseteq Version

HostTyped ==
    /\ thread \in [Version -> {"none", "eval", "poll", "message", "dead"}]
    /\ phase \in [Version -> {"none", "install", "activate", "done"}]
    /\ swMsgs \in [Version -> Nat] /\ inbox \in [Version -> Nat] /\ exts \in [Version -> Nat]
    /\ mirror \in Version \cup {None} /\ live \subseteq Version /\ extended \subseteq Version
    /\ outbox \subseteq WorkerEvents \cup {Try}

ScopeTyped ==
    /\ skip \subseteq Version /\ claims \subseteq Version
    /\ activating \in Version \cup {None}
    /\ controller \in [Client -> Version \cup {None, Gone}]
    /\ parked \in BOOLEAN /\ posted \in [Version -> Nat]
    /\ batch \subseteq WorkerEvents \cup {Try}

Typed == LifeTyped /\ HostTyped /\ ScopeTyped

(* The messages a version has not handled hold it, and those of its handlers *)
(* that are not done.                                                       *)
Counted ==
    \A v \in Version :
        /\ thread[v] \in {"eval", "poll", "message"} => v \in live
        /\ swMsgs[v] <= posted[v] /\ posted[v] <= MaxMessages[v]
        /\ inbox[v] + exts[v] <= posted[v]
        /\ swMsgs[v] = inbox[v] + (IF thread[v] = "message" THEN 1 ELSE 0)
        /\ v \in extended <=> exts[v] > 0

(* A step of version v is queued or being resumed.                          *)
Lined(v) == now = v \/ Contains(queue, v)

InSteps == {"updatefound", "installed", "activating", "activated"}

(* A version's step is queued once, and a parked one is not.                *)
QueueInv ==
    /\ IsInjective(queue)
    /\ \A v \in Version : Lined(v) => step[v] \in InSteps
    /\ now # None => ~Contains(queue, now)
    /\ resume # None => ~Lined(resume) /\ step[resume] = "activating"

LEMMA Nobody == None \notin Version /\ Gone \notin Version /\ Gone # None
BY ServiceWorkerAssumption

LEMMA EventEq ==
    \A u, v, k, l : Event(u, k) = Event(v, l) <=> u = v /\ k = l
BY DEF Event

LEMMA EventParts == \A v, k : Event(v, k).version = v /\ Event(v, k).kind = k
BY DEF Event

LEMMA EventOf ==
    ASSUME NEW e \in WorkerEvents \cup {Try}, e.kind # "try"
    PROVE  e.version \in Version /\ e = Event(e.version, e.kind)
           /\ e.kind \in Evals \cup Phases \cup {"claim", "skip"}
BY DEF WorkerEvents, Event, Try

LEMMA EventType ==
    ASSUME NEW v \in Version, NEW k \in Evals \cup Phases \cup {"claim", "skip"}
    PROVE  Event(v, k) \in WorkerEvents
BY DEF WorkerEvents, Event

LEMMA LastWordsType ==
    ASSUME NEW v \in Version
    PROVE  LastWords(v) \subseteq WorkerEvents
BY EventType DEF LastWords, Phases

(* What it means to take version w down.                                    *)
Down(w) ==
    /\ HostTyped'
    /\ live' = live \ {w}
    /\ extended' = IF w \in live THEN extended \ {w} ELSE extended
    /\ \A u \in Version : u # w \/ u \notin live =>
          /\ thread'[u] = thread[u] /\ phase'[u] = phase[u] /\ swMsgs'[u] = swMsgs[u]
          /\ inbox'[u] = inbox[u] /\ exts'[u] = exts[u]
    /\ w \in live =>
          /\ thread'[w] = "dead" /\ phase'[w] = "done" /\ swMsgs'[w] = 0 /\ inbox'[w] = 0
          /\ exts'[w] = 0
    /\ mirror' = mirror \/ (mirror = w /\ mirror' = None)
    /\ w \in live => mirror' = IF mirror = w THEN None ELSE mirror
    /\ outbox' = outbox \cup (IF w \in live THEN LastWords(w) \cup {Try} ELSE {})

LEMMA TerminatesDown ==
    ASSUME Typed, NEW w \in Version \cup {None}, Terminates(w)
    PROVE  Down(w)
<1>1. CASE w \notin live
  <2>1. UNCHANGED workerVars /\ live \ {w} = live
    BY <1>1 DEF Terminates
  <2> QED
    BY <1>1, <2>1 DEF Down, workerVars, holdVars, Typed, LifeTyped, HostTyped, ScopeTyped
<1>2. CASE w \in live
  <2>1. w \in Version
    BY <1>2 DEF Typed, LifeTyped, HostTyped, ScopeTyped
  <2>2. /\ live' = live \ {w} /\ thread' = [thread EXCEPT ![w] = "dead"]
        /\ extended' = extended \ {w} /\ swMsgs' = [swMsgs EXCEPT ![w] = 0]
        /\ inbox' = [inbox EXCEPT ![w] = 0] /\ exts' = [exts EXCEPT ![w] = 0]
        /\ phase' = [phase EXCEPT ![w] = "done"]
        /\ mirror' = IF mirror = w THEN None ELSE mirror
        /\ outbox' = outbox \cup LastWords(w) \cup {Try}
    BY <1>2 DEF Terminates
  <2>3. outbox' \subseteq WorkerEvents \cup {Try}
    BY <2>1, <2>2, LastWordsType DEF Typed, LifeTyped, HostTyped, ScopeTyped
  <2>4. \A u \in Version : u # w \/ u \notin live =>
          /\ thread'[u] = thread[u] /\ phase'[u] = phase[u] /\ swMsgs'[u] = swMsgs[u]
          /\ inbox'[u] = inbox[u] /\ exts'[u] = exts[u]
    BY <1>2, <2>2 DEF Typed, LifeTyped, HostTyped, ScopeTyped
  <2>5. /\ thread'[w] = "dead" /\ phase'[w] = "done" /\ swMsgs'[w] = 0 /\ inbox'[w] = 0
        /\ exts'[w] = 0
    BY <2>1, <2>2 DEF Typed, LifeTyped, HostTyped, ScopeTyped
  <2>6. /\ thread' \in [Version -> {"none", "eval", "poll", "message", "dead"}]
        /\ phase' \in [Version -> {"none", "install", "activate", "done"}]
        /\ swMsgs' \in [Version -> Nat] /\ inbox' \in [Version -> Nat] /\ exts' \in [Version -> Nat]
        /\ mirror' \in Version \cup {None} /\ live' \subseteq Version /\ extended' \subseteq Version
    BY <2>2 DEF Typed, LifeTyped, HostTyped, ScopeTyped
  <2>7. outbox' = outbox \cup (IF w \in live THEN LastWords(w) \cup {Try} ELSE {})
    BY <1>2, <2>2
  <2> QED
    BY <1>2, <2>2, <2>3, <2>4, <2>5, <2>6, <2>7 DEF Down, HostTyped
<1> QED
  BY <1>1, <1>2

(* A lifecycle step takes its version out of the line, or sends it to its   *)
(* end.                                                                     *)
Moved(v, stays) ==
    /\ queue' \in Seq(Version) /\ IsInjective(queue') /\ now' = None
    /\ \A u \in Version : Contains(queue', u) <=> Lined(u) /\ (u # v \/ stays)

LEMMA RestQueued ==
    ASSUME Typed, QueueInv, NEW v \in Version, NEW s, Running(v, s)
    PROVE  /\ Rest \in Seq(Version) /\ IsInjective(Rest) /\ Lined(v) /\ now \in {None, v}
           /\ \A u \in Version : Contains(Rest, u) <=> Lined(u) /\ u # v
<1>1. queue \in Seq(Version) /\ IsInjective(queue)
  BY DEF Typed, LifeTyped, HostTyped, ScopeTyped, QueueInv
<1>2. CASE now = v
  <2>1. Rest = queue
    BY <1>2, Nobody DEF Rest
  <2>2. ~Contains(queue, v)
    BY <1>2, Nobody DEF QueueInv
  <2>3. \A u \in Version : Contains(queue, u) <=> Lined(u) /\ u # v
    BY <1>2, <2>2 DEF Lined
  <2>4. Rest \in Seq(Version) /\ IsInjective(Rest)
    BY <1>1, <2>1
  <2>5. \A u \in Version : Contains(Rest, u) <=> Lined(u) /\ u # v
    BY <2>1, <2>3
  <2> QED
    BY <1>2, <2>4, <2>5 DEF Lined
<1>3. CASE now # v
  <2>1. now = None /\ queue # <<>> /\ Head(queue) = v
    BY <1>3 DEF Running, Idle
  <2> DEFINE t == Tail(queue)
  <2>2. Rest = t
    BY <2>1 DEF Rest
  <2>3. /\ Tail(queue) \in Seq(Version) /\ IsInjective(Tail(queue)) /\ Contains(queue, v)
        /\ \A x : Contains(Tail(queue), x) <=> Contains(queue, x) /\ x # v
    BY <1>1, <2>1, TailQueued
  <2>4. \A u \in Version : Lined(u) <=> Contains(queue, u)
    BY <2>1, Nobody DEF Lined
  <2>5. /\ t \in Seq(Version) /\ IsInjective(t)
        /\ \A u \in Version : Contains(t, u) <=> Contains(queue, u) /\ u # v
    BY <2>3
  <2> HIDE DEF t
  <2>6. Rest \in Seq(Version) /\ IsInjective(Rest)
    BY <2>2, <2>5
  <2>7. \A u \in Version : Contains(Rest, u) <=> Lined(u) /\ u # v
    BY <2>2, <2>4, <2>5
  <2>8. Lined(v)
    BY <2>3, <2>4
  <2>9. now \in {None, v}
    BY <2>1
  <2> QED
    BY <2>6, <2>7, <2>8, <2>9
<1> QED
  BY <1>2, <1>3

LEMMA GoesOnMoves ==
    ASSUME Typed, QueueInv, NEW v \in Version, NEW s, NEW t, Running(v, s), GoesOn(v, t)
    PROVE  Moved(v, TRUE) /\ Lined(v) /\ step' = [step EXCEPT ![v] = t]
<1>1. /\ Rest \in Seq(Version) /\ IsInjective(Rest) /\ Lined(v)
      /\ \A u \in Version : Contains(Rest, u) <=> Lined(u) /\ u # v
  BY RestQueued
<1>2. queue' = Append(Rest, v) /\ now' = None /\ step' = [step EXCEPT ![v] = t]
  BY DEF GoesOn
<1>3. /\ queue' \in Seq(Version) /\ IsInjective(queue')
      /\ \A x : Contains(queue', x) <=> Contains(Rest, x) \/ x = v
  <2> DEFINE q == Rest
  <2>1. q \in Seq(Version) /\ IsInjective(q) /\ ~Contains(q, v) /\ queue' = Append(q, v)
    BY <1>1, <1>2
  <2> HIDE DEF q
  <2>2. /\ queue' \in Seq(Version) /\ IsInjective(queue')
        /\ \A x : Contains(queue', x) <=> Contains(q, x) \/ x = v
    BY <2>1, AppendQueued
  <2> QED
    BY <2>2 DEF q
<1> QED
  BY <1>1, <1>2, <1>3 DEF Moved

LEMMA EndsMoves ==
    ASSUME Typed, QueueInv, NEW v \in Version, NEW s, Running(v, s), queue' = Rest, now' = None
    PROVE  Moved(v, FALSE) /\ Lined(v)
BY RestQueued DEF Moved

(* What a lifecycle step leaves alone, and what it takes.                   *)
LEMMA LifecycleMoves ==
    ASSUME Typed, QueueInv, NEW v \in Version, Lifecycle(v)
    PROVE  /\ Lined(v) /\ (Moved(v, TRUE) \/ Moved(v, FALSE))
           /\ step' \in [Version -> {"none", "updatefound", "installed", "activating", "activated",
                                     "ended"}]
           /\ \A u \in Version : u # v => step'[u] = step[u]
           /\ Moved(v, TRUE) => step'[v] \in InSteps
           /\ UNCHANGED <<posted, skip, batch>>
           /\ resume' = resume \/ (resume' = v /\ UNCHANGED step /\ step[v] = "activating"
                                   /\ Moved(v, FALSE))
<1> USE DEF InSteps, miscVars
<1>0. step \in [Version -> {"none", "updatefound", "installed", "activating", "activated", "ended"}]
  BY DEF Typed, LifeTyped, HostTyped, ScopeTyped
<1>1. ASSUME NEW s, NEW t \in InSteps, Running(v, s), GoesOn(v, t)
      PROVE  /\ Lined(v) /\ Moved(v, TRUE)
             /\ step' \in [Version -> {"none", "updatefound", "installed", "activating", "activated",
                                       "ended"}]
             /\ \A u \in Version : u # v => step'[u] = step[u]
             /\ step'[v] \in InSteps
  <2>1. Lined(v) /\ Moved(v, TRUE) /\ step' = [step EXCEPT ![v] = t]
    BY <1>1, GoesOnMoves
  <2>2. t \in {"none", "updatefound", "installed", "activating", "activated", "ended"}
    OBVIOUS
  <2> QED
    BY <1>0, <2>1, <2>2
<1>2. ASSUME NEW s, Running(v, s), Ends(v) \/ Waits
      PROVE  /\ Lined(v) /\ Moved(v, FALSE) /\ ~Moved(v, TRUE)
             /\ step' \in [Version -> {"none", "updatefound", "installed", "activating", "activated",
                                       "ended"}]
             /\ \A u \in Version : u # v => step'[u] = step[u]
  <2>1. Lined(v) /\ Moved(v, FALSE)
    BY <1>2, EndsMoves DEF Ends, Waits
  <2>2. ~Moved(v, TRUE)
    BY <2>1 DEF Moved
  <2> QED
    BY <1>0, <1>2, <2>1, <2>2 DEF Ends, Waits
<1>3. CASE Stops(v)
  BY <1>2, <1>3 DEF Stops
<1>4. CASE UpdateFound(v)
  BY <1>1, <1>4 DEF UpdateFound
<1>5. CASE AwaitMarker(v)
  BY <1>2, <1>5 DEF AwaitMarker
<1>6. CASE InstallFailed(v)
  BY <1>2, <1>6 DEF InstallFailed
<1>7. CASE Installed(v)
  BY <1>1, <1>7 DEF Installed
<1>8. CASE ParkActivation(v)
  BY <1>2, <1>8 DEF ParkActivation, Waits, Running
<1>9. CASE Activates(v)
  BY <1>1, <1>9 DEF Activates
<1>10. CASE Activated(v)
  BY <1>2, <1>10 DEF Activated
<1> QED
  BY <1>3, <1>4, <1>5, <1>6, <1>7, <1>8, <1>9, <1>10 DEF Lifecycle

LEMMA TypedInit == Init => Typed
<1> SUFFICES ASSUME NEW first \in {None, Established},
                    Init!(first)
             PROVE  Typed
  BY DEF Init
<1> DEFINE Only(x, y) == [v \in Version |-> IF v = first THEN x ELSE y]
           Zero == [v \in Version |-> 0]
<1>3. /\ state = Only("activated", "new") /\ step = Only("ended", "none")
      /\ slot = [installing |-> None, waiting |-> None, active |-> first]
      /\ queue = <<>> /\ now = None /\ resume = None
      /\ outcome = [v \in Version |-> "none"] /\ phaseDone = {}
      /\ live = {first} \ {None} /\ mirror = first /\ activating = None /\ claims = {}
      /\ thread = Only("poll", "none") /\ phase = Only("done", "none")
      /\ extended = {} /\ swMsgs = Zero /\ inbox = Zero /\ exts = Zero
      /\ controller = [c \in Client |-> first] /\ skip = {} /\ posted = Zero
      /\ parked = FALSE /\ outbox = {} /\ batch = {}
  OBVIOUS
<1>1. first \in Version \cup {None} /\ {first} \ {None} \subseteq Version
  BY ServiceWorkerAssumption
<1>2. <<>> \in Seq(Version)
  BY EmptySeq
<1>4. Zero \in [Version -> Nat]
  OBVIOUS
<1>5. \A S, x, y : x \in S /\ y \in S => Only(x, y) \in [Version -> S]
  OBVIOUS
<1>6. /\ slot \in [Slots -> Version \cup {None}]
      /\ outcome \in [Version -> {"none", "ok", "failed"}]
      /\ controller \in [Client -> Version \cup {None, Gone}]
  BY <1>1, <1>3 DEF Slots
<1> HIDE DEF Only, Zero
<1>7. /\ state \in [Version -> {"new", "evaluating", "failed", "installing", "installed",
                               "activating", "activated", "redundant"}]
      /\ step \in [Version -> {"none", "updatefound", "installed", "activating", "activated",
                              "ended"}]
  BY <1>3, <1>5
<1>8. LifeTyped
  BY <1>2, <1>3, <1>6, <1>7 DEF LifeTyped
<1>9. /\ thread \in [Version -> {"none", "eval", "poll", "message", "dead"}]
      /\ phase \in [Version -> {"none", "install", "activate", "done"}]
  BY <1>3, <1>5
<1>10. HostTyped
  BY <1>1, <1>3, <1>4, <1>9 DEF HostTyped
<1>11. ScopeTyped
  BY <1>3, <1>4, <1>6 DEF ScopeTyped
<1> QED
  BY <1>8, <1>10, <1>11 DEF Typed

LEMMA TypedLifecycle ==
    ASSUME Typed, QueueInv, NEW v \in Version, Lifecycle(v) PROVE Typed'
<1> USE DEF workerVars, holdVars, miscVars, scopeVars
<1>1. /\ queue' \in Seq(Version) /\ now' = None /\ resume' \in Version \cup {None}
      /\ step' \in [Version -> {"none", "updatefound", "installed", "activating", "activated",
                                "ended"}]
      /\ UNCHANGED <<posted, skip, batch>>
  BY LifecycleMoves DEF Moved, Typed, LifeTyped, HostTyped, ScopeTyped
<1>2. slot \in [Slots -> Version \cup {None}] /\ slot.installing \in Version \cup {None}
      /\ slot.waiting \in Version \cup {None} /\ slot.active \in Version \cup {None}
  BY DEF Typed, LifeTyped, HostTyped, ScopeTyped, Slots
<1>3. ASSUME NEW w \in Version \cup {None}, Terminates(w),
             state' \in [Version -> {"new", "evaluating", "failed", "installing", "installed",
                                     "activating", "activated", "redundant"}],
             slot' \in [Slots -> Version \cup {None}], activating' \in Version \cup {None},
             outcome' \in [Version -> {"none", "ok", "failed"}],
             UNCHANGED <<phaseDone, controller, claims, parked>>
      PROVE  Typed'
  <2>1. Down(w)
    BY <1>3, TerminatesDown
  <2>2. HostTyped'
    BY <2>1 DEF Down
  <2> QED
    BY <1>1, <1>3, <2>2 DEF Typed, LifeTyped, HostTyped, ScopeTyped
<1>4. CASE Stops(v) \/ UpdateFound(v) \/ AwaitMarker(v)
  BY <1>1, <1>4 DEF Stops, UpdateFound, AwaitMarker, Typed, LifeTyped, HostTyped, ScopeTyped
<1>5. CASE InstallFailed(v)
  BY <1>2, <1>3, <1>5 DEF InstallFailed, Typed, LifeTyped, HostTyped, ScopeTyped, Slots
<1>6. CASE Installed(v)
  BY <1>2, <1>3, <1>6 DEF Installed, Typed, LifeTyped, HostTyped, ScopeTyped, Slots
<1>7. CASE ParkActivation(v)
  BY <1>1, <1>7 DEF ParkActivation, Typed, LifeTyped, HostTyped, ScopeTyped
<1>8. CASE Activates(v)
  BY <1>2, <1>3, <1>8 DEF Activates, Typed, LifeTyped, HostTyped, ScopeTyped, Slots
<1>9. CASE Activated(v)
  <2>1. controller' \in [Client -> Version \cup {None, Gone}]
    BY <1>9 DEF Activated, Claimed, Typed, LifeTyped, HostTyped, ScopeTyped
  <2>2. /\ UNCHANGED <<slot, resume, outcome, live, thread, phase, outbox, holdVars, parked>>
        /\ phaseDone' = phaseDone \ {v} /\ mirror' = v /\ activating' = None
        /\ claims' = claims \ {v} /\ state' = [state EXCEPT ![v] = "activated"]
    BY <1>9 DEF Activated
  <2> QED
    BY <1>1, <2>1, <2>2 DEF Typed, LifeTyped, HostTyped, ScopeTyped
<1> QED
  BY <1>4, <1>5, <1>6, <1>7, <1>8, <1>9 DEF Lifecycle

LEMMA HandledType ==
    ASSUME Typed, NEW e \in batch
    PROVE  e = Try \/ (e \in WorkerEvents /\ e.version \in Version
                       /\ e = Event(e.version, e.kind) /\ e.kind # "try")
<1>1. e \in WorkerEvents \cup {Try}
  BY DEF Typed, LifeTyped, HostTyped, ScopeTyped
<1>2. "try" \notin Evals \cup Phases \cup {"claim", "skip"}
  BY DEF Evals, Phases
<1> QED
  BY <1>1, <1>2, EventOf DEF WorkerEvents

LEMMA TryKind == Try.kind = "try" /\ Try.kind \notin Evals \cup Phases \cup {"claim", "skip"}
BY DEF Try, Event, Evals, Phases

LEMMA TypedDelivery ==
    ASSUME Typed, NEW e \in batch,
           EvalOk(e) \/ EvalFailed(e) \/ Claim(e) \/ PhaseDone(e) \/ SkipWaiting(e)
               \/ TryActivate(e)
    PROVE  Typed'
<1> USE DEF lifeVars, workerVars, holdVars, miscVars, scopeVars
<1> DEFINE v == e.version
<1>1. batch' = batch \ {e}
  BY DEF EvalOk, EvalFailed, Claim, PhaseDone, SkipWaiting, TryActivate, Handles
<1>2. e.kind \in Evals \cup Phases \cup {"claim", "skip"} => v \in Version
  BY HandledType, TryKind
<1>3. slot \in [Slots -> Version \cup {None}] /\ slot.installing \in Version \cup {None}
      /\ slot.waiting \in Version \cup {None}
  BY DEF Typed, LifeTyped, HostTyped, ScopeTyped, Slots
<1>4. CASE EvalOk(e)
  <2>1. v \in Version
    BY <1>2, <1>4 DEF EvalOk, Evals
  <2>2. Down(slot.installing)
    BY <1>3, <1>4, TerminatesDown DEF EvalOk
  <2>3. queue' \in Seq(Version)
    BY <1>4, <2>1, AppendProperties DEF EvalOk, Typed, LifeTyped, HostTyped, ScopeTyped
  <2>4. /\ state' = [u \in Version |-> CASE u = v               -> "installing"
                                         [] u = slot.installing -> "redundant"
                                         [] OTHER               -> state[u]]
        /\ slot' = [slot EXCEPT !.installing = v] /\ step' = [step EXCEPT ![v] = "updatefound"]
        /\ UNCHANGED <<now, resume, outcome, phaseDone, controller, miscVars, scopeVars, parked>>
    BY <1>4 DEF EvalOk
  <2>5. state' \in [Version -> {"new", "evaluating", "failed", "installing", "installed",
                                "activating", "activated", "redundant"}]
    BY <2>4 DEF Typed, LifeTyped, HostTyped, ScopeTyped
  <2> HIDE DEF v
  <2>6. slot' \in [Slots -> Version \cup {None}]
    BY <1>3, <2>1, <2>4 DEF Slots
  <2>7. HostTyped'
    BY <2>2 DEF Down
  <2>8. step' \in [Version -> {"none", "updatefound", "installed", "activating", "activated", "ended"}]
    BY <2>4 DEF Typed, LifeTyped, HostTyped, ScopeTyped
  <2> QED
    BY <1>1, <2>3, <2>4, <2>5, <2>6, <2>7, <2>8 DEF Typed, LifeTyped, HostTyped, ScopeTyped
<1>5. CASE EvalFailed(e)
  <2>1. v \in Version
    BY <1>2, <1>5 DEF EvalFailed, Evals
  <2>2. Down(v)
    BY <1>5, <2>1, TerminatesDown DEF EvalFailed
  <2>3. HostTyped'
    BY <2>2 DEF Down
  <2>4. state' \in [Version -> {"new", "evaluating", "failed", "installing", "installed",
                                "activating", "activated", "redundant"}]
        /\ UNCHANGED <<slot, step, queue, now, resume, outcome, phaseDone, controller, miscVars,
                       scopeVars, parked>>
    BY <1>5 DEF EvalFailed, Typed, LifeTyped, HostTyped, ScopeTyped
  <2> QED
    BY <1>1, <2>3, <2>4 DEF Typed, LifeTyped, HostTyped, ScopeTyped
<1>6. CASE Claim(e)
  <2>1. v \in Version
    BY <1>2, <1>6 DEF Claim
  <2>2. controller' \in [Client -> Version \cup {None, Gone}]
    BY <1>6, <2>1 DEF Claim, Claimed, Typed, LifeTyped, HostTyped, ScopeTyped
  <2>3. claims' \subseteq Version
    BY <1>6, <2>1 DEF Claim, Typed, LifeTyped, HostTyped, ScopeTyped
  <2> QED
    BY <1>1, <1>6, <2>2, <2>3 DEF Claim, Typed, LifeTyped, HostTyped, ScopeTyped
<1>7. CASE PhaseDone(e)
  <2>1. v \in Version
    BY <1>2, <1>7 DEF PhaseDone
  <2>2. now' \in Version \cup {None}
    BY <1>7, <2>1 DEF PhaseDone, Continues
  <2>3. outcome' \in [Version -> {"none", "ok", "failed"}] /\ phaseDone' \subseteq Version
    <3>1. outcome \in [Version -> {"none", "ok", "failed"}] /\ phaseDone \subseteq Version
      BY DEF Typed, LifeTyped
    <3>2. CASE e.kind = "activated"
      BY <1>7, <2>1, <3>1, <3>2 DEF PhaseDone
    <3>3. CASE e.kind # "activated"
      <4>1. /\ outcome' = [outcome EXCEPT ![v] = IF e.kind = "install_ok" THEN "ok" ELSE "failed"]
            /\ UNCHANGED phaseDone
        BY <1>7, <3>3 DEF PhaseDone
      <4> QED
        BY <2>1, <3>1, <4>1
    <3> QED
      BY <3>2, <3>3
  <2> QED
    BY <1>1, <1>7, <2>2, <2>3 DEF PhaseDone, Typed, LifeTyped, HostTyped, ScopeTyped
<1>8. CASE SkipWaiting(e) \/ TryActivate(e)
  <2>1. {now', resume'} \subseteq Version \cup {None}
    BY <1>8 DEF SkipWaiting, TryActivate, Resumes, Typed, LifeTyped, HostTyped, ScopeTyped
  <2>2. UNCHANGED <<state, slot, step, queue, outcome, phaseDone, workerVars, controller, miscVars,
                    scopeVars, parked>>
    BY <1>8 DEF SkipWaiting, TryActivate
  <2> QED
    BY <1>1, <2>1, <2>2 DEF Typed, LifeTyped, HostTyped, ScopeTyped
<1> QED
  BY <1>4, <1>5, <1>6, <1>7, <1>8

LEMMA PostsType ==
    ASSUME Typed, NEW es, es \subseteq WorkerEvents \cup {Try}, Posts(es)
    PROVE  outbox' \subseteq WorkerEvents \cup {Try}
BY DEF Posts, Typed, LifeTyped, HostTyped, ScopeTyped

LEMMA TypedOthers ==
    ASSUME Typed, Counted, Deliver \/ Page \/ \E v \in Version : Thread(v) PROVE Typed'
<1> USE DEF lifeVars, workerVars, holdVars, miscVars, scopeVars
<1>0. Established \in Version /\ \A v \in Version : {Event(v, "eval_ok"), Event(v, "eval_failed"),
          Event(v, "install_ok"), Event(v, "install_failed"), Event(v, "activated"),
          Event(v, "claim"), Event(v, "skip")} \subseteq WorkerEvents
  BY ServiceWorkerAssumption, EventType DEF Evals, Phases
<1>1. CASE Deliver
  BY <1>1 DEF Deliver, Typed, LifeTyped, HostTyped, ScopeTyped
<1>2. ASSUME NEW v \in Version, Spawn(v) PROVE Typed'
  BY <1>2 DEF Spawn, Typed, LifeTyped, HostTyped, ScopeTyped
<1>3. ASSUME NEW v \in Version, PostMessage(v) PROVE Typed'
  <2>0. \A f \in [Version -> Nat] : [f EXCEPT ![v] = @ + 1] \in [Version -> Nat]
    OBVIOUS
  <2>1. swMsgs' \in [Version -> Nat] /\ inbox' \in [Version -> Nat] /\ posted' \in [Version -> Nat]
    BY <1>3, <2>0 DEF PostMessage, Typed, HostTyped, ScopeTyped
  <2> QED
    BY <1>3, <2>1 DEF PostMessage, Typed, LifeTyped, HostTyped, ScopeTyped
<1>4. ASSUME NEW c \in Client, ClientGone(c) PROVE Typed'
  BY <1>4 DEF ClientGone, Typed, LifeTyped, HostTyped, ScopeTyped
<1>5. ASSUME NEW v \in Version, Evaluates(v) PROVE Typed'
  <2>1. outbox' \subseteq WorkerEvents \cup {Try}
    BY <1>0, <1>5, PostsType DEF Evaluates
  <2> QED
    BY <1>5, <2>1 DEF Evaluates, Typed, LifeTyped, HostTyped, ScopeTyped
<1>6. ASSUME NEW v \in Version, PhaseSettles(v) PROVE Typed'
  <2>1. outbox' \subseteq WorkerEvents \cup {Try}
    BY <1>0, <1>6, PostsType DEF PhaseSettles
  <2> QED
    BY <1>6, <2>1 DEF PhaseSettles, Typed, LifeTyped, HostTyped, ScopeTyped
<1>7. ASSUME NEW v \in Version, SkipWaits(v) PROVE Typed'
  <2>1. outbox' \subseteq WorkerEvents \cup {Try}
    BY <1>0, <1>7, PostsType DEF SkipWaits
  <2> QED
    BY <1>7, <2>1 DEF SkipWaits, Typed, LifeTyped, HostTyped, ScopeTyped
<1>8. ASSUME NEW v \in Version, Pull(v) PROVE Typed'
  <2>1. inbox[v] \in Nat /\ inbox[v] > 0 /\ exts[v] \in Nat
    BY <1>8 DEF Pull, Typed, LifeTyped, HostTyped, ScopeTyped
  <2>2. inbox[v] - 1 \in Nat /\ exts[v] + 1 \in Nat
    BY <2>1
  <2> QED
    BY <1>8, <2>2 DEF Pull, Typed, LifeTyped, HostTyped, ScopeTyped
<1>9. ASSUME NEW v \in Version, Settles(v) PROVE Typed'
  <2>0. exts[v] \in Nat /\ exts[v] > 0
    BY <1>9 DEF Settles, Typed, LifeTyped, HostTyped, ScopeTyped
  <2>1. exts[v] - 1 \in Nat
    BY <2>0
  <2>2. outbox' \subseteq WorkerEvents \cup {Try}
    BY <1>0, <1>9, PostsType DEF Settles, Typed, LifeTyped, HostTyped, ScopeTyped
  <2> QED
    BY <1>9, <2>1, <2>2 DEF Settles, Typed, LifeTyped, HostTyped, ScopeTyped
<1>10. ASSUME NEW v \in Version, Dispatched(v) PROVE Typed'
  <2>0. swMsgs[v] \in Nat /\ swMsgs[v] > 0
    <3>1. swMsgs[v] = inbox[v] + 1 /\ inbox[v] \in Nat
      BY <1>10 DEF Dispatched, Typed, LifeTyped, HostTyped, ScopeTyped, Counted
    <3> QED
      BY <3>1
  <2>1. swMsgs[v] - 1 \in Nat
    BY <2>0
  <2>2. outbox' \subseteq WorkerEvents \cup {Try}
    BY <1>10, PostsType DEF Dispatched
  <2> QED
    BY <1>10, <2>1, <2>2 DEF Dispatched, Typed, LifeTyped, HostTyped, ScopeTyped
<1>11. ASSUME NEW v \in Version, Dies(v) PROVE Typed'
  <2>1. outbox' \subseteq WorkerEvents \cup {Try}
    BY <1>11, LastWordsType, PostsType DEF Dies
  <2> QED
    BY <1>11, <2>1 DEF Dies, Typed, LifeTyped, HostTyped, ScopeTyped
<1> QED
  BY <1>1, <1>2, <1>3, <1>4, <1>5, <1>6, <1>7, <1>8, <1>9, <1>10, <1>11 DEF Page, Thread

----------------------------------------------------------------------------
(* The messages and the holds.                                              *)

(* The same of one version.                                                 *)
CountedOf(v) ==
    /\ thread[v] \in {"eval", "poll", "message"} => v \in live
    /\ swMsgs[v] <= posted[v] /\ posted[v] <= MaxMessages[v]
    /\ inbox[v] + exts[v] <= posted[v]
    /\ swMsgs[v] = inbox[v] + (IF thread[v] = "message" THEN 1 ELSE 0)
    /\ v \in extended <=> exts[v] > 0

LEMMA CountedIs == Counted <=> \A v \in Version : CountedOf(v)
BY DEF Counted, CountedOf

LEMMA CountTypes ==
    ASSUME Typed, NEW v \in Version
    PROVE  /\ swMsgs[v] \in Nat /\ inbox[v] \in Nat /\ exts[v] \in Nat /\ posted[v] \in Nat
           /\ MaxMessages[v] \in Nat
BY ServiceWorkerAssumption DEF Typed, HostTyped, ScopeTyped

LEMMA CountedDown ==
    ASSUME Typed, Counted, NEW w \in Version \cup {None}, Down(w), UNCHANGED posted
    PROVE  Counted'
<1> SUFFICES ASSUME NEW v \in Version PROVE CountedOf(v)'
  BY CountedIs DEF Counted, CountedOf
<1>1. CountedOf(v)
  BY CountedIs
<1>2. /\ swMsgs[v] \in Nat /\ inbox[v] \in Nat /\ exts[v] \in Nat /\ posted[v] \in Nat
      /\ MaxMessages[v] \in Nat
  BY CountTypes
<1>3. CASE v = w /\ v \in live
  <2>1. /\ thread'[v] = "dead" /\ swMsgs'[v] = 0 /\ inbox'[v] = 0 /\ exts'[v] = 0
        /\ extended' = extended \ {v} /\ posted' = posted
    BY <1>3 DEF Down
  <2> QED
    BY <1>1, <1>2, <2>1 DEF CountedOf
<1>4. CASE v # w \/ v \notin live
  <2>1. /\ thread'[v] = thread[v] /\ swMsgs'[v] = swMsgs[v] /\ inbox'[v] = inbox[v]
        /\ exts'[v] = exts[v] /\ posted' = posted /\ live' = live \ {w}
    BY <1>4 DEF Down
  <2>2. v \in extended' <=> v \in extended
    BY <1>4 DEF Down
  <2>3. v \in live' <=> v \in live
    BY <1>4, <2>1
  <2> QED
    BY <1>1, <2>1, <2>2, <2>3 DEF CountedOf
<1> QED
  BY <1>3, <1>4

LEMMA CountedSame ==
    ASSUME Counted, UNCHANGED <<thread, live, swMsgs, inbox, exts, extended, posted>>
    PROVE  Counted'
BY DEF Counted

(* The page's steps touch the threads only to take a version down.          *)
LEMMA LifecycleDown ==
    ASSUME Typed, NEW v \in Version, Lifecycle(v)
    PROVE  \/ \E w \in Version \cup {None} : Down(w)
           \/ UNCHANGED <<live, thread, phase, outbox, extended, swMsgs, inbox, exts>>
<1> USE DEF workerVars, holdVars
<1>1. {v, slot.waiting, slot.active} \subseteq Version \cup {None}
  BY DEF Typed, LifeTyped, Slots
<1>2. CASE Stops(v) \/ UpdateFound(v) \/ AwaitMarker(v) \/ ParkActivation(v) \/ Activated(v)
  BY <1>2 DEF Stops, UpdateFound, AwaitMarker, ParkActivation, Activated
<1>3. CASE InstallFailed(v)
  BY <1>1, <1>3, TerminatesDown DEF InstallFailed
<1>4. CASE Installed(v)
  BY <1>1, <1>4, TerminatesDown DEF Installed
<1>5. CASE Activates(v)
  BY <1>1, <1>5, TerminatesDown DEF Activates
<1> QED
  BY <1>2, <1>3, <1>4, <1>5 DEF Lifecycle

Delivers(e) ==
    \/ EvalOk(e) \/ EvalFailed(e) \/ Claim(e) \/ PhaseDone(e)
    \/ SkipWaiting(e) \/ TryActivate(e)

LEMMA DeliveryDown ==
    ASSUME Typed, NEW e \in batch, Delivers(e)
    PROVE  /\ \/ \E w \in Version \cup {None} : Down(w)
              \/ UNCHANGED <<live, thread, phase, outbox, extended, swMsgs, inbox, exts>>
           /\ UNCHANGED posted
<1> USE DEF workerVars, holdVars, miscVars
<1>1. CASE Claim(e) \/ PhaseDone(e) \/ SkipWaiting(e) \/ TryActivate(e)
  BY <1>1 DEF Claim, PhaseDone, SkipWaiting, TryActivate
<1>2. CASE EvalOk(e)
  <2>1. slot.installing \in Version \cup {None}
    BY DEF Typed, LifeTyped, Slots
  <2> QED
    BY <1>2, <2>1, TerminatesDown DEF EvalOk
<1>3. CASE EvalFailed(e)
  <2>1. e.version \in Version
    BY <1>3, HandledType, TryKind DEF EvalFailed, Evals
  <2> QED
    BY <1>3, <2>1, TerminatesDown DEF EvalFailed
<1> QED
  BY <1>1, <1>2, <1>3 DEF Delivers

(* Only a live version counts as one whose script has run.                  *)
LiveStates == {"evaluating", "installing", "installed", "activating", "activated"}
LiveInv == \A v \in Version : v \in live <=> state[v] \in LiveStates

LEMMA CountedStep ==
    ASSUME Typed, Counted, LiveInv, QueueInv, Next PROVE Counted'
<1> USE DEF lifeVars, workerVars, holdVars, miscVars, scopeVars
<1>1. ASSUME NEW v \in Version, Lifecycle(v) PROVE Counted'
  BY <1>1, LifecycleDown, LifecycleMoves, CountedDown, CountedSame
<1>2. ASSUME NEW e \in batch, Delivers(e) PROVE Counted'
  BY <1>2, DeliveryDown, CountedDown, CountedSame
<1>3. ASSUME NEW v \in Version, PhaseSettles(v) \/ SkipWaits(v) PROVE Counted'
  BY <1>3, CountedSame DEF PhaseSettles, SkipWaits
<1>4. ASSUME NEW c \in Client, ClientGone(c) PROVE Counted'
  BY <1>4, CountedSame DEF ClientGone
<1>5. CASE Deliver
  BY <1>5, CountedSame DEF Deliver
<1>6. ASSUME NEW v \in Version,
             Spawn(v) \/ PostMessage(v) \/ Evaluates(v) \/ Pull(v) \/ Settles(v) \/ Dispatched(v)
                 \/ Dies(v)
      PROVE  Counted'
  <2>1. /\ CountedOf(v) /\ swMsgs[v] \in Nat /\ inbox[v] \in Nat /\ exts[v] \in Nat
        /\ posted[v] \in Nat /\ MaxMessages[v] \in Nat
    BY CountedIs, CountTypes
  <2>2. /\ thread \in [Version -> {"none", "eval", "poll", "message", "dead"}]
        /\ swMsgs \in [Version -> Nat] /\ inbox \in [Version -> Nat] /\ exts \in [Version -> Nat]
        /\ posted \in [Version -> Nat]
    BY DEF Typed, HostTyped, ScopeTyped
  <2>3. ASSUME NEW u \in Version, u # v PROVE CountedOf(u)'
    <3>1. CountedOf(u)
      BY CountedIs
    <3>2. /\ thread'[u] = thread[u] /\ swMsgs'[u] = swMsgs[u] /\ inbox'[u] = inbox[u]
          /\ exts'[u] = exts[u] /\ posted'[u] = posted[u] /\ (u \in live' <=> u \in live)
          /\ (u \in extended' <=> u \in extended)
      BY <1>6, <2>2, <2>3
         DEF Spawn, PostMessage, Evaluates, Pull, Settles, Dispatched, Dies
    <3> QED
      BY <3>1, <3>2 DEF CountedOf
  <2>4. CountedOf(v)'
    <3>1. CASE Spawn(v)
      <4>1. v \notin live
        BY <3>1 DEF Spawn, LiveInv, LiveStates
      <4>2. /\ thread'[v] = "eval" /\ v \in live'
            /\ UNCHANGED <<swMsgs, inbox, exts, posted, extended>>
        BY <2>2, <3>1 DEF Spawn
      <4>3. thread[v] # "message"
        BY <2>1, <4>1 DEF CountedOf
      <4> QED
        BY <2>1, <4>2, <4>3 DEF CountedOf
    <3>2. CASE PostMessage(v)
      <4>1. /\ swMsgs'[v] = swMsgs[v] + 1 /\ inbox'[v] = inbox[v] + 1 /\ posted'[v] = posted[v] + 1
            /\ posted[v] < MaxMessages[v] /\ UNCHANGED <<thread, exts, extended, live>>
        BY <2>2, <3>2 DEF PostMessage
      <4> QED
        BY <2>1, <4>1 DEF CountedOf
    <3>3. CASE Evaluates(v)
      <4>1. /\ thread'[v] \in {"poll", "dead"} /\ thread[v] = "eval"
            /\ UNCHANGED <<swMsgs, inbox, exts, posted, extended, live>>
        BY <2>2, <3>3 DEF Evaluates
      <4> QED
        BY <2>1, <4>1 DEF CountedOf
    <3>4. CASE Dies(v)
      <4>1. /\ thread'[v] = "dead" /\ thread[v] = "poll"
            /\ UNCHANGED <<swMsgs, inbox, exts, posted, extended, live>>
        BY <2>2, <3>4 DEF Dies
      <4> QED
        BY <2>1, <4>1 DEF CountedOf
    <3>5. CASE Pull(v)
      <4>1. /\ thread[v] = "poll" /\ thread'[v] = "message" /\ inbox[v] > 0
            /\ inbox'[v] = inbox[v] - 1 /\ UNCHANGED <<swMsgs, posted, live>>
            /\ (exts'[v] = exts[v] + 1 /\ v \in extended')
                  \/ (exts'[v] = exts[v] /\ extended' = extended)
        BY <2>2, <3>5 DEF Pull
      <4> QED
        BY <2>1, <4>1 DEF CountedOf
    <3>6. CASE Settles(v)
      <4>1. /\ exts[v] > 0 /\ exts'[v] = exts[v] - 1 /\ UNCHANGED <<thread, inbox, swMsgs, posted, live>>
            /\ exts[v] = 1 => v \notin extended'
            /\ exts[v] # 1 => extended' = extended
        BY <2>2, <3>6 DEF Settles
      <4> QED
        BY <2>1, <4>1 DEF CountedOf
    <3>7. CASE Dispatched(v)
      <4>1. /\ thread[v] = "message" /\ thread'[v] = "poll" /\ swMsgs'[v] = swMsgs[v] - 1
            /\ UNCHANGED <<inbox, exts, extended, posted, live>>
        BY <2>2, <3>7 DEF Dispatched
      <4> QED
        BY <2>1, <4>1 DEF CountedOf
    <3> QED
      BY <1>6, <3>1, <3>2, <3>3, <3>4, <3>5, <3>6, <3>7
  <2> QED
    BY <2>3, <2>4, CountedIs DEF Counted, CountedOf
<1> QED
  BY <1>1, <1>2, <1>3, <1>4, <1>5, <1>6 DEF Next, Main, Page, Thread, Delivers

LEMMA TypedStep ==
    ASSUME Typed, Counted, QueueInv, Next PROVE Typed'
BY TypedLifecycle, TypedDelivery, TypedOthers DEF Next, Main

----------------------------------------------------------------------------
(* The events on their way.                                                 *)

LEMMA BatchLess ==
    ASSUME Typed, NEW e \in batch, Delivers(e)
    PROVE  /\ now = None
           /\ \A u \in Version : \A k : Event(u, k) \in batch' <=>
                  Event(u, k) \in batch /\ ~(u = e.version /\ k = e.kind)
<1>1. batch' = batch \ {e} /\ now = None
  BY DEF Delivers, EvalOk, EvalFailed, Claim, PhaseDone, SkipWaiting, TryActivate, Handles
<1>2. CASE e = Try
  <2>1. e.version = None
    BY <1>2, EventParts DEF Try
  <2>2. \A u \in Version : \A k : Event(u, k) # Try
    BY Nobody, EventEq DEF Try
  <2> QED
    BY <1>1, <1>2, <2>1, <2>2, Nobody
<1>3. CASE e # Try
  <2>1. e = Event(e.version, e.kind)
    BY <1>3, HandledType
  <2> DEFINE w == e.version
             l == e.kind
  <2>2. e = Event(w, l)
    BY <2>1
  <2> HIDE DEF w, l
  <2>3. \A u, k : Event(u, k) \in batch' <=> Event(u, k) \in batch /\ ~(u = w /\ k = l)
    BY <1>1, <2>2, EventEq
  <2> QED
    BY <1>1, <2>3 DEF w, l
<1> QED
  BY <1>2, <1>3

LEMMA LastWordsAre ==
    ASSUME NEW w \in Version
    PROVE  \A u, k : Event(u, k) \in LastWords(w) <=>
               /\ u = w
               /\ \/ phase[w] = "install" /\ k = "install_failed"
                  \/ phase[w] = "activate" /\ k = "activated"
<1>1. CASE phase[w] = "install"
  <2>1. LastWords(w) = {Event(w, "install_failed")}
    BY <1>1 DEF LastWords
  <2> QED
    BY <1>1, <2>1, EventEq
<1>2. CASE phase[w] = "activate"
  <2>1. LastWords(w) = {Event(w, "activated")}
    BY <1>2 DEF LastWords
  <2> QED
    BY <1>2, <2>1, EventEq
<1>3. CASE phase[w] \notin {"install", "activate"}
  <2>1. LastWords(w) = {}
    BY <1>3 DEF LastWords
  <2> QED
    BY <1>3, <2>1
<1> QED
  BY <1>1, <1>2, <1>3

LEMMA DownPosts ==
    ASSUME Typed, NEW w \in Version \cup {None}, Down(w)
    PROVE  \A u \in Version : \A k : Event(u, k) \in outbox' <=>
               \/ Event(u, k) \in outbox
               \/ /\ u = w /\ u \in live
                  /\ \/ phase[u] = "install" /\ k = "install_failed"
                     \/ phase[u] = "activate" /\ k = "activated"
<1>1. outbox' = outbox \cup (IF w \in live THEN LastWords(w) \cup {Try} ELSE {})
  BY DEF Down
<1>2. \A u \in Version : \A k : Event(u, k) # Try
  BY Nobody, EventEq DEF Try
<1>3. CASE w \in live
  <2>1. w \in Version
    BY <1>3 DEF Typed, HostTyped
  <2> QED
    BY <1>1, <1>2, <1>3, <2>1, LastWordsAre
<1>4. CASE w \notin live
  BY <1>1, <1>4
<1> QED
  BY <1>3, <1>4

----------------------------------------------------------------------------
(* States, slots and steps.                                                 *)

(* Which states each step of a version goes with, and the slot of each      *)
(* state.                                                                   *)
FitsOf(v) ==
    /\ step[v] = "none" <=> state[v] \in {"new", "evaluating", "failed"}
    /\ step[v] \in {"updatefound", "installed"} => state[v] \in {"installing", "redundant"}
    /\ step[v] = "activating" => state[v] \in {"installed", "redundant"}
    /\ step[v] = "activated" => state[v] \in {"activating", "redundant"}
    /\ step[v] = "ended" => state[v] \in {"activated", "redundant"}

SlotOf(v) ==
    /\ slot["installing"] = v <=> state[v] = "installing"
    /\ slot["waiting"] = v <=> state[v] = "installed"
    /\ slot["active"] = v <=> state[v] \in {"activating", "activated"}
    /\ v \in live <=> state[v] \in LiveStates

(* The outcome of a version's evaluation is posted once, when the script     *)
(* has run.                                                                 *)
EvalPending(v) == \E k \in Evals : Event(v, k) \in Pending

EvalOf(v) ==
    /\ thread[v] = "eval" => state[v] = "evaluating" /\ ~EvalPending(v)
    /\ EvalPending(v) => state[v] = "evaluating"
    /\ state[v] = "evaluating" => thread[v] = "eval" \/ EvalPending(v)
    /\ \A k, l \in Evals : ~(Event(v, k) \in outbox /\ Event(v, l) \in batch)
    /\ ~(Event(v, "eval_ok") \in outbox /\ Event(v, "eval_failed") \in outbox)
    /\ ~(Event(v, "eval_ok") \in batch /\ Event(v, "eval_failed") \in batch)

FitsInv == \A v \in Version : FitsOf(v) /\ SlotOf(v)
EvalInv == \A v \in Version : EvalOf(v)
MirrorInv == mirror \in {None, slot["active"]}
LifeInv == FitsInv /\ EvalInv /\ MirrorInv

LEMMA LifeLive == FitsInv => LiveInv
BY DEF FitsInv, SlotOf, LiveInv

(* The marks that a step which is no evaluation leaves as they are.         *)
EvalsSame(u) ==
    \A k \in Evals : /\ Event(u, k) \in outbox' <=> Event(u, k) \in outbox
                     /\ Event(u, k) \in batch' <=> Event(u, k) \in batch

LEMMA EvalSame ==
    ASSUME NEW u, EvalOf(u), EvalsSame(u),
           state'[u] = "evaluating" <=> state[u] = "evaluating",
           \/ thread'[u] = "eval" <=> thread[u] = "eval"
           \/ thread'[u] # "eval" /\ state[u] # "evaluating"
    PROVE  EvalOf(u)'
<1>1. EvalPending(u)' <=> EvalPending(u)
  BY DEF EvalPending, Pending, EvalsSame
<1>2. /\ \A k, l \in Evals : ~(Event(u, k) \in outbox' /\ Event(u, l) \in batch')
      /\ ~(Event(u, "eval_ok") \in outbox' /\ Event(u, "eval_failed") \in outbox')
      /\ ~(Event(u, "eval_ok") \in batch' /\ Event(u, "eval_failed") \in batch')
  BY DEF EvalOf, EvalsSame, Evals
<1> QED
  BY <1>1, <1>2 DEF EvalOf

----------------------------------------------------------------------------
(* What the steps that change a state do.                                   *)

(* Version v takes state s, and w, if it is another one, is retired.        *)
Turns(v, s, w) ==
    /\ state'[v] = s
    /\ \A u \in Version : u # v => state'[u] = IF u = w THEN "redundant" ELSE state[u]

(* The step of v moves to t, no other version's does.                       *)
Steps(v, t) == step'[v] = t /\ \A u \in Version : u # v => step'[u] = step[u]

(* The slots become i, w and a.                                             *)
SlotsBecome(i, w, a) ==
    slot'["installing"] = i /\ slot'["waiting"] = w /\ slot'["active"] = a

InstalledDoes(v) ==
    /\ state[v] = "installing" /\ slot["installing"] = v /\ slot["waiting"] # v /\ outcome[v] = "ok"
    /\ Turns(v, "installed", slot["waiting"]) /\ Steps(v, "activating")
    /\ SlotsBecome(None, v, slot["active"]) /\ Down(slot["waiting"])
    /\ outcome'[v] = "none" /\ \A u \in Version : u # v => outcome'[u] = outcome[u]
    /\ UNCHANGED <<resume, phaseDone, controller, miscVars, scopeVars, parked, batch>>

InstallFailedDoes(v) ==
    /\ state[v] = "installing" /\ slot["installing"] = v
    /\ Turns(v, "redundant", v) /\ Steps(v, "ended")
    /\ SlotsBecome(None, slot["waiting"], slot["active"]) /\ Down(v)
    /\ outcome'[v] = "none" /\ \A u \in Version : u # v => outcome'[u] = outcome[u]
    /\ UNCHANGED <<resume, phaseDone, controller, miscVars, scopeVars, parked, batch>>

ActivatesDoes(v) ==
    /\ state[v] = "installed" /\ slot["waiting"] = v /\ slot["active"] # v /\ MayActivate(v)
    /\ Turns(v, "activating", slot["active"]) /\ Steps(v, "activated")
    /\ SlotsBecome(slot["installing"], None, v) /\ Down(slot["active"]) /\ activating' = v
    /\ UNCHANGED <<resume, outcome, phaseDone, controller, miscVars, claims, parked, batch>>

ActivatedDoes(v) ==
    /\ state[v] = "activating" /\ slot["active"] = v /\ v \in phaseDone
    /\ Turns(v, "activated", None) /\ Steps(v, "ended")
    /\ UNCHANGED slot /\ mirror' = v /\ activating' = None /\ claims' = claims \ {v}
    /\ phaseDone' = phaseDone \ {v}
    /\ controller' = IF v \in claims THEN Claimed(v) ELSE controller
    /\ UNCHANGED <<resume, outcome, live, thread, phase, outbox, holdVars, miscVars, parked, batch>>

EvalOkDoes(e, v) ==
    /\ v \in Version /\ e = Event(v, "eval_ok") /\ state[v] = "evaluating" /\ slot["installing"] # v
    /\ Turns(v, "installing", slot["installing"]) /\ Steps(v, "updatefound")
    /\ SlotsBecome(v, slot["waiting"], slot["active"]) /\ Down(slot["installing"])
    /\ queue' = Append(queue, v)
    /\ UNCHANGED <<now, resume, outcome, phaseDone, controller, miscVars, scopeVars, parked>>

EvalFailedDoes(e, v) ==
    /\ v \in Version /\ e = Event(v, "eval_failed") /\ state[v] = "evaluating"
    /\ Turns(v, "failed", v) /\ Down(v)
    /\ UNCHANGED <<slot, step, queue, now, resume, outcome, phaseDone, controller, miscVars,
                   scopeVars, parked>>

SpawnDoes(v) ==
    /\ state[v] = "new" /\ Turns(v, "evaluating", None) /\ live' = live \cup {v}
    /\ thread'[v] = "eval" /\ \A u \in Version : u # v => thread'[u] = thread[u]
    /\ UNCHANGED <<slot, step, queue, now, resume, outcome, phaseDone, phase, mirror, outbox,
                   holdVars, controller, miscVars, scopeVars, parked, batch>>

LEMMA SlotsDistinct ==
    ASSUME Typed, FitsInv
    PROVE  /\ slot \in [Slots -> Version \cup {None}]
           /\ slot["installing"] \in Version \cup {None} /\ slot["waiting"] \in Version \cup {None}
           /\ slot["active"] \in Version \cup {None}
           /\ \A v \in Version : ~Superseded(v) =>
                /\ step[v] \in {"updatefound", "installed"} =>
                       state[v] = "installing" /\ slot["installing"] = v
                /\ step[v] = "activating" => state[v] = "installed" /\ slot["waiting"] = v
                /\ step[v] = "activated" => state[v] = "activating" /\ slot["active"] = v
<1>1. slot \in [Slots -> Version \cup {None}]
  BY DEF Typed, LifeTyped
<1>2. \A v \in Version : FitsOf(v) /\ SlotOf(v)
  BY DEF FitsInv
<1> QED
  BY <1>1, <1>2 DEF Slots, Superseded, FitsOf, SlotOf

LEMMA InstalledEffect ==
    ASSUME Typed, FitsInv, NEW v \in Version, Installed(v)
    PROVE  InstalledDoes(v)
<1>1. /\ step[v] = "installed" /\ ~Superseded(v) /\ outcome[v] = "ok"
      /\ state' = [u \in Version |-> CASE u = v           -> "installed"
                                       [] u = slot.waiting -> "redundant"
                                       [] OTHER            -> state[u]]
      /\ slot' = [slot EXCEPT !.installing = None, !.waiting = v]
      /\ outcome' = [outcome EXCEPT ![v] = "none"] /\ step' = [step EXCEPT ![v] = "activating"]
      /\ Terminates(slot["waiting"])
      /\ UNCHANGED <<resume, phaseDone, controller, miscVars, scopeVars, parked, batch>>
  BY DEF Installed, Running, GoesOn
<1>2. state[v] = "installing" /\ slot["installing"] = v
  BY <1>1, SlotsDistinct
<1>3. slot["waiting"] # v
  BY <1>2 DEF FitsInv, SlotOf
<1>4. Down(slot["waiting"])
  BY <1>1, SlotsDistinct, TerminatesDown
<1>5. Turns(v, "installed", slot["waiting"])
  <2>1. state'[v] = "installed"
    BY <1>1, <1>3
  <2>2. ASSUME NEW u \in Version, u # v
        PROVE  state'[u] = IF u = slot["waiting"] THEN "redundant" ELSE state[u]
    BY <1>1, <2>2
  <2> QED
    BY <2>1, <2>2 DEF Turns
<1>6. Steps(v, "activating")
  BY <1>1 DEF Steps, Typed, LifeTyped
<1>7. SlotsBecome(None, v, slot["active"])
  BY <1>1, SlotsDistinct DEF SlotsBecome, Slots
<1>8. outcome'[v] = "none" /\ \A u \in Version : u # v => outcome'[u] = outcome[u]
  BY <1>1 DEF Typed, LifeTyped
<1> QED
  BY <1>1, <1>2, <1>3, <1>4, <1>5, <1>6, <1>7, <1>8 DEF InstalledDoes

LEMMA InstallFailedEffect ==
    ASSUME Typed, FitsInv, NEW v \in Version, InstallFailed(v)
    PROVE  InstallFailedDoes(v)
<1>1. /\ step[v] = "installed" /\ ~Superseded(v)
      /\ state' = [state EXCEPT ![v] = "redundant"]
      /\ slot' = [slot EXCEPT !.installing = IF @ = v THEN None ELSE @]
      /\ outcome' = [outcome EXCEPT ![v] = "none"] /\ step' = [step EXCEPT ![v] = "ended"]
      /\ Terminates(v)
      /\ UNCHANGED <<resume, phaseDone, controller, miscVars, scopeVars, parked, batch>>
  BY DEF InstallFailed, Running, Ends
<1>2. state[v] = "installing" /\ slot["installing"] = v
  BY <1>1, SlotsDistinct
<1>4. Down(v)
  BY <1>1, TerminatesDown
<1>5. Turns(v, "redundant", v)
  BY <1>1 DEF Turns, Typed, LifeTyped
<1>6. Steps(v, "ended")
  BY <1>1 DEF Steps, Typed, LifeTyped
<1>7. SlotsBecome(None, slot["waiting"], slot["active"])
  BY <1>1, <1>2, SlotsDistinct DEF SlotsBecome, Slots
<1>8. outcome'[v] = "none" /\ \A u \in Version : u # v => outcome'[u] = outcome[u]
  BY <1>1 DEF Typed, LifeTyped
<1> QED
  BY <1>1, <1>2, <1>4, <1>5, <1>6, <1>7, <1>8 DEF InstallFailedDoes

LEMMA ActivatesEffect ==
    ASSUME Typed, FitsInv, NEW v \in Version, Activates(v)
    PROVE  ActivatesDoes(v)
<1>1. /\ step[v] = "activating" /\ ~Superseded(v) /\ MayActivate(v)
      /\ state' = [u \in Version |-> CASE u = v           -> "activating"
                                       [] u = slot.active -> "redundant"
                                       [] OTHER           -> state[u]]
      /\ slot' = [slot EXCEPT !.waiting = None, !.active = v]
      /\ activating' = v /\ step' = [step EXCEPT ![v] = "activated"]
      /\ Terminates(slot["active"])
      /\ UNCHANGED <<resume, outcome, phaseDone, controller, miscVars, claims, parked, batch>>
  BY DEF Activates, Running, GoesOn
<1>2. state[v] = "installed" /\ slot["waiting"] = v
  BY <1>1, SlotsDistinct
<1>3. slot["active"] # v
  BY <1>2 DEF FitsInv, SlotOf
<1>4. Down(slot["active"])
  BY <1>1, SlotsDistinct, TerminatesDown
<1>5. Turns(v, "activating", slot["active"])
  <2>1. state'[v] = "activating"
    BY <1>1, <1>3
  <2>2. ASSUME NEW u \in Version, u # v
        PROVE  state'[u] = IF u = slot["active"] THEN "redundant" ELSE state[u]
    BY <1>1, <2>2
  <2> QED
    BY <2>1, <2>2 DEF Turns
<1>6. Steps(v, "activated")
  BY <1>1 DEF Steps, Typed, LifeTyped
<1>7. SlotsBecome(slot["installing"], None, v)
  BY <1>1, SlotsDistinct DEF SlotsBecome, Slots
<1> QED
  BY <1>1, <1>2, <1>3, <1>4, <1>5, <1>6, <1>7 DEF ActivatesDoes

LEMMA ActivatedEffect ==
    ASSUME Typed, FitsInv, NEW v \in Version, Activated(v)
    PROVE  ActivatedDoes(v)
<1>1. /\ step[v] = "activated" /\ ~Superseded(v) /\ v \in phaseDone
      /\ state' = [state EXCEPT ![v] = "activated"] /\ step' = [step EXCEPT ![v] = "ended"]
      /\ UNCHANGED slot /\ mirror' = v /\ activating' = None /\ claims' = claims \ {v}
      /\ phaseDone' = phaseDone \ {v}
      /\ controller' = IF v \in claims THEN Claimed(v) ELSE controller
      /\ UNCHANGED <<resume, outcome, live, thread, phase, outbox, holdVars, miscVars, parked, batch>>
  BY DEF Activated, Running, Ends
<1>2. state[v] = "activating" /\ slot["active"] = v
  BY <1>1, SlotsDistinct
<1>3. Turns(v, "activated", None)
  BY <1>1, Nobody DEF Turns, Typed, LifeTyped
<1>4. Steps(v, "ended")
  BY <1>1 DEF Steps, Typed, LifeTyped
<1> QED
  BY <1>1, <1>2, <1>3, <1>4 DEF ActivatedDoes

LEMMA EvalOkEffect ==
    ASSUME Typed, FitsInv, EvalInv, NEW e \in batch, EvalOk(e)
    PROVE  EvalOkDoes(e, e.version)
<1> DEFINE v == e.version
<1>1. v \in Version /\ e = Event(v, e.kind) /\ e.kind = "eval_ok"
  BY HandledType, TryKind DEF EvalOk, Evals
<1>2. /\ state' = [u \in Version |-> CASE u = v               -> "installing"
                                       [] u = slot.installing -> "redundant"
                                       [] OTHER               -> state[u]]
      /\ slot' = [slot EXCEPT !.installing = v]
      /\ Terminates(slot.installing)
      /\ step' = [step EXCEPT ![v] = "updatefound"] /\ queue' = Append(queue, v)
      /\ UNCHANGED <<now, resume, outcome, phaseDone, controller, miscVars, scopeVars, parked>>
  BY DEF EvalOk
<1>3. e = Event(v, "eval_ok")
  BY <1>1
<1> HIDE DEF v
<1>4. EvalPending(v)
  BY <1>3 DEF EvalPending, Pending, Evals
<1>5. state[v] = "evaluating"
  BY <1>1, <1>4 DEF EvalInv, EvalOf
<1>6. slot["installing"] # v
  BY <1>1, <1>5 DEF FitsInv, SlotOf
<1>7. Down(slot["installing"])
  BY <1>2, SlotsDistinct, TerminatesDown
<1>8. Turns(v, "installing", slot["installing"])
  <2>1. state'[v] = "installing"
    BY <1>1, <1>2, <1>6
  <2>2. ASSUME NEW u \in Version, u # v
        PROVE  state'[u] = IF u = slot["installing"] THEN "redundant" ELSE state[u]
    BY <1>2, <2>2
  <2> QED
    BY <2>1, <2>2 DEF Turns
<1>9. Steps(v, "updatefound")
  BY <1>1, <1>2 DEF Steps, Typed, LifeTyped
<1>10. SlotsBecome(v, slot["waiting"], slot["active"])
  BY <1>2, SlotsDistinct DEF SlotsBecome, Slots
<1>11. EvalOkDoes(e, v)
  BY <1>1, <1>2, <1>3, <1>5, <1>6, <1>7, <1>8, <1>9, <1>10 DEF EvalOkDoes
<1> QED
  BY <1>11 DEF v

LEMMA EvalFailedEffect ==
    ASSUME Typed, EvalInv, NEW e \in batch, EvalFailed(e)
    PROVE  EvalFailedDoes(e, e.version)
<1> DEFINE v == e.version
<1>1. v \in Version /\ e = Event(v, e.kind) /\ e.kind = "eval_failed"
  BY HandledType, TryKind DEF EvalFailed, Evals
<1>2. /\ state' = [state EXCEPT ![v] = "failed"] /\ Terminates(v)
      /\ UNCHANGED <<slot, step, queue, now, resume, outcome, phaseDone, controller, miscVars,
                     scopeVars, parked>>
  BY DEF EvalFailed
<1>3. e = Event(v, "eval_failed")
  BY <1>1
<1> HIDE DEF v
<1>4. EvalPending(v)
  BY <1>3 DEF EvalPending, Pending, Evals
<1>5. state[v] = "evaluating"
  BY <1>1, <1>4 DEF EvalInv, EvalOf
<1>7. Down(v)
  BY <1>1, <1>2, TerminatesDown
<1>8. Turns(v, "failed", v)
  BY <1>1, <1>2 DEF Turns, Typed, LifeTyped
<1>11. EvalFailedDoes(e, v)
  BY <1>1, <1>2, <1>3, <1>5, <1>7, <1>8 DEF EvalFailedDoes
<1> QED
  BY <1>11 DEF v

LEMMA SpawnEffect ==
    ASSUME Typed, NEW v \in Version, Spawn(v)
    PROVE  SpawnDoes(v)
<1>1. Turns(v, "evaluating", None)
  BY Nobody DEF Spawn, Turns, Typed, LifeTyped
<1>2. thread'[v] = "eval" /\ \A u \in Version : u # v => thread'[u] = thread[u]
  BY DEF Spawn, Typed, HostTyped
<1> QED
  BY <1>1, <1>2 DEF Spawn, SpawnDoes

----------------------------------------------------------------------------
(* The states, the slots and the steps keep fitting.                        *)

LEMMA FitsSame ==
    ASSUME FitsInv, UNCHANGED <<state, slot, live, step>>
    PROVE  FitsInv'
BY DEF FitsInv, FitsOf, SlotOf

LEMMA FitsLifecycle ==
    ASSUME Typed, FitsInv, NEW v \in Version, Lifecycle(v)
    PROVE  FitsInv'
<1> USE DEF workerVars
<1>a. FitsOf(v) /\ SlotOf(v)
  BY DEF FitsInv
<1> SUFFICES ASSUME NEW u \in Version PROVE FitsOf(u)' /\ SlotOf(u)'
  BY DEF FitsInv
<1>0. FitsOf(u) /\ SlotOf(u) /\ u # None /\ v # None
  BY Nobody DEF FitsInv
<1>1. CASE Stops(v) \/ UpdateFound(v)
  <2>1. UNCHANGED <<state, slot, live>>
    BY <1>1 DEF Stops, UpdateFound
  <2>2. \/ Stops(v) /\ Steps(v, "ended") /\ state[v] = "redundant"
        \/ UpdateFound(v) /\ Steps(v, "installed") /\ step[v] = "updatefound"
    BY <1>1 DEF Stops, UpdateFound, Ends, GoesOn, Steps, Superseded, Running, Typed, LifeTyped
  <2> QED
    BY <1>0, <1>a, <2>1, <2>2 DEF FitsOf, SlotOf, Steps
<1>2. CASE AwaitMarker(v) \/ ParkActivation(v)
  <2>1. UNCHANGED <<state, slot, live, step>>
    BY <1>2 DEF AwaitMarker, ParkActivation, Waits
  <2> QED
    BY <1>0, <2>1 DEF FitsOf, SlotOf
<1>3. CASE InstallFailed(v)
  <2>1. /\ Turns(v, "redundant", v) /\ Steps(v, "ended") /\ live' = live \ {v}
        /\ SlotsBecome(None, slot["waiting"], slot["active"]) /\ state[v] = "installing"
    BY <1>3, InstallFailedEffect DEF InstallFailedDoes, Down
  <2> QED
    BY <1>0, <1>a, <2>1 DEF FitsOf, SlotOf, Steps, Turns, SlotsBecome, LiveStates
<1>4. CASE Installed(v)
  <2>1. /\ Turns(v, "installed", slot["waiting"]) /\ Steps(v, "activating")
        /\ live' = live \ {slot["waiting"]} /\ slot["waiting"] # v
        /\ SlotsBecome(None, v, slot["active"]) /\ state[v] = "installing"
    BY <1>4, InstalledEffect DEF InstalledDoes, Down
  <2> QED
    BY <1>0, <1>a, <2>1 DEF FitsOf, SlotOf, Steps, Turns, SlotsBecome, LiveStates
<1>5. CASE Activates(v)
  <2>1. /\ Turns(v, "activating", slot["active"]) /\ Steps(v, "activated")
        /\ live' = live \ {slot["active"]} /\ slot["active"] # v
        /\ SlotsBecome(slot["installing"], None, v) /\ state[v] = "installed"
    BY <1>5, ActivatesEffect DEF ActivatesDoes, Down
  <2> QED
    BY <1>0, <1>a, <2>1 DEF FitsOf, SlotOf, Steps, Turns, SlotsBecome, LiveStates
<1>6. CASE Activated(v)
  <2>1. /\ Turns(v, "activated", None) /\ Steps(v, "ended")
        /\ UNCHANGED <<live, slot>> /\ state[v] = "activating"
    BY <1>6, ActivatedEffect DEF ActivatedDoes
  <2> QED
    BY <1>0, <1>a, <2>1 DEF FitsOf, SlotOf, Steps, Turns, LiveStates
<1> QED
  BY <1>1, <1>2, <1>3, <1>4, <1>5, <1>6 DEF Lifecycle

LEMMA FitsDelivery ==
    ASSUME Typed, FitsInv, EvalInv, NEW e \in batch, Delivers(e)
    PROVE  FitsInv'
<1> USE DEF workerVars, lifeVars
<1> DEFINE v == e.version
<1>1. CASE Claim(e) \/ PhaseDone(e) \/ SkipWaiting(e) \/ TryActivate(e)
  BY <1>1, FitsSame DEF Claim, PhaseDone, SkipWaiting, TryActivate
<1>2. CASE EvalOk(e)
  <2>1. EvalOkDoes(e, v)
    BY <1>2, EvalOkEffect
  <2> HIDE DEF v
  <2>2. /\ Turns(v, "installing", slot["installing"]) /\ Steps(v, "updatefound")
        /\ live' = live \ {slot["installing"]} /\ slot["installing"] # v
        /\ SlotsBecome(v, slot["waiting"], slot["active"]) /\ state[v] = "evaluating"
        /\ v \in Version
    BY <2>1 DEF EvalOkDoes, Down
  <2> SUFFICES ASSUME NEW u \in Version PROVE FitsOf(u)' /\ SlotOf(u)'
    BY DEF FitsInv
  <2>3. FitsOf(u) /\ SlotOf(u) /\ FitsOf(v) /\ SlotOf(v)
    BY <2>2 DEF FitsInv
  <2> QED
    BY <2>2, <2>3 DEF FitsOf, SlotOf, Steps, Turns, SlotsBecome, LiveStates
<1>3. CASE EvalFailed(e)
  <2>1. EvalFailedDoes(e, v)
    BY <1>3, EvalFailedEffect
  <2> HIDE DEF v
  <2>2. /\ Turns(v, "failed", v) /\ UNCHANGED <<step, slot>> /\ live' = live \ {v}
        /\ state[v] = "evaluating" /\ v \in Version
    BY <2>1 DEF EvalFailedDoes, Down
  <2> SUFFICES ASSUME NEW u \in Version PROVE FitsOf(u)' /\ SlotOf(u)'
    BY DEF FitsInv
  <2>3. FitsOf(u) /\ SlotOf(u) /\ FitsOf(v) /\ SlotOf(v)
    BY <2>2 DEF FitsInv
  <2> QED
    BY <2>2, <2>3 DEF FitsOf, SlotOf, Turns, LiveStates
<1> QED
  BY <1>1, <1>2, <1>3 DEF Delivers

LEMMA FitsStep ==
    ASSUME Typed, FitsInv, EvalInv, Next
    PROVE  FitsInv'
<1> USE DEF lifeVars
<1>1. CASE Deliver
  BY <1>1, FitsSame DEF Deliver
<1>2. ASSUME NEW v \in Version, Thread(v) PROVE FitsInv'
  BY <1>2, FitsSame
     DEF Thread, Evaluates, PhaseSettles, SkipWaits, Pull, Settles, Dispatched, Dies
<1>3. ASSUME NEW v \in Version, PostMessage(v) PROVE FitsInv'
  BY <1>3, FitsSame DEF PostMessage
<1>4. ASSUME NEW c \in Client, ClientGone(c) PROVE FitsInv'
  BY <1>4, FitsSame DEF ClientGone, workerVars
<1>5. ASSUME NEW v \in Version, Spawn(v) PROVE FitsInv'
  <2>1. /\ Turns(v, "evaluating", None) /\ UNCHANGED <<step, slot>> /\ live' = live \cup {v}
        /\ state[v] = "new"
    BY <1>5, SpawnEffect DEF SpawnDoes
  <2> SUFFICES ASSUME NEW u \in Version PROVE FitsOf(u)' /\ SlotOf(u)'
    BY DEF FitsInv
  <2>3. FitsOf(u) /\ SlotOf(u) /\ FitsOf(v) /\ SlotOf(v) /\ u # None
    BY <1>5, Nobody DEF FitsInv
  <2> QED
    BY <2>1, <2>3 DEF FitsOf, SlotOf, Turns, LiveStates
<1> QED
  BY <1>1, <1>2, <1>3, <1>4, <1>5, FitsLifecycle, FitsDelivery DEF Next, Main, Page, Delivers

LEMMA MirrorStep ==
    ASSUME Typed, FitsInv, EvalInv, MirrorInv, Next
    PROVE  MirrorInv'
<1> USE DEF lifeVars, workerVars, MirrorInv
<1>1. ASSUME NEW w, Down(w), slot'["active"] = slot["active"] PROVE MirrorInv'
  BY <1>1 DEF Down
<1>2. ASSUME UNCHANGED <<mirror, slot>> PROVE MirrorInv'
  BY <1>2
<1>3. CASE Deliver
  BY <1>2, <1>3 DEF Deliver
<1>4. ASSUME NEW v \in Version, Thread(v) PROVE MirrorInv'
  BY <1>2, <1>4
     DEF Thread, Evaluates, PhaseSettles, SkipWaits, Pull, Settles, Dispatched, Dies
<1>5. CASE Page
  BY <1>2, <1>5 DEF Page, PostMessage, ClientGone, Spawn
<1>6. ASSUME NEW e \in batch, Claim(e) \/ PhaseDone(e) \/ SkipWaiting(e) \/ TryActivate(e)
      PROVE  MirrorInv'
  BY <1>2, <1>6 DEF Claim, PhaseDone, SkipWaiting, TryActivate
<1>7. ASSUME NEW e \in batch, EvalOk(e) PROVE MirrorInv'
  BY <1>1, <1>7, EvalOkEffect DEF EvalOkDoes, SlotsBecome
<1>8. ASSUME NEW e \in batch, EvalFailed(e) PROVE MirrorInv'
  BY <1>1, <1>8, EvalFailedEffect DEF EvalFailedDoes
<1>9. ASSUME NEW v \in Version, Stops(v) \/ UpdateFound(v) \/ AwaitMarker(v) \/ ParkActivation(v)
      PROVE  MirrorInv'
  BY <1>2, <1>9 DEF Stops, UpdateFound, AwaitMarker, ParkActivation
<1>10. ASSUME NEW v \in Version, InstallFailed(v) PROVE MirrorInv'
  BY <1>1, <1>10, InstallFailedEffect DEF InstallFailedDoes, SlotsBecome
<1>11. ASSUME NEW v \in Version, Installed(v) PROVE MirrorInv'
  BY <1>1, <1>11, InstalledEffect DEF InstalledDoes, SlotsBecome
<1>12. ASSUME NEW v \in Version, Activates(v) PROVE MirrorInv'
  <2>1. Down(slot["active"])
    BY <1>12, ActivatesEffect DEF ActivatesDoes
  <2>2. slot["active"] = None \/ slot["active"] \in live
    BY SlotsDistinct DEF FitsInv, SlotOf, LiveStates
  <2> QED
    BY <2>1, <2>2 DEF Down
<1>13. ASSUME NEW v \in Version, Activated(v) PROVE MirrorInv'
  BY <1>13, ActivatedEffect DEF ActivatedDoes
<1> QED
  BY <1>3, <1>4, <1>5, <1>6, <1>7, <1>8, <1>9, <1>10, <1>11, <1>12, <1>13
     DEF Next, Main, Lifecycle

----------------------------------------------------------------------------
(* The outcome of an evaluation is reported once.                           *)

LEMMA EvalKinds ==
    /\ Evals \cap (Phases \cup {"claim", "skip", "try"}) = {}
    /\ Phases \cap {"claim", "skip", "try"} = {}
BY DEF Evals, Phases

LEMMA EvalDown ==
    ASSUME Typed, EvalInv, FitsInv, NEW w \in Version \cup {None}, Down(w),
           NEW u \in Version, w = u => state[u] # "evaluating",
           state'[u] = "evaluating" <=> state[u] = "evaluating",
           \A k \in Evals : Event(u, k) \in batch' <=> Event(u, k) \in batch
    PROVE  EvalOf(u)'
<1>1. EvalOf(u) /\ SlotOf(u)
  BY DEF EvalInv, FitsInv
<1>2. EvalsSame(u)
  BY DownPosts, EvalKinds DEF EvalsSame, Evals, Phases
<1>3. CASE w = u /\ u \in live
  <2>1. thread'[u] # "eval" /\ state[u] # "evaluating"
    BY <1>3 DEF Down
  <2> QED
    BY <1>1, <1>2, <2>1, EvalSame
<1>4. CASE w # u \/ u \notin live
  <2>1. thread'[u] = thread[u]
    BY <1>4 DEF Down
  <2> QED
    BY <1>1, <1>2, <2>1, EvalSame
<1> QED
  BY <1>3, <1>4

LEMMA EvalPosts ==
    ASSUME Typed, EvalInv, NEW es, Posts(es), NEW u \in Version,
           \A k \in Evals : Event(u, k) \notin es, UNCHANGED <<batch, state>>,
           thread'[u] = "eval" <=> thread[u] = "eval"
    PROVE  EvalOf(u)'
<1>1. EvalOf(u)
  BY DEF EvalInv
<1>2. EvalsSame(u)
  BY DEF EvalsSame, Posts
<1> QED
  BY <1>1, <1>2, EvalSame

LEMMA EvalQuiet ==
    ASSUME EvalInv, UNCHANGED <<state, thread, outbox, batch>>
    PROVE  EvalInv'
BY DEF EvalInv, EvalOf, EvalPending, Pending

LEMMA EvalLifecycle ==
    ASSUME Typed, FitsInv, EvalInv, QueueInv, NEW v \in Version, Lifecycle(v)
    PROVE  EvalInv'
<1> USE DEF workerVars
<1>1. CASE Stops(v) \/ UpdateFound(v) \/ AwaitMarker(v) \/ ParkActivation(v)
  BY <1>1, EvalQuiet DEF Stops, UpdateFound, AwaitMarker, ParkActivation
<1>2. ASSUME NEW s, NEW w \in Version \cup {None}, Turns(v, s, w), Down(w),
             s # "evaluating", state[v] # "evaluating",
             w \in Version => state[w] # "evaluating"
      PROVE  EvalInv'
  <2> SUFFICES ASSUME NEW u \in Version PROVE EvalOf(u)'
    BY DEF EvalInv
  <2>1. state'[u] = "evaluating" <=> state[u] = "evaluating"
    BY <1>2 DEF Turns
  <2>2. UNCHANGED batch
    BY LifecycleMoves
  <2> QED
    BY <1>2, <2>1, <2>2, EvalDown
<1>3. CASE InstallFailed(v)
  BY <1>2, <1>3, InstallFailedEffect DEF InstallFailedDoes
<1>4. CASE Installed(v)
  <2>1. InstalledDoes(v)
    BY <1>4, InstalledEffect
  <2>2. slot["waiting"] \in Version => state[slot["waiting"]] # "evaluating"
    BY DEF FitsInv, SlotOf
  <2> QED
    BY <1>2, <2>1, <2>2, SlotsDistinct DEF InstalledDoes
<1>5. CASE Activates(v)
  <2>1. ActivatesDoes(v)
    BY <1>5, ActivatesEffect
  <2>2. slot["active"] \in Version => state[slot["active"]] # "evaluating"
    BY DEF FitsInv, SlotOf
  <2> QED
    BY <1>2, <2>1, <2>2, SlotsDistinct DEF ActivatesDoes
<1>6. CASE Activated(v)
  <2>1. Turns(v, "activated", None) /\ UNCHANGED <<thread, outbox, batch>> /\ state[v] = "activating"
    BY <1>6, ActivatedEffect DEF ActivatedDoes
  <2> SUFFICES ASSUME NEW u \in Version PROVE EvalOf(u)'
    BY DEF EvalInv
  <2>2. state'[u] = "evaluating" <=> state[u] = "evaluating"
    BY <2>1, Nobody DEF Turns
  <2>3. EvalOf(u) /\ EvalsSame(u)
    BY <2>1 DEF EvalInv, EvalsSame
  <2> QED
    BY <2>1, <2>2, <2>3, EvalSame
<1> QED
  BY <1>1, <1>3, <1>4, <1>5, <1>6 DEF Lifecycle

LEMMA EvalDelivery ==
    ASSUME Typed, FitsInv, EvalInv, NEW e \in batch, Delivers(e)
    PROVE  EvalInv'
<1> USE DEF workerVars, lifeVars
<1> DEFINE v == e.version
<1> SUFFICES ASSUME NEW u \in Version PROVE EvalOf(u)'
  BY DEF EvalInv
<1>0. EvalOf(u)
  BY DEF EvalInv
<1>1. \A k : Event(u, k) \in batch' <=> Event(u, k) \in batch /\ ~(u = v /\ k = e.kind)
  BY BatchLess
<1>2. CASE Claim(e) \/ PhaseDone(e) \/ SkipWaiting(e) \/ TryActivate(e)
  <2>1. e.kind \notin Evals
    BY <1>2, EvalKinds, EventParts DEF Claim, PhaseDone, SkipWaiting, TryActivate, Try
  <2>2. UNCHANGED <<state, thread, outbox>>
    BY <1>2 DEF Claim, PhaseDone, SkipWaiting, TryActivate
  <2>3. EvalsSame(u)
    BY <1>1, <2>1, <2>2 DEF EvalsSame
  <2> QED
    BY <1>0, <2>2, <2>3, EvalSame
<1>3. CASE EvalOk(e)
  <2>0. EvalOkDoes(e, v)
    BY <1>3, EvalOkEffect
  <2>k. e.kind = "eval_ok"
    BY <1>3 DEF EvalOk
  <2> HIDE DEF v
  <2> DEFINE w == slot["installing"]
  <2>1. /\ Turns(v, "installing", w) /\ Down(w) /\ w # v /\ v \in Version
        /\ state[v] = "evaluating" /\ Event(v, "eval_ok") \in batch
    BY <2>0 DEF EvalOkDoes
  <2>2. w \in Version \cup {None} /\ (w \in Version => state[w] # "evaluating")
    BY SlotsDistinct DEF FitsInv, SlotOf
  <2> HIDE DEF w
  <2>3. CASE u # v
    <3>1. state'[u] = "evaluating" <=> state[u] = "evaluating"
      BY <2>1, <2>2, <2>3 DEF Turns
    <3> QED
      BY <1>1, <2>1, <2>2, <2>3, <3>1, EvalDown
  <2>4. CASE u = v
    <3>1. EvalPending(u)
      BY <2>1, <2>4 DEF EvalPending, Pending, Evals
    <3>2. thread'[u] # "eval" /\ state'[u] = "installing"
      BY <1>0, <2>1, <2>4, <3>1 DEF Down, EvalOf, Turns
    <3>3. \A k \in Evals : Event(u, k) \in outbox' <=> Event(u, k) \in outbox
      BY <2>1, <2>2, DownPosts, EvalKinds DEF Evals
    <3>4. \A k \in Evals : Event(u, k) \notin outbox' /\ Event(u, k) \notin batch'
      BY <1>0, <1>1, <2>1, <2>4, <2>k, <3>3 DEF EvalOf, Evals
    <3> QED
      BY <3>2, <3>4 DEF EvalOf, EvalPending, Pending, Evals
  <2> QED
    BY <2>3, <2>4
<1>4. CASE EvalFailed(e)
  <2>0. EvalFailedDoes(e, v)
    BY <1>4, EvalFailedEffect
  <2>k. e.kind = "eval_failed"
    BY <1>4 DEF EvalFailed
  <2> HIDE DEF v
  <2>1. /\ Turns(v, "failed", v) /\ Down(v) /\ v \in Version
        /\ state[v] = "evaluating" /\ Event(v, "eval_failed") \in batch
    BY <2>0 DEF EvalFailedDoes
  <2>3. CASE u # v
    <3>1. state'[u] = "evaluating" <=> state[u] = "evaluating"
      BY <2>1, <2>3 DEF Turns
    <3> QED
      BY <1>1, <2>1, <2>3, <3>1, EvalDown
  <2>4. CASE u = v
    <3>1. v \in live
      BY <2>1 DEF FitsInv, SlotOf, LiveStates
    <3>2. thread'[u] # "eval" /\ state'[u] = "failed"
      BY <2>1, <2>4, <3>1 DEF Down, Turns
    <3>3. \A k \in Evals : Event(u, k) \in outbox' <=> Event(u, k) \in outbox
      BY <2>1, DownPosts, EvalKinds DEF Evals
    <3>4. \A k \in Evals : Event(u, k) \notin outbox' /\ Event(u, k) \notin batch'
      BY <1>0, <1>1, <2>1, <2>4, <2>k, <3>3 DEF EvalOf, Evals
    <3> QED
      BY <3>2, <3>4 DEF EvalOf, EvalPending, Pending, Evals
  <2> QED
    BY <2>3, <2>4
<1> QED
  BY <1>2, <1>3, <1>4 DEF Delivers

LEMMA EvalThread ==
    ASSUME Typed, EvalInv, NEW v \in Version, Thread(v)
    PROVE  EvalInv'
<1> USE DEF lifeVars
<1> SUFFICES ASSUME NEW u \in Version PROVE EvalOf(u)'
  BY DEF EvalInv
<1>0. EvalOf(u) /\ thread \in [Version -> {"none", "eval", "poll", "message", "dead"}]
  BY DEF EvalInv, Typed, HostTyped
<1>1. \A k \in Evals : \A l : Event(u, k) = Event(v, l) <=> u = v /\ k = l
  BY EventEq
<1>2. \A k \in Evals : Event(u, k) # Try
  BY EventEq, Nobody DEF Try
<1>3. CASE Evaluates(v)
  <2>1. PICK k \in Evals : Posts({Event(v, k)})
    BY <1>3 DEF Evaluates, Evals
  <2>2. thread[v] = "eval" /\ thread'[v] # "eval" /\ UNCHANGED <<batch, state>>
    BY <1>0, <1>3 DEF Evaluates
  <2>3. CASE u # v
    <3>1. thread'[u] = thread[u]
      BY <1>0, <1>3, <2>3 DEF Evaluates
    <3>2. \A l \in Evals : Event(u, l) \notin {Event(v, k)}
      BY <1>1, <2>3
    <3> QED
      BY <2>1, <2>2, <3>1, <3>2, EvalPosts
  <2>4. CASE u = v
    <3>1. \A l \in Evals : Event(u, l) \in outbox' <=> l = k
      BY <1>0, <1>1, <2>1, <2>2, <2>4 DEF EvalOf, EvalPending, Pending, Posts
    <3>2. \A l \in Evals : Event(u, l) \notin batch'
      BY <1>0, <2>2, <2>4 DEF EvalOf, EvalPending, Pending
    <3> QED
      BY <1>0, <2>1, <2>2, <2>4, <3>1, <3>2 DEF EvalOf, EvalPending, Pending, Evals
  <2> QED
    BY <2>3, <2>4
<1>4. CASE PhaseSettles(v)
  <2>1. PICK es : /\ Posts(es)
                  /\ es \subseteq {Event(v, k) : k \in Phases \cup {"claim"}}
    BY <1>4 DEF PhaseSettles, Phases
  <2>2. \A k \in Evals : Event(u, k) \notin es
    BY <1>1, <2>1, EvalKinds
  <2> QED
    BY <1>4, <2>1, <2>2, EvalPosts DEF PhaseSettles
<1>5. CASE SkipWaits(v)
  <2>1. \A k \in Evals : Event(u, k) \notin {Event(v, "skip")}
    BY <1>1, EvalKinds
  <2> QED
    BY <1>5, <2>1, EvalPosts DEF SkipWaits
<1>6. CASE Pull(v) \/ Settles(v) \/ Dispatched(v)
  <2>1. PICK es : Posts(es) /\ es \subseteq {Try}
    <3>1. CASE Pull(v)
      <4>1. Posts({})
        BY <3>1 DEF Pull, Posts
      <4> QED
        BY <4>1
    <3>2. CASE Settles(v)
      <4>1. Posts({}) \/ Posts({Try})
        BY <3>2 DEF Settles, Posts
      <4> QED
        BY <4>1
    <3>3. CASE Dispatched(v)
      BY <3>3 DEF Dispatched
    <3> QED
      BY <1>6, <3>1, <3>2, <3>3
  <2>2. thread'[u] = "eval" <=> thread[u] = "eval"
    BY <1>0, <1>6 DEF Pull, Settles, Dispatched
  <2>3. UNCHANGED <<batch, state>>
    BY <1>6 DEF Pull, Settles, Dispatched
  <2> QED
    BY <1>2, <2>1, <2>2, <2>3, EvalPosts
<1>7. CASE Dies(v)
  <2>1. \A k \in Evals : Event(u, k) \notin LastWords(v)
    BY LastWordsAre, EvalKinds DEF Phases
  <2>2. thread'[u] = "eval" <=> thread[u] = "eval"
    BY <1>0, <1>7 DEF Dies
  <2> QED
    BY <1>7, <2>1, <2>2, EvalPosts DEF Dies
<1> QED
  BY <1>3, <1>4, <1>5, <1>6, <1>7 DEF Thread

LEMMA EvalStep ==
    ASSUME Typed, FitsInv, EvalInv, QueueInv, Next
    PROVE  EvalInv'
<1> USE DEF lifeVars, workerVars
<1>1. CASE Deliver
  <2>1. batch = {} /\ batch' = outbox /\ outbox' = {} /\ UNCHANGED <<state, thread>>
    BY <1>1 DEF Deliver, Idle
  <2> QED
    BY <2>1 DEF EvalInv, EvalOf, EvalPending, Pending
<1>2. ASSUME NEW v \in Version, Spawn(v) PROVE EvalInv'
  <2> SUFFICES ASSUME NEW u \in Version PROVE EvalOf(u)'
    BY DEF EvalInv
  <2>1. SpawnDoes(v) /\ EvalOf(u)
    BY <1>2, SpawnEffect DEF EvalInv
  <2>2. EvalsSame(u)
    BY <2>1 DEF SpawnDoes, EvalsSame
  <2>3. CASE u # v
    <3>1. (state'[u] = "evaluating" <=> state[u] = "evaluating") /\ thread'[u] = thread[u]
      BY <2>1, <2>3, Nobody DEF SpawnDoes, Turns
    <3> QED
      BY <2>1, <2>2, <3>1, EvalSame
  <2>4. CASE u = v
    <3>1. ~EvalPending(u) /\ state'[u] = "evaluating" /\ thread'[u] = "eval"
      BY <2>1, <2>4 DEF SpawnDoes, Turns, EvalOf
    <3> QED
      BY <2>2, <3>1 DEF EvalOf, EvalPending, Pending, EvalsSame, Evals
  <2> QED
    BY <2>3, <2>4
<1>3. ASSUME NEW v \in Version, PostMessage(v) PROVE EvalInv'
  BY <1>3, EvalQuiet DEF PostMessage
<1>4. ASSUME NEW c \in Client, ClientGone(c) PROVE EvalInv'
  <2>1. batch = {} /\ batch' \subseteq {Try} /\ UNCHANGED <<state, thread, outbox>>
    BY <1>4 DEF ClientGone, Idle
  <2>2. \A u \in Version : \A k : Event(u, k) # Try
    BY EventEq, Nobody DEF Try
  <2>3. \A u \in Version : EvalsSame(u)
    BY <2>1, <2>2 DEF EvalsSame
  <2> QED
    BY <2>1, <2>3, EvalSame DEF EvalInv
<1> QED
  BY <1>1, <1>2, <1>3, <1>4, EvalLifecycle, EvalDelivery, EvalThread DEF Next, Main, Page, Delivers

----------------------------------------------------------------------------
(* Steps are lined up one at a time.                                        *)

LEMMA QueueStep ==
    ASSUME Typed, FitsInv, EvalInv, QueueInv, Next
    PROVE  QueueInv'
<1> USE DEF lifeVars
<1>0. ASSUME UNCHANGED <<queue, now, step, resume>> PROVE QueueInv'
  BY <1>0 DEF QueueInv, Lined
<1>1. CASE Deliver \/ Page
  BY <1>0, <1>1 DEF Deliver, Page, Spawn, PostMessage, ClientGone
<1>2. ASSUME NEW v \in Version, Thread(v) PROVE QueueInv'
  BY <1>0, <1>2
     DEF Thread, Evaluates, PhaseSettles, SkipWaits, Pull, Settles, Dispatched, Dies
<1>3. ASSUME NEW v \in Version, Lifecycle(v) PROVE QueueInv'
  <2>1. /\ Lined(v) /\ (Moved(v, TRUE) \/ Moved(v, FALSE))
        /\ \A u \in Version : u # v => step'[u] = step[u]
        /\ Moved(v, TRUE) => step'[v] \in InSteps
        /\ resume' = resume \/ (resume' = v /\ UNCHANGED step /\ step[v] = "activating"
                                /\ Moved(v, FALSE))
    BY <1>3, LifecycleMoves
  <2>2. IsInjective(queue') /\ now' = None
    BY <2>1 DEF Moved
  <2>3. \A u \in Version : Lined(u)' <=> Contains(queue', u)
    BY <2>2, Nobody DEF Lined
  <2>4. ASSUME NEW u \in Version, Lined(u)' PROVE step'[u] \in InSteps
    <3>1. CASE u # v
      BY <2>1, <2>3, <2>4, <3>1 DEF Moved, QueueInv
    <3>2. CASE u = v
      BY <2>1, <2>3, <2>4, <3>2 DEF Moved
    <3> QED
      BY <3>1, <3>2
  <2>5. ASSUME resume' # None PROVE ~Lined(resume)' /\ step'[resume'] = "activating"
    <3>0. resume \in Version \cup {None}
      BY DEF Typed, LifeTyped
    <3>1. CASE resume' = resume
      <4>1. ~Lined(resume) /\ step[resume] = "activating" /\ resume \in Version /\ resume # v
        BY <2>1, <2>5, <3>0, <3>1 DEF QueueInv
      <4>2. \A u \in Version : ~Lined(u) => ~Contains(queue', u)
        BY <2>1 DEF Moved
      <4>3. ~Contains(queue', resume) /\ now' # resume
        BY <2>2, <4>1, <4>2, Nobody
      <4> QED
        BY <2>1, <3>1, <4>1, <4>3 DEF Lined
    <3>2. CASE resume' = v /\ UNCHANGED step /\ step[v] = "activating" /\ Moved(v, FALSE)
      <4>1. ~Contains(queue', v) /\ now' # v
        BY <2>2, <3>2, Nobody DEF Moved
      <4> QED
        BY <3>2, <4>1 DEF Lined
    <3> QED
      BY <2>1, <3>1, <3>2
  <2> QED
    BY <2>2, <2>4, <2>5 DEF QueueInv
<1>4. ASSUME NEW e \in batch, EvalOk(e) PROVE QueueInv'
  <2> DEFINE v == e.version
  <2>1. EvalOkDoes(e, v) /\ now = None
    BY <1>4, EvalOkEffect, BatchLess DEF Delivers
  <2> HIDE DEF v
  <2>2. /\ v \in Version /\ queue' = Append(queue, v) /\ step'[v] = "updatefound"
        /\ \A u \in Version : u # v => step'[u] = step[u]
        /\ UNCHANGED <<now, resume>> /\ state[v] = "evaluating"
    BY <2>1 DEF EvalOkDoes, Steps
  <2>3. step[v] = "none"
    BY <2>2 DEF FitsInv, FitsOf
  <2>4. ~Lined(v) /\ resume # v
    BY <2>2, <2>3, Nobody DEF QueueInv, InSteps
  <2>5. queue \in Seq(Version) /\ IsInjective(queue) /\ resume \in Version \cup {None}
    BY DEF QueueInv, Typed, LifeTyped
  <2>6. /\ IsInjective(queue')
        /\ \A x : Contains(queue', x) <=> Contains(queue, x) \/ x = v
    BY <2>2, <2>4, <2>5, AppendQueued DEF Lined
  <2>7. \A x : Lined(x)' <=> Lined(x) \/ x = v
    BY <2>2, <2>6 DEF Lined
  <2>8. \A u \in Version : Lined(u)' => step'[u] \in InSteps
    BY <2>2, <2>7 DEF QueueInv, InSteps
  <2>9. resume' # None => ~Lined(resume)' /\ step'[resume'] = "activating"
    BY <2>2, <2>4, <2>5, <2>7 DEF QueueInv, Lined
  <2> QED
    BY <2>1, <2>2, <2>6, <2>8, <2>9 DEF QueueInv
<1>5. ASSUME NEW e \in batch, EvalFailed(e) \/ Claim(e) PROVE QueueInv'
  BY <1>0, <1>5 DEF EvalFailed, Claim
<1>6. ASSUME NEW e \in batch, PhaseDone(e) PROVE QueueInv'
  <2> DEFINE v == e.version
  <2>1. UNCHANGED <<queue, step, resume>> /\ now = None
    BY <1>6, BatchLess DEF PhaseDone, Delivers
  <2>2. \/ now' = None
        \/ now' = v /\ step[v] \in {"activated", "installed"} /\ ~Contains(queue, v)
    BY <1>6 DEF PhaseDone, Continues
  <2> HIDE DEF v
  <2>3. \A u \in Version : Lined(u)' => Lined(u) \/ (u = v /\ step[v] \in {"activated", "installed"})
    BY <2>1, <2>2, Nobody DEF Lined
  <2>4. resume \in Version \cup {None}
    BY DEF Typed, LifeTyped
  <2>6. ASSUME resume' # None PROVE ~Lined(resume)' /\ step'[resume'] = "activating"
    <3>1. PICK r \in Version : r = resume
      BY <2>1, <2>4, <2>6
    <3>2. ~Lined(r) /\ step[r] = "activating"
      BY <3>1, Nobody DEF QueueInv
    <3>3. ~Lined(r)'
      BY <2>3, <3>2
    <3> QED
      BY <2>1, <3>1, <3>2, <3>3 DEF Lined
  <2>7. \A u \in Version : Lined(u)' => step'[u] \in InSteps
    BY <2>1, <2>3 DEF QueueInv, InSteps
  <2> QED
    BY <2>1, <2>2, <2>6, <2>7 DEF QueueInv
<1>7. ASSUME NEW e \in batch, SkipWaiting(e) \/ TryActivate(e) PROVE QueueInv'
  <2>1. UNCHANGED <<queue, step>> /\ now = None
    BY <1>7, BatchLess DEF SkipWaiting, TryActivate, Delivers
  <2>2. \/ UNCHANGED <<now, resume>>
        \/ now' = resume /\ resume' = None /\ resume # None
    BY <1>7 DEF SkipWaiting, TryActivate, Resumes
  <2>3. CASE now' = resume /\ resume' = None /\ resume # None
    <3>1. ~Contains(queue, resume) /\ step[resume] = "activating"
      BY <2>3 DEF QueueInv, Lined
    <3>2. \A u \in Version : Lined(u)' => Lined(u) \/ u = resume
      BY <2>1, <2>3 DEF Lined
    <3> QED
      BY <2>1, <2>3, <3>1, <3>2 DEF QueueInv, InSteps
  <2> QED
    BY <1>0, <2>1, <2>2, <2>3
<1> QED
  BY <1>1, <1>2, <1>3, <1>4, <1>5, <1>6, <1>7 DEF Next, Main

----------------------------------------------------------------------------
(* Phases, their markers and the claims.                                    *)

InstallMarks == {"install_ok", "install_failed"}
MarkKinds == InstallMarks \cup {"eval_ok", "activated", "claim"}

(* The install outcome of v is on its way.                                  *)
InstallPending(v) == \E k \in InstallMarks : Event(v, k) \in Pending

(* Phase by phase, from the evaluation on.                                  *)
PhaseOf(v) ==
    /\ state[v] = "new" => thread[v] = "none"
    /\ thread[v] \in {"none", "eval"} => phase[v] = "none"
    /\ thread[v] \in {"poll", "message"} => phase[v] # "none"
    /\ thread[v] = "dead" => phase[v] \in {"none", "done"}
    /\ Event(v, "eval_ok") \in Pending => phase[v] # "none"

(* The activated marker is posted once, at the end of the last phase, and a *)
(* claim only with it.                                                      *)
ClaimOf(v) ==
    /\ Event(v, "claim") \in outbox => Event(v, "activated") \in outbox
    /\ Event(v, "claim") \in batch => Event(v, "activated") \in batch
    /\ Event(v, "activated") \in Pending =>
          phase[v] = "done" /\ v \notin phaseDone /\ state[v] # "activated"
    /\ ~(Event(v, "activated") \in outbox /\ Event(v, "activated") \in batch)
    /\ v \in phaseDone => phase[v] = "done" /\ state[v] # "activated"
    /\ v \in claims => state[v] # "activated"
    /\ state[v] = "activated" => phase[v] = "done"

(* The end of the activation is still to come.                              *)
ActivateAhead(v) ==
    phase[v] = "activate" \/ Event(v, "activated") \in Pending \/ v \in phaseDone

(* The install outcome is posted once, and the page is in the middle of     *)
(* whatever it waits for.                                                   *)
MarkOf(v) ==
    /\ InstallPending(v) \/ outcome[v] # "none" =>
          /\ phase[v] \in {"activate", "done"}
          /\ state[v] \notin {"installed", "activating", "activated"}
    /\ InstallPending(v) => outcome[v] = "none"
    /\ \A k, l \in InstallMarks : ~(Event(v, k) \in outbox /\ Event(v, l) \in batch)
    /\ ~(Event(v, "install_ok") \in outbox /\ Event(v, "install_failed") \in outbox)
    /\ ~(Event(v, "install_ok") \in batch /\ Event(v, "install_failed") \in batch)
    /\ (\/ outcome[v] = "ok" \/ Event(v, "install_ok") \in Pending
        \/ state[v] \in {"installed", "activating"})
          => ActivateAhead(v)
    /\ state[v] = "installing" =>
          phase[v] # "none" /\ (phase[v] = "install" \/ outcome[v] # "none" \/ InstallPending(v))
    /\ state[v] = "evaluating" =>
          phase[v] \in {"none", "install"} \/ outcome[v] # "none" \/ InstallPending(v)
    /\ state[v] = "installing" /\ ~Lined(v) => step[v] = "installed" /\ outcome[v] = "none"
    /\ state[v] = "activating" /\ ~Lined(v) => step[v] = "activated" /\ v \notin phaseDone

Marked(v) == PhaseOf(v) /\ ClaimOf(v) /\ MarkOf(v)
MarkInv == \A v \in Version : Marked(v)

(* A step leaves what the thread of version u has to say, or what the page  *)
(* knows of it, as it is.                                                   *)
HostSame(u) ==
    /\ thread'[u] = thread[u] \/ {thread[u], thread'[u]} \subseteq {"poll", "message"}
    /\ phase'[u] = phase[u]
    /\ \A k \in MarkKinds : Event(u, k) \in outbox' <=> Event(u, k) \in outbox

BatchSame(u) == \A k \in MarkKinds : Event(u, k) \in batch' <=> Event(u, k) \in batch

PageSame(u) ==
    /\ state'[u] = state[u] /\ outcome'[u] = outcome[u] /\ step'[u] = step[u]
    /\ u \in phaseDone' <=> u \in phaseDone
    /\ u \in claims' <=> u \in claims
    /\ Lined(u)' <=> Lined(u)
    /\ BatchSame(u)

LEMMA PendingSame ==
    ASSUME NEW u, \A k \in MarkKinds : Event(u, k) \in outbox' <=> Event(u, k) \in outbox,
           BatchSame(u)
    PROVE  /\ InstallPending(u)' <=> InstallPending(u)
           /\ \A k \in MarkKinds : Event(u, k) \in Pending' <=> Event(u, k) \in Pending
BY DEF BatchSame, InstallPending, Pending, MarkKinds, InstallMarks

LEMMA MarkedSame ==
    ASSUME NEW u, Marked(u), HostSame(u), PageSame(u)
    PROVE  Marked(u)'
<1>1. InstallPending(u)' <=> InstallPending(u)
  BY PendingSame DEF HostSame, PageSame
<1>2. \A k \in MarkKinds : Event(u, k) \in Pending' <=> Event(u, k) \in Pending
  BY PendingSame DEF HostSame, PageSame
<1>3. PhaseOf(u)'
  BY <1>2 DEF Marked, PhaseOf, HostSame, PageSame, MarkKinds, InstallMarks
<1>4. ClaimOf(u)'
  BY <1>2 DEF Marked, ClaimOf, HostSame, PageSame, BatchSame, MarkKinds, InstallMarks
<1>5. ActivateAhead(u)' <=> ActivateAhead(u)
  BY <1>2 DEF ActivateAhead, HostSame, PageSame, MarkKinds
<1>6. /\ \A k, l \in InstallMarks : ~(Event(u, k) \in outbox' /\ Event(u, l) \in batch')
      /\ ~(Event(u, "install_ok") \in outbox' /\ Event(u, "install_failed") \in outbox')
      /\ ~(Event(u, "install_ok") \in batch' /\ Event(u, "install_failed") \in batch')
      /\ Event(u, "install_ok") \in Pending' <=> Event(u, "install_ok") \in Pending
  BY <1>2 DEF Marked, MarkOf, HostSame, PageSame, BatchSame, MarkKinds, InstallMarks
<1>7. MarkOf(u)'
  BY <1>1, <1>5, <1>6 DEF Marked, MarkOf, HostSame, PageSame
<1> QED
  BY <1>3, <1>4, <1>7 DEF Marked

LEMMA DownOthers ==
    ASSUME Typed, NEW w \in Version \cup {None}, Down(w), NEW u \in Version, u # w \/ u \notin live
    PROVE  HostSame(u)
BY DownPosts DEF Down, HostSame

(* A version that is taken down says its last words.                        *)
LEMMA MarkedDown ==
    ASSUME Typed, NEW u \in Version, Marked(u), u \in live, Down(u),
           state'[u] \in {"redundant", "failed"}, outcome'[u] \in {outcome[u], "none"},
           u \in phaseDone' <=> u \in phaseDone, u \in claims' <=> u \in claims,
           \A k \in MarkKinds : Event(u, k) \in batch' => Event(u, k) \in batch,
           \A k \in MarkKinds \ {"eval_ok"} : Event(u, k) \in batch => Event(u, k) \in batch'
    PROVE  Marked(u)'
<1>1. thread'[u] = "dead" /\ phase'[u] = "done"
  BY DEF Down
<1>2. \A k : Event(u, k) \in outbox' <=>
          \/ Event(u, k) \in outbox
          \/ phase[u] = "install" /\ k = "install_failed"
          \/ phase[u] = "activate" /\ k = "activated"
  BY DownPosts
<1>3. PhaseOf(u)'
  BY <1>1, <1>2 DEF PhaseOf
<1>4. ClaimOf(u)'
  BY <1>1, <1>2 DEF ClaimOf, Marked, Pending, MarkKinds, InstallMarks
<1>5. MarkOf(u)'
  <2>1. CASE phase[u] = "install"
    <3>1. ~InstallPending(u) /\ outcome[u] = "none" /\ outcome'[u] = "none"
      BY <2>1 DEF Marked, MarkOf
    <3>2. /\ Event(u, "install_failed") \in outbox' /\ Event(u, "install_ok") \notin outbox'
          /\ \A k \in InstallMarks : Event(u, k) \notin batch'
      BY <1>2, <2>1, <3>1 DEF InstallPending, Pending, InstallMarks, MarkKinds
    <3> QED
      BY <1>1, <3>1, <3>2 DEF MarkOf, Pending, InstallMarks
  <2>2. CASE phase[u] # "install"
    <3>1. /\ \A k \in InstallMarks : /\ Event(u, k) \in outbox' <=> Event(u, k) \in outbox
                                     /\ Event(u, k) \in batch' <=> Event(u, k) \in batch
      BY <1>2, <2>2 DEF InstallMarks, MarkKinds
    <3>2. InstallPending(u)' <=> InstallPending(u)
      BY <3>1 DEF InstallPending, Pending
    <3>3. Event(u, "install_ok") \in Pending' <=> Event(u, "install_ok") \in Pending
      BY <3>1 DEF Pending, InstallMarks
    <3>4. ActivateAhead(u) => ActivateAhead(u)'
      <4>1. CASE phase[u] = "activate"
        BY <1>2, <4>1 DEF ActivateAhead, Pending
      <4>2. CASE phase[u] # "activate"
        BY <1>2, <4>2 DEF ActivateAhead, Pending, MarkKinds
      <4> QED
        BY <4>1, <4>2
    <3> QED
      BY <1>1, <3>1, <3>2, <3>3, <3>4 DEF Marked, MarkOf, InstallMarks
  <2> QED
    BY <2>1, <2>2
<1> QED
  BY <1>3, <1>4, <1>5 DEF Marked

LEMMA PageSameIs ==
    ASSUME NEW u, UNCHANGED <<state, step, queue, now, outcome, phaseDone, claims, batch>>
    PROVE  PageSame(u)
BY DEF PageSame, Lined, BatchSame

LEMMA MarkedEvaluates ==
    ASSUME Typed, EvalInv, NEW v \in Version, Marked(v), Evaluates(v)
    PROVE  Marked(v)'
<1>1. /\ thread[v] = "eval" /\ phase[v] = "none" /\ state[v] = "evaluating"
      /\ thread \in [Version -> {"none", "eval", "poll", "message", "dead"}]
      /\ phase \in [Version -> {"none", "install", "activate", "done"}]
  BY DEF Evaluates, Marked, PhaseOf, EvalInv, EvalOf, Typed, HostTyped
<1>2. /\ UNCHANGED <<state, step, queue, now, outcome, phaseDone, claims, batch>>
      /\ \/ thread'[v] = "poll" /\ phase'[v] = "install"
         \/ thread'[v] = "dead" /\ phase'[v] = "none" /\ outbox' = outbox \cup {Event(v, "eval_failed")}
  BY <1>1 DEF Evaluates, lifeVars, scopeVars, Posts
<1>3. \A k \in MarkKinds \ {"eval_ok"} : Event(v, k) \in outbox' <=> Event(v, k) \in outbox
  <2>1. PICK l \in Evals : outbox' = outbox \cup {Event(v, l)}
    BY DEF Evaluates, Posts, Evals
  <2> QED
    BY <2>1, EventEq DEF MarkKinds, InstallMarks, Evals
<1>4. ~InstallPending(v) /\ outcome[v] = "none" /\ Event(v, "activated") \notin Pending
      /\ v \notin phaseDone
  BY <1>1 DEF Marked, MarkOf, ClaimOf
<1>5. \A k \in MarkKinds \ {"eval_ok"} : Event(v, k) \notin Pending /\ Event(v, k) \notin Pending'
  BY <1>2, <1>3, <1>4 DEF InstallPending, Pending, MarkKinds, InstallMarks, Marked, ClaimOf
<1>6. ~InstallPending(v)'
  BY <1>5 DEF InstallPending, MarkKinds, InstallMarks
<1>7. PhaseOf(v)'
  <2>1. CASE thread'[v] = "poll" /\ phase'[v] = "install"
    BY <1>1, <1>2, <2>1 DEF PhaseOf
  <2>2. CASE thread'[v] = "dead" /\ phase'[v] = "none" /\ outbox' = outbox \cup {Event(v, "eval_failed")}
    <3>1. Event(v, "eval_ok") \notin Pending
      BY <1>1 DEF EvalInv, EvalOf, EvalPending, Evals
    <3>2. Event(v, "eval_ok") \notin Pending'
      BY <1>2, <2>2, <3>1, EventEq DEF Pending
    <3> QED
      BY <1>1, <1>2, <2>2, <3>2 DEF PhaseOf
  <2> QED
    BY <1>2, <2>1, <2>2
<1>8. ClaimOf(v)'
  BY <1>1, <1>2, <1>3, <1>4, <1>5 DEF ClaimOf, MarkKinds, Pending
<1>9. MarkOf(v)'
  BY <1>1, <1>2, <1>4, <1>5, <1>6 DEF MarkOf, MarkKinds, InstallMarks, Pending
<1> QED
  BY <1>7, <1>8, <1>9 DEF Marked

(* The last phase ends, or the thread does in it.                           *)
LEMMA MarkedActivate ==
    ASSUME NEW v \in Version, Marked(v), phase[v] = "activate", phase'[v] = "done", PageSame(v),
           thread[v] = "poll", thread'[v] \in {"poll", "dead"},
           Event(v, "activated") \in outbox',
           \A k \in InstallMarks \cup {"eval_ok"} : Event(v, k) \in outbox' <=> Event(v, k) \in outbox
    PROVE  Marked(v)'
<1>1. Event(v, "activated") \notin batch' /\ Event(v, "claim") \notin batch'
      /\ v \notin phaseDone' /\ state'[v] \notin {"activated", "new"}
  BY DEF Marked, ClaimOf, PhaseOf, PageSame, BatchSame, MarkKinds, InstallMarks, Pending
<1>2. \A k \in InstallMarks : /\ Event(v, k) \in outbox' <=> Event(v, k) \in outbox
                              /\ Event(v, k) \in batch' <=> Event(v, k) \in batch
  BY DEF PageSame, BatchSame, MarkKinds, InstallMarks
<1>3. InstallPending(v)' <=> InstallPending(v)
  BY <1>2 DEF InstallPending, Pending
<1>4. PhaseOf(v)'
  BY <1>1 DEF PhaseOf
<1>5. ClaimOf(v)'
  BY <1>1 DEF Marked, ClaimOf, PageSame, Pending
<1>6. ActivateAhead(v)'
  BY DEF ActivateAhead, Pending
<1>7. MarkOf(v)'
  BY <1>2, <1>3, <1>6 DEF Marked, MarkOf, PageSame, InstallMarks
<1> QED
  BY <1>4, <1>5, <1>7 DEF Marked

(* The install phase ends, one way or the other.                            *)
LEMMA MarkedInstall ==
    ASSUME NEW v \in Version, Marked(v), phase[v] = "install", PageSame(v),
           thread[v] = "poll", thread'[v] \in {"poll", "dead"}, NEW l \in InstallMarks,
           thread'[v] = "dead" => l = "install_failed",
           phase'[v] = IF l = "install_ok" THEN "activate" ELSE "done",
           \A k \in MarkKinds : Event(v, k) \in outbox' <=> Event(v, k) \in outbox \/ k = l
    PROVE  Marked(v)'
<1>1. /\ ~InstallPending(v) /\ outcome[v] = "none" /\ v \notin phaseDone
      /\ Event(v, "activated") \notin Pending /\ Event(v, "claim") \notin Pending
  BY DEF Marked, MarkOf, ClaimOf, Pending
<1>2. state'[v] \notin {"new", "installed", "activating", "activated"}
  BY <1>1 DEF Marked, PhaseOf, ClaimOf, MarkOf, ActivateAhead, PageSame
<1>3. \A k \in InstallMarks : Event(v, k) \notin batch' /\ (Event(v, k) \in outbox' <=> k = l)
  BY <1>1 DEF InstallPending, Pending, PageSame, BatchSame, MarkKinds
<1>4. PhaseOf(v)'
  BY <1>2 DEF PhaseOf, InstallMarks
<1>5. /\ Event(v, "activated") \notin Pending' /\ Event(v, "claim") \notin Pending'
      /\ v \notin phaseDone' /\ (v \in claims' => state'[v] # "activated")
  BY <1>1, <1>2 DEF Pending, PageSame, BatchSame, MarkKinds, InstallMarks
<1>6. ClaimOf(v)'
  BY <1>2, <1>5 DEF ClaimOf, Pending
<1>7. InstallPending(v)' /\ (Event(v, "install_ok") \in Pending' <=> l = "install_ok")
  BY <1>3 DEF InstallPending, Pending, InstallMarks
<1>8. l = "install_ok" => ActivateAhead(v)'
  BY DEF ActivateAhead
<1>9. outcome'[v] = "none"
  BY <1>1 DEF PageSame
<1>10. state'[v] = "installing" /\ ~Lined(v)' => step'[v] = "installed"
  BY DEF Marked, MarkOf, PageSame
<1>11. MarkOf(v)'
  BY <1>2, <1>3, <1>7, <1>8, <1>9, <1>10 DEF MarkOf, InstallMarks
<1> QED
  BY <1>4, <1>6, <1>11 DEF Marked

LEMMA MarkThread ==
    ASSUME Typed, EvalInv, MarkInv, NEW v \in Version, Thread(v)
    PROVE  MarkInv'
<1> USE DEF lifeVars, scopeVars
<1>1. \A u \in Version : PageSame(u) /\ Marked(u)
  <2>1. UNCHANGED <<state, step, queue, now, outcome, phaseDone, claims, batch>>
    BY DEF Thread, Evaluates, PhaseSettles, SkipWaits, Pull, Settles, Dispatched, Dies
  <2> QED
    BY <2>1, PageSameIs DEF MarkInv
<1>2. /\ thread \in [Version -> {"none", "eval", "poll", "message", "dead"}]
      /\ phase \in [Version -> {"none", "install", "activate", "done"}]
  BY DEF Typed, HostTyped
<1>3. ASSUME NEW u \in Version, NEW k, u # v PROVE Event(u, k) \in outbox' <=> Event(u, k) \in outbox
  <2>0. Event(u, k) # Try /\ \A l : Event(u, k) # Event(v, l)
    BY <1>3, EventEq, Nobody DEF Try
  <2>1. CASE Evaluates(v) \/ SkipWaits(v) \/ Settles(v) \/ Dispatched(v)
    BY <2>0, <2>1 DEF Evaluates, SkipWaits, Settles, Dispatched, Posts
  <2>2. CASE PhaseSettles(v)
    BY <2>0, <2>2 DEF PhaseSettles, Posts
  <2>3. CASE Pull(v)
    BY <2>3 DEF Pull
  <2>4. CASE Dies(v)
    BY <1>3, <2>4, LastWordsAre DEF Dies, Posts
  <2> QED
    BY <2>1, <2>2, <2>3, <2>4 DEF Thread
<1>4. ASSUME NEW u \in Version, u # v PROVE Marked(u)'
  <2>2. thread'[u] = thread[u] /\ phase'[u] = phase[u]
    BY <1>2, <1>4 DEF Thread, Evaluates, PhaseSettles, SkipWaits, Pull, Settles, Dispatched, Dies
  <2>3. HostSame(u)
    BY <1>3, <1>4, <2>2 DEF HostSame
  <2> QED
    BY <1>1, <2>3, MarkedSame
<1> SUFFICES Marked(v)'
  BY <1>4 DEF MarkInv
<1>5. CASE Evaluates(v)
  BY <1>1, <1>5, MarkedEvaluates
<1>6. CASE PhaseSettles(v) \/ Dies(v)
  <2>0. thread[v] = "poll" /\ thread'[v] \in {"poll", "dead"}
    BY <1>2, <1>6 DEF PhaseSettles, Dies
  <2>1. phase[v] # "none"
    BY <1>1, <2>0 DEF Marked, PhaseOf
  <2>2. CASE phase[v] = "activate"
    <3>1. /\ phase'[v] = "done"
          /\ \/ outbox' = outbox \cup {Event(v, "activated")}
             \/ outbox' = outbox \cup {Event(v, "activated"), Event(v, "claim")}
      BY <1>2, <1>6, <2>2 DEF PhaseSettles, Dies, LastWords, Posts
    <3>2. /\ Event(v, "activated") \in outbox'
          /\ \A k \in InstallMarks \cup {"eval_ok"} :
                Event(v, k) \in outbox' <=> Event(v, k) \in outbox
      BY <3>1, EventEq DEF InstallMarks
    <3> QED
      BY <1>1, <2>0, <2>2, <3>1, <3>2, MarkedActivate
  <2>3. CASE phase[v] = "install"
    <3>1. PICK l \in InstallMarks :
            /\ phase'[v] = IF l = "install_ok" THEN "activate" ELSE "done"
            /\ outbox' = outbox \cup {Event(v, l)}
            /\ thread'[v] = "dead" => l = "install_failed"
      <4>1. CASE PhaseSettles(v)
        <5>1. /\ UNCHANGED thread
              /\ \/ phase'[v] = "activate" /\ outbox' = outbox \cup {Event(v, "install_ok")}
                 \/ phase'[v] = "done" /\ outbox' = outbox \cup {Event(v, "install_failed")}
          BY <1>2, <2>3, <4>1 DEF PhaseSettles, Posts
        <5> QED
          BY <2>0, <5>1 DEF InstallMarks
      <4>2. CASE Dies(v)
        <5>1. phase'[v] = "done" /\ outbox' = outbox \cup {Event(v, "install_failed")}
          BY <1>2, <2>3, <4>2 DEF Dies, Posts, LastWords
        <5> QED
          BY <5>1 DEF InstallMarks
      <4> QED
        BY <1>6, <4>1, <4>2
    <3>2. \A k \in MarkKinds : Event(v, k) \in outbox' <=> Event(v, k) \in outbox \/ k = l
      BY <3>1, EventEq
    <3> QED
      BY <1>1, <2>0, <2>3, <3>1, <3>2, MarkedInstall
  <2>4. CASE phase[v] = "done"
    <3>1. Dies(v) /\ outbox' = outbox /\ phase'[v] = "done" /\ thread'[v] = "dead"
      BY <1>2, <1>6, <2>4 DEF PhaseSettles, Dies, LastWords, Posts
    <3>2. /\ UNCHANGED <<state, step, queue, now, outcome, phaseDone, claims, batch, outbox>>
          /\ phase'[v] = phase[v]
      BY <2>4, <3>1 DEF Dies
    <3>3. /\ MarkOf(v)' <=> MarkOf(v)
          /\ ClaimOf(v)' <=> ClaimOf(v)
      BY <3>2 DEF MarkOf, ClaimOf, Pending, InstallPending, Lined, ActivateAhead
    <3>4. PhaseOf(v)'
      BY <1>1, <2>0, <2>4, <3>1, <3>2 DEF Marked, PhaseOf, Pending
    <3> QED
      BY <1>1, <3>3, <3>4 DEF Marked
  <2> QED
    BY <1>2, <2>1, <2>2, <2>3, <2>4
<1>7. CASE SkipWaits(v) \/ Pull(v) \/ Settles(v) \/ Dispatched(v)
  <2>1. phase'[v] = phase[v] /\ (thread'[v] = thread[v] \/ {thread[v], thread'[v]} \subseteq {"poll", "message"})
    BY <1>2, <1>7 DEF SkipWaits, Pull, Settles, Dispatched
  <2>2. outbox' = outbox \/ outbox' = outbox \cup {Event(v, "skip")} \/ outbox' = outbox \cup {Try}
    BY <1>7 DEF SkipWaits, Pull, Settles, Dispatched, Posts
  <2>3. \A k \in MarkKinds : Event(v, k) # Event(v, "skip") /\ Event(v, k) # Try
    BY EventEq, Nobody DEF MarkKinds, InstallMarks, Try
  <2>4. HostSame(v)
    BY <2>1, <2>2, <2>3 DEF HostSame
  <2> QED
    BY <1>1, <2>4, MarkedSame
<1> QED
  BY <1>5, <1>6, <1>7 DEF Thread

(* The page's steps, where no thread has its say.                           *)
LEMMA SameParts ==
    ASSUME NEW v, Marked(v), HostSame(v), BatchSame(v), v \in phaseDone' <=> v \in phaseDone
    PROVE  /\ state'[v] # "new" \/ state[v] = "new" => PhaseOf(v)'
           /\ InstallPending(v)' <=> InstallPending(v)
           /\ Event(v, "install_ok") \in Pending' <=> Event(v, "install_ok") \in Pending
           /\ ActivateAhead(v)' <=> ActivateAhead(v)
           /\ \A k, l \in InstallMarks : ~(Event(v, k) \in outbox' /\ Event(v, l) \in batch')
           /\ ~(Event(v, "install_ok") \in outbox' /\ Event(v, "install_failed") \in outbox')
           /\ ~(Event(v, "install_ok") \in batch' /\ Event(v, "install_failed") \in batch')
           /\ phase'[v] = phase[v]
           /\ (v \in claims' => v \in claims) /\ (state'[v] = "activated" <=> state[v] = "activated")
                 => ClaimOf(v)'
<1>1. \A k \in MarkKinds : Event(v, k) \in Pending' <=> Event(v, k) \in Pending
  BY PendingSame DEF HostSame
<1>2. state'[v] # "new" \/ state[v] = "new" => PhaseOf(v)'
  BY <1>1 DEF Marked, PhaseOf, HostSame, MarkKinds
<1>3. InstallPending(v)' <=> InstallPending(v)
  BY PendingSame DEF HostSame
<1>4. ActivateAhead(v)' <=> ActivateAhead(v)
  BY <1>1 DEF ActivateAhead, HostSame, MarkKinds
<1>5. /\ \A k, l \in InstallMarks : ~(Event(v, k) \in outbox' /\ Event(v, l) \in batch')
      /\ ~(Event(v, "install_ok") \in outbox' /\ Event(v, "install_failed") \in outbox')
      /\ ~(Event(v, "install_ok") \in batch' /\ Event(v, "install_failed") \in batch')
  BY DEF Marked, MarkOf, HostSame, BatchSame, MarkKinds, InstallMarks
<1>6. (v \in claims' => v \in claims) /\ (state'[v] = "activated" <=> state[v] = "activated")
          => ClaimOf(v)'
  BY <1>1 DEF Marked, ClaimOf, HostSame, BatchSame, MarkKinds
<1> QED
  BY <1>1, <1>2, <1>3, <1>4, <1>5, <1>6 DEF HostSame, MarkKinds, InstallMarks

LEMMA MarkedMoves ==
    ASSUME NEW v, Marked(v), HostSame(v), BatchSame(v), v \in phaseDone' <=> v \in phaseDone,
           v \in claims' <=> v \in claims, state'[v] = state[v],
           outcome'[v] = outcome[v] \/ (outcome'[v] = "none" /\ state[v] = "redundant"),
           state[v] = "installing" /\ ~Lined(v)' => step'[v] = "installed" /\ outcome'[v] = "none",
           state[v] = "activating" /\ ~Lined(v)' => step'[v] = "activated" /\ v \notin phaseDone
    PROVE  Marked(v)'
<1>1. /\ PhaseOf(v)' /\ ClaimOf(v)'
      /\ InstallPending(v)' <=> InstallPending(v)
      /\ Event(v, "install_ok") \in Pending' <=> Event(v, "install_ok") \in Pending
      /\ ActivateAhead(v)' <=> ActivateAhead(v)
      /\ \A k, l \in InstallMarks : ~(Event(v, k) \in outbox' /\ Event(v, l) \in batch')
      /\ ~(Event(v, "install_ok") \in outbox' /\ Event(v, "install_failed") \in outbox')
      /\ ~(Event(v, "install_ok") \in batch' /\ Event(v, "install_failed") \in batch')
      /\ phase'[v] = phase[v]
  BY SameParts
<1>2. MarkOf(v)'
  BY <1>1 DEF Marked, MarkOf
<1> QED
  BY <1>1, <1>2 DEF Marked

LEMMA LifecycleOthers ==
    ASSUME Typed, QueueInv, NEW v \in Version, Lifecycle(v), NEW u \in Version, u # v
    PROVE  /\ step'[u] = step[u] /\ outcome'[u] = outcome[u]
           /\ u \in phaseDone' <=> u \in phaseDone
           /\ u \in claims' <=> u \in claims
           /\ Lined(u)' <=> Lined(u)
<1> USE DEF scopeVars
<1>1. /\ Moved(v, TRUE) \/ Moved(v, FALSE)
      /\ step'[u] = step[u]
  BY LifecycleMoves
<1>2. Lined(u)' <=> Lined(u)
  BY <1>1, Nobody DEF Moved, Lined
<1>3. outcome'[u] = outcome[u]
  BY DEF Typed, LifeTyped, Lifecycle, Stops, UpdateFound, AwaitMarker, InstallFailed, Installed,
         ParkActivation, Activates, Activated
<1>4. /\ u \in phaseDone' <=> u \in phaseDone
      /\ u \in claims' <=> u \in claims
  BY DEF Lifecycle, Stops, UpdateFound, AwaitMarker, InstallFailed, Installed,
         ParkActivation, Activates, Activated
<1> QED
  BY <1>1, <1>2, <1>3, <1>4

(* The version that another one takes the place of, and the others.         *)
LEMMA MarkedOthers ==
    ASSUME Typed, FitsInv, MarkInv, NEW v \in Version, NEW s, NEW w \in Version \cup {None},
           Turns(v, s, w), Down(w), w \in Version => w \in live,
           NEW u \in Version, u # v, BatchSame(u), step'[u] = step[u], outcome'[u] = outcome[u],
           u \in phaseDone' <=> u \in phaseDone, u \in claims' <=> u \in claims,
           Lined(u)' <=> Lined(u)
    PROVE  Marked(u)'
<1>0. Marked(u)
  BY DEF MarkInv
<1>1. CASE u = w
  <2>1. state'[u] = "redundant" /\ u \in live /\ Down(u)
    BY <1>1 DEF Turns
  <2> QED
    BY <1>0, <2>1, MarkedDown DEF BatchSame
<1>2. CASE u # w
  <2>1. state'[u] = state[u]
    BY <1>2 DEF Turns
  <2>2. HostSame(u)
    BY <1>2, DownOthers
  <2>3. PageSame(u)
    BY <2>1 DEF PageSame
  <2> QED
    BY <1>0, <2>2, <2>3, MarkedSame
<1> QED
  BY <1>1, <1>2

LEMMA SlotsLive ==
    ASSUME FitsInv
    PROVE  \A w \in Version : w \in {slot["installing"], slot["waiting"], slot["active"]} => w \in live
BY DEF FitsInv, SlotOf, LiveStates

LEMMA MarkLifecycle ==
    ASSUME Typed, FitsInv, QueueInv, MarkInv, NEW v \in Version, Lifecycle(v)
    PROVE  MarkInv'
<1> USE DEF workerVars, scopeVars
<1>1. \A u \in Version : Marked(u) /\ BatchSame(u)
  <2>1. UNCHANGED batch
    BY LifecycleMoves
  <2> QED
    BY <2>1 DEF MarkInv, BatchSame
<1>2. ASSUME NEW s, NEW w \in Version \cup {None}, Turns(v, s, w), Down(w),
             w \in Version => w \in live, NEW u \in Version, u # v
      PROVE  Marked(u)'
  BY <1>1, <1>2, LifecycleOthers, MarkedOthers
<1>m. /\ Lined(v) /\ (Moved(v, TRUE) \/ Moved(v, FALSE))
      /\ Moved(v, TRUE) => Lined(v)'
  BY LifecycleMoves DEF Moved, Lined
<1>3. CASE Stops(v) \/ UpdateFound(v) \/ AwaitMarker(v) \/ ParkActivation(v)
  <2>1. \A u \in Version : HostSame(u) /\ state'[u] = state[u]
    BY <1>3 DEF Stops, UpdateFound, AwaitMarker, ParkActivation, HostSame
  <2>2. ASSUME NEW u \in Version, u # v PROVE Marked(u)'
    <3>1. PageSame(u)
      BY <1>1, <2>1, <2>2, LifecycleOthers DEF PageSame
    <3> QED
      BY <1>1, <2>1, <3>1, MarkedSame
  <2>3. /\ v \in phaseDone' <=> v \in phaseDone
        /\ v \in claims' <=> v \in claims
        /\ outcome'[v] = outcome[v] \/ (outcome'[v] = "none" /\ state[v] = "redundant")
    BY <1>3 DEF Stops, UpdateFound, AwaitMarker, ParkActivation, Superseded, Typed, LifeTyped
  <2>4. CASE state[v] = "redundant"
    BY <1>1, <2>1, <2>2, <2>3, <2>4, MarkedMoves DEF MarkInv
  <2>5. CASE UpdateFound(v)
    <3>1. Lined(v)'
      BY <1>m, <2>5, GoesOnMoves DEF UpdateFound
    <3> QED
      BY <1>1, <2>1, <2>2, <2>3, <3>1, MarkedMoves DEF MarkInv
  <2>6. CASE AwaitMarker(v)
    <3>1. /\ UNCHANGED step
          /\ \/ step[v] = "installed" /\ outcome[v] = "none"
             \/ step[v] = "activated" /\ v \notin phaseDone
          /\ UNCHANGED outcome
      BY <2>6 DEF AwaitMarker, Waits, Running
    <3>2. state[v] = "installing" => step[v] # "activated"
      BY DEF FitsInv, FitsOf
    <3>3. state[v] = "activating" => step[v] # "installed"
      BY DEF FitsInv, FitsOf
    <3> QED
      BY <1>1, <2>1, <2>2, <2>3, <3>1, <3>2, <3>3, MarkedMoves DEF MarkInv
  <2>7. CASE ParkActivation(v)
    <3>1. state[v] \in {"installed", "redundant"}
      BY <2>7 DEF ParkActivation, Running, FitsInv, FitsOf
    <3> QED
      BY <1>1, <2>1, <2>2, <2>3, <3>1, MarkedMoves DEF MarkInv
  <2> QED
    BY <1>3, <2>4, <2>5, <2>6, <2>7 DEF Stops, Superseded
<1>4. CASE InstallFailed(v)
  <2>1. InstallFailedDoes(v)
    BY <1>4, InstallFailedEffect
  <2>2. v \in live /\ Turns(v, "redundant", v) /\ Down(v) /\ UNCHANGED <<phaseDone, claims>>
        /\ outcome'[v] = "none" /\ state'[v] = "redundant"
    BY <2>1, SlotsLive DEF InstallFailedDoes, Turns
  <2>3. Marked(v)'
    BY <1>1, <2>2, MarkedDown DEF BatchSame
  <2> QED
    BY <1>2, <2>2, <2>3 DEF MarkInv
<1>5. CASE Installed(v)
  <2>1. InstalledDoes(v)
    BY <1>5, InstalledEffect
  <2> DEFINE w == slot["waiting"]
  <2>2. /\ w \in Version \cup {None} /\ (w \in Version => w \in live) /\ w # v
        /\ Turns(v, "installed", w) /\ Down(w)
    BY <2>1, SlotsLive, SlotsDistinct DEF InstalledDoes
  <2> HIDE DEF w
  <2>3. /\ HostSame(v) /\ state'[v] = "installed" /\ UNCHANGED <<phaseDone, claims>>
        /\ state[v] = "installing" /\ outcome[v] = "ok" /\ outcome'[v] = "none"
    BY <2>1, <2>2, DownOthers DEF InstalledDoes, Turns
  <2>4. /\ PhaseOf(v)' /\ ClaimOf(v)' /\ ~InstallPending(v)' /\ ActivateAhead(v)'
        /\ phase'[v] = phase[v]
    BY <1>1, <2>3, SameParts DEF Marked, MarkOf
  <2>5. \A k \in InstallMarks : Event(v, k) \notin outbox' /\ Event(v, k) \notin batch'
    BY <2>4 DEF InstallPending, Pending
  <2>6. MarkOf(v)'
    BY <2>3, <2>4, <2>5 DEF MarkOf, InstallMarks
  <2> QED
    BY <1>2, <2>2, <2>4, <2>6 DEF MarkInv, Marked
<1>6. CASE Activates(v)
  <2>1. ActivatesDoes(v)
    BY <1>6, ActivatesEffect
  <2> DEFINE w == slot["active"]
  <2>2. /\ w \in Version \cup {None} /\ (w \in Version => w \in live) /\ w # v
        /\ Turns(v, "activating", w) /\ Down(w)
    BY <2>1, SlotsLive, SlotsDistinct DEF ActivatesDoes
  <2> HIDE DEF w
  <2>3. /\ HostSame(v) /\ state'[v] = "activating" /\ UNCHANGED <<phaseDone, claims, outcome>>
        /\ state[v] = "installed"
    BY <2>1, <2>2, DownOthers DEF ActivatesDoes, Turns
  <2>m. Lined(v)'
    BY <1>m, <1>6, GoesOnMoves DEF Activates
  <2>4. /\ PhaseOf(v)' /\ ClaimOf(v)' /\ ~InstallPending(v)' /\ ActivateAhead(v)'
        /\ phase'[v] = phase[v] /\ outcome'[v] = "none"
    BY <1>1, <2>3, SameParts DEF Marked, MarkOf
  <2>5. \A k \in InstallMarks : Event(v, k) \notin outbox' /\ Event(v, k) \notin batch'
    BY <2>4 DEF InstallPending, Pending
  <2>6. MarkOf(v)'
    BY <2>m, <2>3, <2>4, <2>5 DEF MarkOf, InstallMarks
  <2> QED
    BY <1>2, <2>2, <2>4, <2>6 DEF MarkInv, Marked
<1>7. CASE Activated(v)
  <2>1. /\ Turns(v, "activated", None) /\ UNCHANGED <<outcome, live, thread, phase, outbox>>
        /\ state[v] = "activating" /\ v \in phaseDone /\ phaseDone' = phaseDone \ {v}
        /\ claims' = claims \ {v}
    BY <1>7, ActivatedEffect DEF ActivatedDoes
  <2>2. \A u \in Version : HostSame(u)
    BY <2>1 DEF HostSame
  <2>3. ASSUME NEW u \in Version, u # v PROVE Marked(u)'
    <3>1. state'[u] = state[u]
      BY <2>1, <2>3, Nobody DEF Turns
    <3>2. PageSame(u)
      BY <1>1, <2>3, <3>1, LifecycleOthers DEF PageSame
    <3> QED
      BY <1>1, <2>2, <3>2, MarkedSame
  <2>4. state'[v] = "activated"
    BY <2>1 DEF Turns
  <2>5. /\ phase[v] = "done" /\ Event(v, "activated") \notin Pending
        /\ ~InstallPending(v) /\ outcome[v] = "none"
    BY <1>1, <2>1 DEF Marked, ClaimOf, MarkOf
  <2>6. \A k \in MarkKinds : Event(v, k) \in Pending' <=> Event(v, k) \in Pending
    BY <1>1, <2>2, PendingSame DEF HostSame
  <2>7. \A k \in InstallMarks \cup {"activated", "claim"} : Event(v, k) \notin outbox' /\ Event(v, k) \notin batch'
    BY <1>1, <2>5, <2>6 DEF Pending, InstallPending, Marked, ClaimOf, MarkKinds, InstallMarks
  <2>8. PhaseOf(v)'
    BY <1>1, <2>1, <2>4, <2>6 DEF Marked, PhaseOf, MarkKinds
  <2>9. ClaimOf(v)'
    BY <2>1, <2>4, <2>5, <2>7 DEF ClaimOf, Pending
  <2>10. MarkOf(v)'
    BY <2>1, <2>4, <2>5, <2>7 DEF MarkOf, InstallPending, Pending, InstallMarks
  <2> QED
    BY <2>3, <2>8, <2>9, <2>10 DEF MarkInv, Marked
<1> QED
  BY <1>3, <1>4, <1>5, <1>6, <1>7 DEF Lifecycle

(* The kinds are handled in their order: the claims before the phases.      *)
LEMMA ClaimsFirst ==
    ASSUME NEW e, e.kind \in Phases, Handles(e), NEW v
    PROVE  Event(v, "claim") \notin batch
<1>1. Kinds[2] = {"claim"} /\ Kinds[3] = Phases /\ 2 \in DOMAIN Kinds /\ 3 \in DOMAIN Kinds
  BY DEF Kinds
<1> DEFINE d == Event(v, "claim")
<1>2. d.kind \in Kinds[2] /\ e.kind \in Kinds[3]
  BY <1>1, EventParts
<1> HIDE DEF d
<1>3. Before(d, e)
  BY <1>1, <1>2 DEF Before
<1>4. d \notin batch
  BY <1>3 DEF Handles
<1> QED
  BY <1>4 DEF d

LEMMA MarkedEvalOk ==
    ASSUME Typed, EvalInv, FitsInv, NEW v \in Version, Marked(v), NEW e \in batch, EvalOkDoes(e, v),
           \A k \in MarkKinds : Event(v, k) \in batch' <=> Event(v, k) \in batch /\ k # "eval_ok",
           Lined(v)'
    PROVE  Marked(v)'
<1>1. /\ state'[v] = "installing" /\ state[v] = "evaluating" /\ Event(v, "eval_ok") \in Pending
      /\ slot["installing"] # v /\ Down(slot["installing"]) /\ slot["installing"] \in Version \cup {None}
      /\ UNCHANGED <<outcome, phaseDone, claims>>
  BY SlotsDistinct DEF EvalOkDoes, Turns, Pending, scopeVars
<1>2. HostSame(v)
  BY <1>1, DownOthers
<1>3. thread[v] # "eval" /\ phase[v] # "none"
  BY <1>1 DEF EvalInv, EvalOf, EvalPending, Evals, Marked, PhaseOf
<1>4. \A k \in MarkKinds \ {"eval_ok"} :
          /\ Event(v, k) \in outbox' <=> Event(v, k) \in outbox
          /\ Event(v, k) \in batch' <=> Event(v, k) \in batch
  BY <1>2 DEF HostSame
<1>5. InstallPending(v)' <=> InstallPending(v)
  BY <1>4 DEF InstallPending, Pending, MarkKinds, InstallMarks
<1>6. ActivateAhead(v)' <=> ActivateAhead(v)
  BY <1>1, <1>2, <1>4 DEF ActivateAhead, Pending, MarkKinds, HostSame
<1>7. PhaseOf(v)'
  BY <1>1, <1>2, <1>3 DEF Marked, PhaseOf, HostSame
<1>8. ClaimOf(v)'
  BY <1>1, <1>2, <1>4 DEF Marked, ClaimOf, HostSame, MarkKinds, Pending
<1>9. MarkOf(v)'
  BY <1>1, <1>2, <1>3, <1>4, <1>5, <1>6
     DEF Marked, MarkOf, HostSame, MarkKinds, InstallMarks, Pending
<1> QED
  BY <1>7, <1>8, <1>9 DEF Marked

LEMMA MarkedPhaseDone ==
    ASSUME Typed, NEW e \in batch, NEW v \in Version, v = e.version, PhaseDone(e), Marked(v),
           e = Event(v, e.kind), Event(v, "claim") \notin batch,
           \A k \in MarkKinds : Event(v, k) \in batch' <=> Event(v, k) \in batch /\ k # e.kind
    PROVE  Marked(v)'
<1>1. /\ e.kind \in Phases /\ now = None /\ Event(v, e.kind) \in batch
      /\ UNCHANGED <<state, step, queue, thread, phase, outbox, claims>>
  BY DEF PhaseDone, Handles, workerVars, scopeVars
<1>2. PhaseOf(v)'
  BY <1>1 DEF Marked, PhaseOf, Pending, MarkKinds, InstallMarks
<1>q. Lined(v) => Lined(v)'
  BY <1>1, Nobody DEF Lined
<1>3. CASE e.kind = "activated"
  <2>1. /\ phaseDone' = phaseDone \cup {v} /\ UNCHANGED outcome
        /\ now' = IF step[v] = "activated" /\ ~Contains(queue, v) THEN v ELSE None
    BY <1>3 DEF PhaseDone, Continues
  <2>2. /\ phase[v] = "done" /\ state[v] # "activated"
        /\ Event(v, "activated") \notin Pending' /\ Event(v, "claim") \notin Pending'
    BY <1>1, <1>3 DEF Marked, ClaimOf, Pending, MarkKinds, InstallMarks
  <2>3. ClaimOf(v)'
    BY <1>1, <2>1, <2>2 DEF Marked, ClaimOf, Pending
  <2>4. \A k \in InstallMarks : /\ Event(v, k) \in outbox' <=> Event(v, k) \in outbox
                                /\ Event(v, k) \in batch' <=> Event(v, k) \in batch
    BY <1>1, <1>3 DEF MarkKinds, InstallMarks
  <2>5. InstallPending(v)' <=> InstallPending(v)
    BY <2>4 DEF InstallPending, Pending
  <2>6. ActivateAhead(v)'
    BY <2>1 DEF ActivateAhead
  <2>7. state[v] = "activating" => Lined(v)'
    <3>1. CASE Lined(v)
      BY <1>q, <3>1
    <3>2. CASE ~Lined(v) /\ state[v] = "activating"
      <4>1. step[v] = "activated" /\ ~Contains(queue, v)
        BY <3>2 DEF Marked, MarkOf, Lined
      <4> QED
        BY <2>1, <4>1 DEF Lined
    <3> QED
      BY <3>1, <3>2
  <2>8. MarkOf(v)'
    BY <1>1, <1>q, <2>1, <2>4, <2>5, <2>6, <2>7 DEF Marked, MarkOf, InstallMarks
  <2> QED
    BY <1>2, <2>3, <2>8 DEF Marked
<1>4. CASE e.kind \in InstallMarks
  <2>1. /\ outcome'[v] = (IF e.kind = "install_ok" THEN "ok" ELSE "failed") /\ UNCHANGED phaseDone
        /\ now' = IF step[v] = "installed" /\ ~Contains(queue, v) THEN v ELSE None
    BY <1>4 DEF PhaseDone, Continues, InstallMarks, Typed, LifeTyped
  <2>2. \A k \in {"activated", "claim"} : Event(v, k) \in batch' <=> Event(v, k) \in batch
    BY <1>4 DEF MarkKinds, InstallMarks
  <2>3. ClaimOf(v)'
    BY <1>1, <2>1, <2>2 DEF Marked, ClaimOf, Pending
  <2>4. InstallPending(v) /\ (e.kind = "install_ok" => Event(v, "install_ok") \in Pending)
    BY <1>1, <1>4 DEF InstallPending, Pending
  <2>5. \A k \in InstallMarks : Event(v, k) \notin outbox' /\ Event(v, k) \notin batch'
    BY <1>1, <1>4 DEF Marked, MarkOf, MarkKinds, InstallMarks
  <2>6. ~InstallPending(v)' /\ Event(v, "install_ok") \notin Pending'
    BY <2>5 DEF InstallPending, Pending, InstallMarks
  <2>7. state[v] = "installing" => Lined(v)'
    <3>1. CASE Lined(v)
      BY <1>q, <3>1
    <3>2. CASE ~Lined(v) /\ state[v] = "installing"
      <4>1. step[v] = "installed" /\ ~Contains(queue, v)
        BY <3>2 DEF Marked, MarkOf, Lined
      <4> QED
        BY <2>1, <4>1 DEF Lined
    <3> QED
      BY <3>1, <3>2
  <2>8. ActivateAhead(v)' <=> ActivateAhead(v)
    BY <1>1, <2>1, <2>2 DEF ActivateAhead, Pending
  <2>9. state[v] \notin {"installed", "activating", "activated"} /\ phase[v] \in {"activate", "done"}
    BY <2>4 DEF Marked, MarkOf
  <2>10. MarkOf(v)'
    BY <1>1, <2>1, <2>4, <2>5, <2>6, <2>7, <2>8, <2>9 DEF Marked, MarkOf, InstallMarks
  <2> QED
    BY <1>2, <2>3, <2>10 DEF Marked
<1> QED
  BY <1>1, <1>3, <1>4 DEF Phases, InstallMarks

LEMMA MarkDelivery ==
    ASSUME Typed, FitsInv, EvalInv, QueueInv, MarkInv, NEW e \in batch, Delivers(e)
    PROVE  MarkInv'
<1> USE DEF workerVars, scopeVars, lifeVars
<1> DEFINE v == e.version
<1>1. now = None /\ \A u \in Version : \A k :
          Event(u, k) \in batch' <=> Event(u, k) \in batch /\ ~(u = v /\ k = e.kind)
  BY BatchLess
<1>2. \A u \in Version : Marked(u) /\ (u # v => BatchSame(u))
  BY <1>1 DEF MarkInv, BatchSame
<1>3. CASE SkipWaiting(e) \/ TryActivate(e)
  <2>1. UNCHANGED <<state, step, queue, outcome, phaseDone, thread, phase, outbox, claims>>
    BY <1>3 DEF SkipWaiting, TryActivate
  <2>2. e.kind \notin MarkKinds
    BY <1>3, EventParts DEF SkipWaiting, TryActivate, Try, MarkKinds, InstallMarks
  <2>3. \A u \in Version : BatchSame(u) /\ HostSame(u)
    BY <1>1, <2>1, <2>2 DEF BatchSame, HostSame
  <2>4. \A u \in Version : Lined(u) => Lined(u)'
    BY <1>1, <2>1, Nobody DEF Lined
  <2> SUFFICES ASSUME NEW u \in Version PROVE Marked(u)'
    BY DEF MarkInv
  <2>5. /\ state[u] = "installing" /\ ~Lined(u)' => step'[u] = "installed" /\ outcome'[u] = "none"
        /\ state[u] = "activating" /\ ~Lined(u)' => step'[u] = "activated" /\ u \notin phaseDone
    BY <1>2, <2>1, <2>4 DEF Marked, MarkOf
  <2> QED
    BY <1>2, <2>1, <2>3, <2>5, MarkedMoves
<1>4. CASE EvalOk(e)
  <2>1. EvalOkDoes(e, v) /\ e.kind = "eval_ok"
    BY <1>4, EvalOkEffect DEF EvalOk
  <2> HIDE DEF v
  <2> DEFINE w == slot["installing"]
  <2>2. /\ w \in Version \cup {None} /\ (w \in Version => w \in live) /\ v \in Version
        /\ Turns(v, "installing", w) /\ Down(w) /\ UNCHANGED <<outcome, phaseDone, claims, now>>
        /\ \A u \in Version : u # v => step'[u] = step[u]
        /\ queue' = Append(queue, v)
    BY <2>1, SlotsLive, SlotsDistinct DEF EvalOkDoes, Steps
  <2> HIDE DEF w
  <2>3. \A x : Contains(queue', x) <=> Contains(queue, x) \/ x = v
    BY <2>2, AppendQueued DEF Typed, LifeTyped
  <2>4. \A x : Lined(x)' <=> Lined(x) \/ x = v
    BY <2>2, <2>3 DEF Lined
  <2>5. \A u \in Version : u # v => Marked(u)'
    BY <1>2, <2>2, <2>4, MarkedOthers
  <2>6. Marked(v)'
    BY <1>1, <1>2, <2>1, <2>2, <2>4, MarkedEvalOk
  <2> QED
    BY <2>5, <2>6 DEF MarkInv
<1>5. CASE EvalFailed(e)
  <2>1. EvalFailedDoes(e, v) /\ e.kind = "eval_failed"
    BY <1>5, EvalFailedEffect DEF EvalFailed
  <2> HIDE DEF v
  <2>2. /\ v \in Version /\ Turns(v, "failed", v) /\ Down(v) /\ state'[v] = "failed"
        /\ UNCHANGED <<outcome, phaseDone, claims, now, queue, step>> /\ state[v] = "evaluating"
    BY <2>1 DEF EvalFailedDoes, Turns
  <2>3. v \in live /\ \A u : Lined(u)' <=> Lined(u)
    BY <2>2 DEF FitsInv, SlotOf, LiveStates, Lined
  <2>5. \A u \in Version : u # v => Marked(u)'
    BY <1>2, <2>2, <2>3, MarkedOthers
  <2>6. BatchSame(v)
    BY <1>1, <2>1, <2>2 DEF BatchSame, MarkKinds, InstallMarks
  <2>7. Marked(v)'
    BY <1>2, <2>2, <2>3, <2>6, MarkedDown DEF BatchSame
  <2> QED
    BY <2>5, <2>7 DEF MarkInv
<1>6. CASE Claim(e)
  <2>1. /\ UNCHANGED <<state, step, queue, now, outcome, phaseDone, thread, phase, outbox>>
        /\ e.kind = "claim" /\ claims \subseteq claims' /\ claims' \subseteq claims \cup {v}
    BY <1>6 DEF Claim
  <2>2. v \in Version /\ e = Event(v, e.kind)
    BY <2>1, HandledType, TryKind
  <2>e. Event(v, "claim") \in batch
    BY <2>1, <2>2
  <2> HIDE DEF v
  <2>3. \A u \in Version : HostSame(u) /\ (Lined(u)' <=> Lined(u))
    BY <2>1 DEF HostSame, Lined
  <2>4. ASSUME NEW u \in Version, u # v PROVE Marked(u)'
    <3>1. PageSame(u)
      BY <1>2, <2>1, <2>3, <2>4 DEF PageSame
    <3> QED
      BY <1>2, <2>3, <3>1, MarkedSame
  <2>5. state[v] # "activated"
    BY <1>2, <2>2, <2>e DEF Marked, ClaimOf, Pending
  <2>6. \A k \in MarkKinds \ {"claim"} : Event(v, k) \in batch' <=> Event(v, k) \in batch
    BY <1>1, <2>1, <2>2
  <2>7. ClaimOf(v)'
    BY <1>1, <1>2, <2>1, <2>2, <2>5, <2>6 DEF Marked, ClaimOf, Pending, MarkKinds
  <2>8. PhaseOf(v)' /\ MarkOf(v)'
    <3>1. PhaseOf(v)'
      BY <1>2, <2>1, <2>2, <2>6 DEF Marked, PhaseOf, Pending, MarkKinds
    <3>2. InstallPending(v)' <=> InstallPending(v)
      BY <2>1, <2>6 DEF InstallPending, Pending, MarkKinds, InstallMarks
    <3>3. ActivateAhead(v)' <=> ActivateAhead(v)
      BY <2>1, <2>6 DEF ActivateAhead, Pending, MarkKinds
    <3>4. MarkOf(v)'
      BY <1>2, <2>1, <2>2, <2>3, <2>6, <3>2, <3>3 DEF Marked, MarkOf, MarkKinds, InstallMarks, Pending
    <3> QED
      BY <3>1, <3>4
  <2> QED
    BY <2>4, <2>7, <2>8 DEF MarkInv, Marked
<1>7. CASE PhaseDone(e)
  <2>1. /\ UNCHANGED <<state, step, queue, thread, phase, outbox, claims>>
        /\ e.kind \in Phases /\ Handles(e)
    BY <1>7 DEF PhaseDone
  <2>2. v \in Version /\ e = Event(v, e.kind)
    BY <2>1, HandledType, TryKind
  <2>3. Event(v, "claim") \notin batch
    BY <2>1, ClaimsFirst
  <2>4. ASSUME NEW u \in Version, u # v PROVE Marked(u)'
    <3>0. outcome'[u] = outcome[u] /\ (u \in phaseDone' <=> u \in phaseDone) /\ now' \in {v, None}
      BY <1>7, <2>4 DEF PhaseDone, Continues, Typed, LifeTyped
    <3>1. PageSame(u)
      BY <1>1, <1>2, <2>1, <2>4, <3>0, Nobody DEF PageSame, Lined
    <3>2. HostSame(u)
      BY <2>1 DEF HostSame
    <3> QED
      BY <1>2, <3>1, <3>2, MarkedSame
  <2>5. \A k \in MarkKinds : Event(v, k) \in batch' <=> Event(v, k) \in batch /\ k # e.kind
    BY <1>1, <2>2
  <2>6. Marked(v)'
    BY <1>2, <1>7, <2>2, <2>3, <2>5, MarkedPhaseDone
  <2> QED
    BY <2>4, <2>6 DEF MarkInv
<1> QED
  BY <1>3, <1>4, <1>5, <1>6, <1>7 DEF Delivers

LEMMA MarkStep ==
    ASSUME Typed, FitsInv, EvalInv, QueueInv, MarkInv, Next
    PROVE  MarkInv'
<1> USE DEF lifeVars, workerVars, scopeVars
<1>0. \A u \in Version : Marked(u)
  BY DEF MarkInv
<1>1. CASE Deliver
  <2>1. /\ batch = {} /\ batch' = outbox /\ outbox' = {}
        /\ UNCHANGED <<state, thread, phase, phaseDone, claims, outcome, step, queue, now>>
    BY <1>1 DEF Deliver, Idle
  <2> SUFFICES ASSUME NEW u \in Version PROVE Marked(u)'
    BY DEF MarkInv
  <2>2. /\ InstallPending(u)' <=> InstallPending(u)
        /\ ActivateAhead(u)' <=> ActivateAhead(u)
        /\ Lined(u)' <=> Lined(u)
    BY <2>1 DEF InstallPending, ActivateAhead, Pending, Lined
  <2>3. PhaseOf(u)'
    BY <1>0, <2>1 DEF Marked, PhaseOf, Pending
  <2>4. ClaimOf(u)'
    BY <1>0, <2>1 DEF Marked, ClaimOf, Pending
  <2>5. MarkOf(u)'
    BY <1>0, <2>1, <2>2 DEF Marked, MarkOf, Pending
  <2> QED
    BY <2>3, <2>4, <2>5 DEF Marked
<1>2. ASSUME NEW v \in Version, Spawn(v) PROVE MarkInv'
  <2>1. SpawnDoes(v)
    BY <1>2, SpawnEffect
  <2>2. \A u \in Version : u # v => HostSame(u) /\ PageSame(u)
    BY <2>1, Nobody DEF SpawnDoes, Turns, HostSame, PageSame, BatchSame, Lined
  <2>3. \A u \in Version : u # v => Marked(u)'
    BY <1>0, <2>2, MarkedSame
  <2>4. state[v] = "new" /\ phase[v] = "none" /\ state'[v] = "evaluating" /\ thread'[v] = "eval"
        /\ UNCHANGED <<phase, outbox, batch, phaseDone, claims, outcome>>
    BY <1>0, <1>2, <2>1 DEF SpawnDoes, Turns, Marked, PhaseOf
  <2>5. /\ InstallPending(v)' <=> InstallPending(v)
        /\ ActivateAhead(v)' <=> ActivateAhead(v)
    BY <2>4 DEF InstallPending, ActivateAhead, Pending
  <2>6. PhaseOf(v)' /\ ClaimOf(v)'
    BY <1>0, <1>2, <2>4 DEF Marked, PhaseOf, ClaimOf, Pending
  <2>7. MarkOf(v)'
    BY <1>0, <1>2, <2>4, <2>5 DEF Marked, MarkOf, Pending
  <2> QED
    BY <2>3, <2>6, <2>7 DEF MarkInv, Marked
<1>3. ASSUME NEW v \in Version, PostMessage(v) PROVE MarkInv'
  <2>1. \A u \in Version : HostSame(u) /\ PageSame(u)
    BY <1>3 DEF PostMessage, HostSame, PageSame, BatchSame, Lined
  <2> QED
    BY <1>0, <2>1, MarkedSame DEF MarkInv
<1>4. ASSUME NEW c \in Client, ClientGone(c) PROVE MarkInv'
  <2>1. /\ batch = {} /\ batch' \subseteq {Try}
        /\ UNCHANGED <<state, thread, phase, phaseDone, claims, outcome, step, queue, now, outbox>>
    BY <1>4 DEF ClientGone, Idle
  <2>2. \A u \in Version : \A k : Event(u, k) # Try
    BY EventEq, Nobody DEF Try
  <2>3. \A u \in Version : HostSame(u) /\ PageSame(u)
    BY <2>1, <2>2 DEF HostSame, PageSame, BatchSame, Lined
  <2> QED
    BY <1>0, <2>3, MarkedSame DEF MarkInv
<1> QED
  BY <1>1, <1>2, <1>3, <1>4, MarkLifecycle, MarkDelivery, MarkThread DEF Next, Main, Page, Delivers

----------------------------------------------------------------------------
(* A parked activation.                                                     *)

ParkInv ==
    /\ resume # None => parked
    /\ activating \in {None, slot["active"]}

(* A wakeup for version r is on its way.                                    *)
Roused(r) == Try \in Pending \/ Event(r, "skip") \in Pending

RestInv == resume # None /\ resume = slot["waiting"] /\ MayActivate(resume) => Roused(resume)

WakeInv == ParkInv /\ RestInv

LEMMA ParkStep ==
    ASSUME Typed, FitsInv, EvalInv, ParkInv, Next
    PROVE  ParkInv'
<1> USE DEF lifeVars, workerVars, scopeVars, ParkInv
<1>0. ASSUME \/ UNCHANGED <<resume, parked>>
             \/ resume' = None /\ UNCHANGED parked
             \/ parked' = TRUE,
             \/ activating' = None
             \/ activating' = activating /\ slot'["active"] = slot["active"]
             \/ activating' = slot'["active"]
      PROVE  ParkInv'
  BY <1>0
<1>1. CASE Deliver \/ Page
  BY <1>0, <1>1 DEF Deliver, Page, Spawn, PostMessage, ClientGone
<1>2. ASSUME NEW v \in Version, Thread(v) PROVE ParkInv'
  BY <1>0, <1>2
     DEF Thread, Evaluates, PhaseSettles, SkipWaits, Pull, Settles, Dispatched, Dies
<1>3. ASSUME NEW v \in Version, Stops(v) \/ UpdateFound(v) \/ AwaitMarker(v) \/ ParkActivation(v)
      PROVE  ParkInv'
  BY <1>0, <1>3 DEF Stops, UpdateFound, AwaitMarker, ParkActivation
<1>4. ASSUME NEW v \in Version, InstallFailed(v) PROVE ParkInv'
  BY <1>0, <1>4, InstallFailedEffect DEF InstallFailedDoes, SlotsBecome
<1>5. ASSUME NEW v \in Version, Installed(v) PROVE ParkInv'
  BY <1>0, <1>5, InstalledEffect DEF InstalledDoes, SlotsBecome
<1>6. ASSUME NEW v \in Version, Activates(v) PROVE ParkInv'
  BY <1>0, <1>6, ActivatesEffect DEF ActivatesDoes, SlotsBecome
<1>7. ASSUME NEW v \in Version, Activated(v) PROVE ParkInv'
  BY <1>0, <1>7, ActivatedEffect DEF ActivatedDoes
<1>8. ASSUME NEW e \in batch, EvalOk(e) PROVE ParkInv'
  BY <1>0, <1>8, EvalOkEffect DEF EvalOkDoes, SlotsBecome
<1>9. ASSUME NEW e \in batch, EvalFailed(e) PROVE ParkInv'
  BY <1>0, <1>9, EvalFailedEffect DEF EvalFailedDoes
<1>10. ASSUME NEW e \in batch, Claim(e) \/ PhaseDone(e) \/ SkipWaiting(e) \/ TryActivate(e)
       PROVE  ParkInv'
  BY <1>0, <1>10 DEF Claim, PhaseDone, SkipWaiting, TryActivate, Resumes
<1> QED
  BY <1>1, <1>2, <1>3, <1>4, <1>5, <1>6, <1>7, <1>8, <1>9, <1>10 DEF Next, Main, Lifecycle

LEMMA RestRoused ==
    ASSUME Try \in outbox' \cup batch' PROVE RestInv'
BY DEF RestInv, Roused, Pending

(* The gate lets r through no sooner than before, and no wakeup is lost.    *)
LEMMA RestSame ==
    ASSUME Typed, RestInv, resume' = resume, slot'["waiting"] = slot["waiting"],
           slot'["active"] = slot["active"],
           \A a \in Version : a = slot["active"] =>
               (Extended(a) => Extended(a)') /\ (ControlsClients(a) => ControlsClients(a)'),
           \A r \in Version : r = resume /\ r = slot["waiting"] =>
               /\ r \in skip' /\ r \in live' => r \in skip /\ r \in live
               /\ Event(r, "skip") \in Pending => Event(r, "skip") \in Pending',
           Try \in Pending => Try \in Pending'
    PROVE  RestInv'
<1> SUFFICES ASSUME NEW r \in Version, r = resume, r = slot["waiting"], MayActivate(r)',
                    resume # None
             PROVE  Roused(r)'
  <2>1. resume \in Version \cup {None}
    BY DEF Typed, LifeTyped
  <2> QED
    BY <2>1 DEF RestInv, MayActivate, Roused
<1> PICK a \in Version \cup {None} : a = slot["active"]
  BY DEF Typed, LifeTyped, Slots
<1>1. MayActivate(r)
  <2>1. CASE a \in {None, r}
    BY <2>1 DEF MayActivate
  <2>2. CASE a \notin {None, r}
    <3>1. a \in Version /\ (Extended(a) => Extended(a)') /\ (ControlsClients(a) => ControlsClients(a)')
      BY <2>2
    <3>2. /\ ~Extended(a)'
          /\ (r \in skip' /\ r \in live') \/ ~ControlsClients(a)'
      BY <2>2 DEF MayActivate, Extended, ControlsClients
    <3>3. ~Extended(a) /\ ((r \in skip /\ r \in live) \/ ~ControlsClients(a))
      BY <3>1, <3>2
    <3> QED
      BY <3>3 DEF MayActivate
  <2> QED
    BY <2>1, <2>2
<1>2. Roused(r)
  BY <1>1 DEF RestInv
<1> QED
  BY <1>2 DEF Roused

(* Where neither the gate nor the parked version changes.                   *)
LEMMA RestQuiet ==
    ASSUME Typed, RestInv,
           UNCHANGED <<slot, skip, live, extended, swMsgs, mirror, controller>>,
           resume' = resume, Try \in Pending => Try \in Pending',
           \A r \in Version : r = resume /\ r = slot["waiting"] =>
               (Event(r, "skip") \in Pending => Event(r, "skip") \in Pending')
    PROVE  RestInv'
BY RestSame DEF Extended, ControlsClients

LEMMA RestThread ==
    ASSUME Typed, Counted, RestInv, NEW v \in Version, Thread(v)
    PROVE  RestInv'
<1> USE DEF lifeVars, holdVars, miscVars
<1>1. /\ UNCHANGED <<slot, resume, live, mirror, controller, batch>> /\ outbox \subseteq outbox'
  BY DEF Thread, Evaluates, PhaseSettles, SkipWaits, Pull, Settles, Dispatched, Dies, Posts
<1>2. /\ Try \in Pending => Try \in Pending'
      /\ \A r : Event(r, "skip") \in Pending => Event(r, "skip") \in Pending'
  BY <1>1 DEF Pending
<1>3. CASE Evaluates(v) \/ PhaseSettles(v) \/ Dies(v)
  BY <1>1, <1>2, <1>3, RestQuiet DEF Evaluates, PhaseSettles, Dies
<1>4. CASE SkipWaits(v)
  <2>1. UNCHANGED <<extended, swMsgs>> /\ skip' = skip \cup {v} /\ outbox' = outbox \cup {Event(v, "skip")}
    BY <1>4 DEF SkipWaits, Posts
  <2>2. CASE v = resume
    <3>1. Roused(resume)'
      BY <1>1, <2>1, <2>2 DEF Roused, Pending
    <3> QED
      BY <3>1 DEF RestInv
  <2>3. CASE v # resume
    <3>1. \A a \in Version : (Extended(a) => Extended(a)') /\ (ControlsClients(a) => ControlsClients(a)')
      BY <1>1, <2>1 DEF Extended, ControlsClients
    <3> QED
      BY <1>1, <1>2, <2>1, <2>3, <3>1, RestSame
  <2> QED
    BY <2>2, <2>3
<1>5. CASE Pull(v)
  <2>1. UNCHANGED <<skip, swMsgs>> /\ extended \subseteq extended'
    BY <1>5 DEF Pull
  <2>2. \A a \in Version : (Extended(a) => Extended(a)') /\ (ControlsClients(a) => ControlsClients(a)')
    BY <1>1, <2>1 DEF Extended, ControlsClients
  <2> QED
    BY <1>1, <1>2, <2>1, <2>2, RestSame
<1>6. CASE Settles(v)
  <2>1. CASE exts[v] = 1
    BY <1>6, <2>1, RestRoused DEF Settles, Posts
  <2>2. CASE exts[v] # 1
    BY <1>1, <1>2, <1>6, <2>2, RestQuiet DEF Settles
  <2> QED
    BY <2>1, <2>2
<1>7. CASE Dispatched(v)
  <2>1. CASE LastHold(v)
    BY <1>7, <2>1, RestRoused DEF Dispatched, Posts
  <2>2. CASE ~LastHold(v)
    <3>1. UNCHANGED <<skip, extended>> /\ swMsgs' = [swMsgs EXCEPT ![v] = @ - 1] /\ thread[v] = "message"
      BY <1>7 DEF Dispatched
    <3>2. swMsgs \in [Version -> Nat] /\ swMsgs[v] \in Nat /\ inbox[v] \in Nat /\ swMsgs[v] = inbox[v] + 1
      BY <3>1, CountTypes DEF Counted, Typed, HostTyped
    <3>3. v \in extended \/ swMsgs[v] > 1
      BY <2>2, <3>2 DEF LastHold
    <3>4. swMsgs'[v] = swMsgs[v] - 1 /\ \A a \in Version : a # v => swMsgs'[a] = swMsgs[a]
      BY <3>1, <3>2
    <3>5. v \in extended \/ swMsgs'[v] > 0
      BY <3>2, <3>3, <3>4
    <3>6. \A a \in Version : Extended(a) => Extended(a)'
      BY <1>1, <3>1, <3>4, <3>5 DEF Extended
    <3>7. \A a \in Version : ControlsClients(a) => ControlsClients(a)'
      BY <1>1 DEF ControlsClients
    <3> QED
      BY <1>1, <1>2, <3>1, <3>6, <3>7, RestSame
  <2> QED
    BY <2>1, <2>2
<1> QED
  BY <1>3, <1>4, <1>5, <1>6, <1>7 DEF Thread

LEMMA RestLifecycle ==
    ASSUME Typed, FitsInv, QueueInv, ParkInv, RestInv, NEW v \in Version, Lifecycle(v)
    PROVE  RestInv'
<1> USE DEF workerVars, holdVars, miscVars, scopeVars
<1>0. Lined(v) /\ UNCHANGED <<batch, skip>>
  BY LifecycleMoves
<1>1. CASE Stops(v) \/ UpdateFound(v) \/ AwaitMarker(v)
  BY <1>0, <1>1, RestQuiet DEF Stops, UpdateFound, AwaitMarker, Pending
<1>2. CASE ParkActivation(v)
  <2>1. /\ ~MayActivate(v) /\ resume' = v
        /\ UNCHANGED <<slot, live, extended, swMsgs, skip, controller, mirror>>
    BY <1>2 DEF ParkActivation
  <2>2. ~MayActivate(v)'
    BY <2>1 DEF MayActivate, Extended, ControlsClients
  <2> QED
    BY <2>1, <2>2 DEF RestInv, MayActivate
<1>3. CASE InstallFailed(v)
  <2>1. Down(v) /\ v \in live
    BY <1>3, InstallFailedEffect, SlotsLive DEF InstallFailedDoes
  <2> QED
    BY <2>1, RestRoused DEF Down
<1>4. CASE Installed(v)
  <2>1. resume' = resume /\ slot'["waiting"] = v
    BY <1>4, InstalledEffect DEF InstalledDoes, SlotsBecome
  <2>2. resume # None => resume # v
    BY <1>0 DEF QueueInv
  <2> QED
    BY <2>1, <2>2 DEF RestInv
<1>5. CASE Activates(v)
  <2>1. slot'["waiting"] = None
    BY <1>5, ActivatesEffect DEF ActivatesDoes, SlotsBecome
  <2> QED
    BY <2>1 DEF RestInv
<1>6. CASE Activated(v)
  <2>1. /\ UNCHANGED <<slot, resume, live, extended, swMsgs, skip, outbox, batch>> /\ mirror' = v
        /\ controller' = controller \/ controller' = Claimed(v)
        /\ slot["active"] = v
    BY <1>6, ActivatedEffect DEF ActivatedDoes
  <2>2. \A a \in Version : Extended(a) => Extended(a)'
    BY <2>1 DEF Extended
  <2>3. ControlsClients(v) => ControlsClients(v)'
    <3> SUFFICES ASSUME ControlsClients(v) PROVE ControlsClients(v)'
      OBVIOUS
    <3>1. PICK c \in Client : controller[c] # Gone
      BY Nobody, ServiceWorkerAssumption DEF ControlsClients
    <3>2. controller'[c] # Gone
      BY <2>1, <3>1, ServiceWorkerAssumption DEF Claimed
    <3> QED
      BY <2>1, <3>2 DEF ControlsClients
  <2> QED
    BY <2>1, <2>2, <2>3, RestSame DEF Pending
<1> QED
  BY <1>1, <1>2, <1>3, <1>4, <1>5, <1>6 DEF Lifecycle

LEMMA RestDelivery ==
    ASSUME Typed, FitsInv, EvalInv, MirrorInv, ParkInv, RestInv, NEW e \in batch, Delivers(e)
    PROVE  RestInv'
<1> USE DEF workerVars, holdVars, miscVars, scopeVars, lifeVars
<1>1. /\ batch' = batch \ {e}
      /\ \A u \in Version : \A k : Event(u, k) \in batch' <=>
              Event(u, k) \in batch /\ ~(u = e.version /\ k = e.kind)
  BY BatchLess DEF Delivers, EvalOk, EvalFailed, Claim, PhaseDone, SkipWaiting, TryActivate, Handles
<1>2. Try.kind = "try"
  BY EventParts DEF Try
<1>3. e.kind # "try" => (Try \in batch => Try \in batch')
  BY <1>1, <1>2
<1>4. e.kind # "skip" => \A u \in Version : Event(u, "skip") \in batch => Event(u, "skip") \in batch'
  BY <1>1
<1>5. CASE EvalOk(e)
  <2> DEFINE w == slot["installing"]
             v == e.version
  <2>1. EvalOkDoes(e, v)
    BY <1>5, EvalOkEffect
  <2>2. /\ Down(w) /\ UNCHANGED <<resume, skip, controller>> /\ slot'["waiting"] = slot["waiting"]
        /\ slot'["active"] = slot["active"] /\ w \in Version \cup {None} /\ e.kind = "eval_ok"
    BY <1>5, <2>1, SlotsDistinct DEF EvalOkDoes, SlotsBecome, EvalOk
  <2> HIDE DEF w
  <2>3. CASE w \in live
    BY <2>2, <2>3, RestRoused DEF Down
  <2>4. CASE w \notin live
    <3>1. /\ live' = live /\ extended' = extended /\ outbox' = outbox
          /\ \A u \in Version : swMsgs'[u] = swMsgs[u]
      BY <2>2, <2>4 DEF Down
    <3>2. w = None
      BY <2>2, <2>4, SlotsLive DEF w
    <3>3. mirror' = mirror
      BY <2>2, <3>2 DEF Down
    <3>4. \A a \in Version : (Extended(a) => Extended(a)') /\ (ControlsClients(a) => ControlsClients(a)')
      BY <2>2, <3>1, <3>3 DEF Extended, ControlsClients
    <3> QED
      BY <1>3, <1>4, <2>2, <3>1, <3>4, RestSame DEF Pending
  <2> QED
    BY <2>3, <2>4
<1>6. CASE EvalFailed(e)
  <2>1. EvalFailedDoes(e, e.version)
    BY <1>6, EvalFailedEffect
  <2>2. e.version \in live /\ Down(e.version)
    BY <2>1 DEF EvalFailedDoes, FitsInv, SlotOf, LiveStates
  <2> QED
    BY <2>2, RestRoused DEF Down
<1>7. CASE Claim(e)
  <2> DEFINE v == e.version
  <2>1. /\ UNCHANGED <<slot, resume, live, extended, swMsgs, skip, mirror, outbox>> /\ e.kind = "claim"
        /\ controller' = controller \/ (v \in {mirror, activating} /\ controller' = Claimed(v))
    BY <1>7 DEF Claim
  <2>2. v \in Version
    BY <2>1, HandledType, TryKind
  <2>3. v \in {mirror, activating} => v = slot["active"]
    BY <2>2, Nobody DEF MirrorInv, ParkInv
  <2> HIDE DEF v
  <2>4. ASSUME NEW a \in Version, a = slot["active"], ControlsClients(a) PROVE ControlsClients(a)'
    <3>1. CASE controller' = controller
      BY <2>1, <2>4, <3>1 DEF ControlsClients
    <3>2. CASE controller' = Claimed(v) /\ v = a
      <4>1. PICK c \in Client : controller[c] # Gone
        BY <2>4, ServiceWorkerAssumption DEF ControlsClients
      <4>2. controller'[c] = a
        BY <3>2, <4>1 DEF Claimed
      <4> QED
        BY <4>2 DEF ControlsClients
    <3> QED
      BY <2>1, <2>3, <2>4, <3>1, <3>2
  <2>5. \A a \in Version : Extended(a) => Extended(a)'
    BY <2>1 DEF Extended
  <2> QED
    BY <1>3, <1>4, <2>1, <2>4, <2>5, RestSame DEF Pending
<1>8. CASE PhaseDone(e)
  <2>1. /\ UNCHANGED <<slot, skip, live, extended, swMsgs, mirror, controller, resume, outbox>>
        /\ e.kind \in Phases
    BY <1>8 DEF PhaseDone
  <2> QED
    BY <1>3, <1>4, <2>1, RestQuiet DEF Pending, Phases
<1>9. CASE SkipWaiting(e)
  <2>1. /\ UNCHANGED <<slot, skip, live, extended, swMsgs, mirror, controller, outbox>>
        /\ e.kind = "skip"
        /\ \/ resume' = None
           \/ resume' = resume /\ ~(e.version = slot["waiting"] /\ slot["waiting"] # None /\ resume # None)
    BY <1>9 DEF SkipWaiting, Resumes
  <2>2. CASE resume' = None
    BY <2>2 DEF RestInv
  <2>3. CASE resume' = resume /\ ~(e.version = slot["waiting"] /\ slot["waiting"] # None /\ resume # None)
    <3>1. \A r \in Version : r = resume /\ r = slot["waiting"] =>
             (Event(r, "skip") \in Pending => Event(r, "skip") \in Pending')
      BY <1>1, <2>1, <2>3, Nobody DEF Pending
    <3> QED
      BY <1>3, <2>1, <2>3, <3>1, RestQuiet DEF Pending
  <2> QED
    BY <2>1, <2>2, <2>3
<1>10. CASE TryActivate(e)
  <2>1. /\ UNCHANGED <<slot, skip, live, extended, swMsgs, mirror, controller, outbox>>
        /\ \/ resume' = None
           \/ /\ resume' = resume
              /\ ~(parked /\ resume # None /\ slot["waiting"] # None /\ MayActivate(slot["waiting"]))
    BY <1>10 DEF TryActivate, Resumes
  <2>2. CASE resume' = None
    BY <2>2 DEF RestInv
  <2>3. CASE resume' = resume /\ ~(parked /\ resume # None /\ slot["waiting"] # None
                                      /\ MayActivate(slot["waiting"]))
    <3>1. ASSUME resume # None, resume = slot["waiting"] PROVE ~MayActivate(resume)
      BY <2>3, <3>1 DEF ParkInv
    <3>2. MayActivate(resume)' = MayActivate(resume)
      BY <2>1, <2>3 DEF MayActivate, Extended, ControlsClients
    <3> QED
      BY <2>1, <2>3, <3>1, <3>2 DEF RestInv
  <2> QED
    BY <2>1, <2>2, <2>3
<1> QED
  BY <1>5, <1>6, <1>7, <1>8, <1>9, <1>10 DEF Delivers

LEMMA RestStep ==
    ASSUME Typed, Counted, FitsInv, EvalInv, MirrorInv, QueueInv, ParkInv, RestInv, Next
    PROVE  RestInv'
<1> USE DEF lifeVars, workerVars, holdVars, miscVars, scopeVars
<1>1. CASE Deliver
  BY <1>1, RestQuiet DEF Deliver, Idle, Pending
<1>2. ASSUME NEW v \in Version, Spawn(v) PROVE RestInv'
  <2>1. /\ state[v] = "new" /\ live' = live \cup {v}
        /\ UNCHANGED <<slot, resume, skip, extended, swMsgs, mirror, controller, outbox, batch>>
    BY <1>2 DEF Spawn
  <2>2. slot["waiting"] # v
    BY <1>2, <2>1 DEF FitsInv, SlotOf
  <2>3. \A a \in Version : (Extended(a) => Extended(a)') /\ (ControlsClients(a) => ControlsClients(a)')
    BY <2>1 DEF Extended, ControlsClients
  <2> QED
    BY <2>1, <2>2, <2>3, RestSame DEF Pending
<1>3. ASSUME NEW v \in Version, PostMessage(v) PROVE RestInv'
  <2>1. /\ v \in live /\ swMsgs' = [swMsgs EXCEPT ![v] = @ + 1]
        /\ UNCHANGED <<slot, resume, skip, live, extended, mirror, controller, outbox, batch>>
    BY <1>3 DEF PostMessage
  <2>2. swMsgs \in [Version -> Nat] /\ swMsgs[v] \in Nat
    BY <1>3 DEF Typed, HostTyped
  <2>3. swMsgs'[v] = swMsgs[v] + 1 /\ \A a \in Version : a # v => swMsgs'[a] = swMsgs[a]
    BY <1>3, <2>1, <2>2
  <2>4. swMsgs'[v] > 0
    BY <2>2, <2>3
  <2>5. \A a \in Version : (Extended(a) => Extended(a)') /\ (ControlsClients(a) => ControlsClients(a)')
    BY <2>1, <2>3, <2>4 DEF Extended, ControlsClients
  <2> QED
    BY <2>1, <2>5, RestSame DEF Pending
<1>4. ASSUME NEW c \in Client, ClientGone(c) PROVE RestInv'
  <2>1. /\ UNCHANGED <<resume, outbox>>
        /\ parked => batch' = {Try}
    BY <1>4 DEF ClientGone
  <2>2. CASE resume = None
    BY <2>1, <2>2 DEF RestInv
  <2>3. CASE resume # None
    BY <2>1, <2>3, RestRoused DEF ParkInv
  <2> QED
    BY <2>2, <2>3
<1> QED
  BY <1>1, <1>2, <1>3, <1>4, RestLifecycle, RestDelivery, RestThread DEF Next, Main, Page, Delivers

----------------------------------------------------------------------------
(* The inductive invariant.                                                 *)

Inv == Typed /\ Counted /\ QueueInv /\ LifeInv /\ MarkInv /\ WakeInv

LEMMA InvInit == Init => Inv
<1> SUFFICES ASSUME Init PROVE Inv
  OBVIOUS
<1>1. Typed
  BY TypedInit
<1>2. PICK first \in {None, Established} :
        /\ \A v \in Version :
             /\ state[v] = (IF v = first THEN "activated" ELSE "new")
             /\ step[v] = (IF v = first THEN "ended" ELSE "none")
             /\ thread[v] = (IF v = first THEN "poll" ELSE "none")
             /\ phase[v] = (IF v = first THEN "done" ELSE "none")
             /\ outcome[v] = "none" /\ swMsgs[v] = 0 /\ inbox[v] = 0 /\ exts[v] = 0 /\ posted[v] = 0
        /\ slot["installing"] = None /\ slot["waiting"] = None /\ slot["active"] = first
        /\ queue = <<>> /\ now = None /\ resume = None /\ phaseDone = {} /\ live = {first} \ {None}
        /\ mirror = first /\ activating = None /\ claims = {} /\ extended = {}
        /\ outbox = {} /\ batch = {}
  BY DEF Init
<1>3. Counted
  BY <1>2, ServiceWorkerAssumption DEF Counted
<1>4. \A v \in Version : ~Lined(v)
  <2>1. Len(queue) = 0
    BY <1>2, EmptySeq
  <2>2. \A v : ~Contains(queue, v)
    BY <2>1 DEF Contains
  <2> QED
    BY <1>2, <2>2, Nobody DEF Lined
<1>5. QueueInv
  BY <1>2, <1>4 DEF QueueInv, IsInjective
<1>6. FitsInv
  BY <1>2, Nobody DEF FitsInv, FitsOf, SlotOf, LiveStates
<1>7. EvalInv
  BY <1>2 DEF EvalInv, EvalOf, EvalPending, Pending
<1>8. MirrorInv
  BY <1>2 DEF MirrorInv
<1>9. MarkInv
  BY <1>2 DEF MarkInv, Marked, PhaseOf, ClaimOf, MarkOf, InstallPending, Pending
<1>10. WakeInv
  BY <1>2 DEF WakeInv, ParkInv, RestInv
<1> QED
  BY <1>1, <1>3, <1>5, <1>6, <1>7, <1>8, <1>9, <1>10 DEF Inv, LifeInv

LEMMA InvSame == Inv /\ UNCHANGED vars => Inv'
<1> SUFFICES ASSUME Inv, UNCHANGED vars PROVE Inv'
  OBVIOUS
<1> USE DEF vars, lifeVars, holdVars, workerVars, miscVars, scopeVars
<1>1. Typed' /\ Counted' /\ QueueInv'
  BY DEF Inv, Typed, LifeTyped, HostTyped, ScopeTyped, Counted, QueueInv, Lined
<1>2. FitsInv' /\ EvalInv' /\ MirrorInv'
  BY FitsSame, EvalQuiet DEF Inv, LifeInv, MirrorInv
<1>3. MarkInv'
  <2>1. \A u \in Version : HostSame(u) /\ PageSame(u)
    BY DEF HostSame, PageSame, BatchSame, Lined
  <2> QED
    BY <2>1, MarkedSame DEF Inv, MarkInv
<1>4. ParkInv'
  BY DEF Inv, WakeInv, ParkInv
<1>5. RestInv'
  BY RestQuiet DEF Inv, WakeInv, Pending
<1> QED
  BY <1>1, <1>2, <1>3, <1>4, <1>5 DEF Inv, LifeInv, WakeInv

LEMMA InvStep == Inv /\ [Next]_vars => Inv'
<1>1. ASSUME Inv, Next PROVE Inv'
  <2>0. /\ Typed /\ Counted /\ QueueInv /\ FitsInv /\ EvalInv /\ MirrorInv /\ MarkInv /\ ParkInv
        /\ RestInv /\ LiveInv
    BY <1>1, LifeLive DEF Inv, LifeInv, WakeInv
  <2>1. Typed' /\ Counted' /\ QueueInv'
    BY <1>1, <2>0, TypedStep, CountedStep, QueueStep
  <2>2. FitsInv' /\ EvalInv' /\ MirrorInv'
    BY <1>1, <2>0, FitsStep, EvalStep, MirrorStep
  <2>3. MarkInv' /\ ParkInv' /\ RestInv'
    BY <1>1, <2>0, MarkStep, ParkStep, RestStep
  <2> QED
    BY <2>1, <2>2, <2>3 DEF Inv, LifeInv, WakeInv
<1> QED
  BY <1>1, InvSame

LEMMA InvAlways == Spec => []Inv
BY InvInit, InvStep, PTL DEF Spec

----------------------------------------------------------------------------
(* Theorems.                                                                *)

(* Every variable keeps its type, no more messages are held than were       *)
(* posted, and a live version's holds are the messages it has not handled.  *)
THEOREM TypeCorrect == Spec => []TypeOK
<1>1. Inv => TypeOK
  <2> SUFFICES ASSUME Inv PROVE TypeOK
    OBVIOUS
  <2>0. Typed /\ Counted /\ QueueInv
    BY DEF Inv
  <2>1. /\ state \in [Version -> {"new", "evaluating", "failed", "installing", "installed",
                                  "activating", "activated", "redundant"}]
        /\ slot \in [{"installing", "waiting", "active"} -> Version \cup {None}]
        /\ step \in [Version -> {"none", "updatefound", "installed", "activating", "activated", "ended"}]
        /\ outcome \in [Version -> {"none", "ok", "failed"}]
    BY <2>0 DEF Typed, LifeTyped, Slots
  <2>2. IsInjective(queue) /\ ToSet(queue) \subseteq Version
    <3>1. queue \in Seq(Version) /\ IsInjective(queue)
      BY <2>0 DEF Typed, LifeTyped, QueueInv
    <3>2. \A x \in ToSet(queue) : x \in Version
      BY <3>1, ContainsIs
    <3> QED
      BY <3>1, <3>2
  <2>3. /\ {now, resume, mirror, activating} \subseteq Version \cup {None}
        /\ live \cup skip \cup extended \cup claims \cup phaseDone \subseteq Version
        /\ controller \in [Client -> Version \cup {None, Gone}]
        /\ parked \in BOOLEAN
    BY <2>0 DEF Typed, LifeTyped, HostTyped, ScopeTyped
  <2>4. ASSUME NEW v \in Version
        PROVE  /\ swMsgs[v] \in 0 .. MaxMessages[v] /\ inbox[v] + exts[v] <= posted[v]
               /\ v \in live => swMsgs[v] = inbox[v] + (IF thread[v] = "message" THEN 1 ELSE 0)
    <3>1. CountedOf(v)
      BY <2>0, CountedIs
    <3>2. /\ swMsgs[v] \in Nat /\ posted[v] \in Nat /\ MaxMessages[v] \in Nat
      BY <2>0, CountTypes
    <3>3. swMsgs[v] \in 0 .. MaxMessages[v]
      BY <3>1, <3>2 DEF CountedOf
    <3> QED
      BY <3>1, <3>3 DEF CountedOf
  <2>5. Pending \subseteq [version : Version \cup {None}, kind : Evals \cup Phases \cup {"claim", "skip", "try"}]
    <3>1. Pending \subseteq WorkerEvents \cup {Try}
      BY <2>0 DEF Typed, HostTyped, ScopeTyped, Pending
    <3> QED
      BY <3>1 DEF WorkerEvents, Try, Event
  <2> QED
    BY <2>1, <2>2, <2>3, <2>4, <2>5 DEF TypeOK
<1> QED
  BY <1>1, InvAlways, PTL

(* The slots hold three different live versions, each in the state its slot *)
(* stands for, and the host routes to the active one or to none: the steps  *)
(* of the page and the word of the host never come apart.                   *)
THEOREM SlotsAlwaysSound == Spec => []SlotsSound
<1>1. Inv => SlotsSound
  BY DEF Inv, LifeInv, FitsInv, SlotOf, MirrorInv, SlotsSound, LiveStates
<1> QED
  BY <1>1, InvAlways, PTL

(* Nobody sees a version activated before its claim has been applied.       *)
THEOREM ClaimsAlwaysBeforeActivated == Spec => []ClaimsBeforeActivated
<1>1. Inv => ClaimsBeforeActivated
  BY DEF Inv, MarkInv, Marked, ClaimOf, ClaimsBeforeActivated, Pending
<1> QED
  BY <1>1, InvAlways, PTL

(* A version whose thread has ended is not left half way: whatever the page *)
(* waits for, the thread has said, or the page is about to go on.           *)
THEOREM NeverPhantoms == Spec => []NoPhantoms
<1>1. Inv => NoPhantoms
  <2> SUFFICES ASSUME Inv, NEW v \in Version, thread[v] = "dead",
                      state[v] \in {"evaluating", "installing", "activating"}, ~Lined(v)
               PROVE  \E e \in Pending : e.version = v /\ e.kind \notin {"claim", "skip"}
    BY DEF NoPhantoms, Lined
  <2>1. Marked(v) /\ EvalOf(v) /\ phase[v] \in {"none", "done"}
    BY DEF Inv, LifeInv, EvalInv, MarkInv, Marked, PhaseOf
  <2>2. \E k \in Evals \cup Phases : Event(v, k) \in Pending
    <3>1. CASE state[v] = "evaluating"
      BY <2>1, <3>1 DEF EvalOf, EvalPending
    <3>2. CASE state[v] = "installing"
      BY <2>1, <3>2 DEF Marked, MarkOf, InstallPending, InstallMarks, Phases
    <3>3. CASE state[v] = "activating"
      BY <2>1, <3>3 DEF Marked, MarkOf, ActivateAhead, Phases
    <3> QED
      BY <3>1, <3>2, <3>3
  <2> QED
    BY <2>2, EventParts, EvalKinds
<1> QED
  BY <1>1, InvAlways, PTL

(* No wakeup is lost: once the gate would let a parked activation through,  *)
(* a try or the version's own skip event is on its way to the page.         *)
THEOREM WakeupAlwaysUnderway == Spec => []WakeupUnderway
<1>1. Inv => WakeupUnderway
  BY DEF Inv, WakeInv, RestInv, Roused, WakeupUnderway
<1> QED
  BY <1>1, InvAlways, PTL

(* A retired version is never brought back, by whatever step of it is still *)
(* queued, parked or announced.                                             *)
THEOREM RedundantForever == Spec => RedundantIsFinal
<1>1. ASSUME Inv, [Next]_vars
      PROVE  \A v \in Version : state[v] = "redundant" => state'[v] = "redundant"
  <2> USE DEF lifeVars
  <2>0. Typed /\ FitsInv /\ EvalInv
    BY <1>1 DEF Inv, LifeInv
  <2> SUFFICES ASSUME NEW u \in Version, state[u] = "redundant" PROVE state'[u] = "redundant"
    OBVIOUS
  <2>1. ASSUME NEW v, NEW s, NEW w, Turns(v, s, w), state[v] # "redundant"
        PROVE  state'[u] = "redundant"
    BY <2>1 DEF Turns
  <2>2. CASE UNCHANGED vars
    BY <2>2 DEF vars
  <2>3. CASE Deliver
    BY <2>3 DEF Deliver
  <2>4. ASSUME NEW v \in Version, Thread(v) PROVE state'[u] = "redundant"
    BY <2>4 DEF Thread, Evaluates, PhaseSettles, SkipWaits, Pull, Settles, Dispatched, Dies
  <2>5. ASSUME NEW v \in Version, Spawn(v) PROVE state'[u] = "redundant"
    BY <2>0, <2>1, <2>5, SpawnEffect DEF SpawnDoes
  <2>6. ASSUME NEW v \in Version, PostMessage(v) PROVE state'[u] = "redundant"
    BY <2>6 DEF PostMessage
  <2>7. ASSUME NEW c \in Client, ClientGone(c) PROVE state'[u] = "redundant"
    BY <2>7 DEF ClientGone
  <2>8. ASSUME NEW e \in batch, Delivers(e) PROVE state'[u] = "redundant"
    <3>1. CASE EvalOk(e)
      BY <2>0, <2>1, <3>1, EvalOkEffect DEF EvalOkDoes
    <3>2. CASE EvalFailed(e)
      BY <2>0, <2>1, <3>2, EvalFailedEffect DEF EvalFailedDoes
    <3>3. CASE Claim(e) \/ PhaseDone(e) \/ SkipWaiting(e) \/ TryActivate(e)
      BY <3>3 DEF Claim, PhaseDone, SkipWaiting, TryActivate
    <3> QED
      BY <2>8, <3>1, <3>2, <3>3 DEF Delivers
  <2>9. ASSUME NEW v \in Version, Lifecycle(v) PROVE state'[u] = "redundant"
    <3>1. CASE InstallFailed(v)
      BY <2>0, <2>1, <3>1, InstallFailedEffect DEF InstallFailedDoes
    <3>2. CASE Installed(v)
      BY <2>0, <2>1, <3>2, InstalledEffect DEF InstalledDoes
    <3>3. CASE Activates(v)
      BY <2>0, <2>1, <3>3, ActivatesEffect DEF ActivatesDoes
    <3>4. CASE Activated(v)
      BY <2>0, <2>1, <3>4, ActivatedEffect DEF ActivatedDoes
    <3>5. CASE Stops(v) \/ UpdateFound(v) \/ AwaitMarker(v) \/ ParkActivation(v)
      BY <3>5 DEF Stops, UpdateFound, AwaitMarker, ParkActivation
    <3> QED
      BY <2>9, <3>1, <3>2, <3>3, <3>4, <3>5 DEF Lifecycle
  <2> QED
    BY <1>1, <2>2, <2>3, <2>4, <2>5, <2>6, <2>7, <2>8, <2>9 DEF Next, Main, Page, Delivers
<1>2. Inv /\ [Next]_vars
      => [\A v \in Version : state[v] = "redundant" => state'[v] = "redundant"]_vars
  BY <1>1
<1>3. Spec => [][\A v \in Version : state[v] = "redundant" => state'[v] = "redundant"]_vars
  BY <1>2, InvAlways, PTL DEF Spec
<1> QED
  BY <1>3 DEF RedundantIsFinal

(* A version is replaced only when it has nothing left to do, and no        *)
(* document uses it unless its successor skipped waiting.                   *)
THEOREM HandoverAlwaysClean == Spec => HandoverClean
<1> DEFINE Clean(v) == /\ inbox[v] = 0 /\ thread[v] # "message" /\ exts[v] = 0
                       /\ slot'.active \in skip \/ \A c \in Client : controller[c] # v
<1>1. ASSUME Inv, [Next]_vars
      PROVE  slot'.active # slot.active /\ slot.active # None => Clean(slot.active)
  <2> USE DEF lifeVars
  <2>0. Typed /\ Counted /\ FitsInv /\ EvalInv
    BY <1>1 DEF Inv, LifeInv
  <2> SUFFICES ASSUME slot'["active"] # slot["active"], slot["active"] # None PROVE Clean(slot["active"])
    OBVIOUS
  <2>1. PICK v \in Version : Activates(v)
    <3>1. ~UNCHANGED vars /\ ~Deliver /\ ~Page
      BY DEF vars, Deliver, Page, Spawn, PostMessage, ClientGone
    <3>2. \A v \in Version : ~Thread(v)
      BY DEF Thread, Evaluates, PhaseSettles, SkipWaits, Pull, Settles, Dispatched, Dies
    <3>3. ASSUME NEW e \in batch, Delivers(e) PROVE FALSE
      <4>1. ~EvalOk(e)
        BY <2>0, EvalOkEffect DEF EvalOkDoes, SlotsBecome
      <4> QED
        BY <3>3, <4>1 DEF Delivers, EvalFailed, Claim, PhaseDone, SkipWaiting, TryActivate
    <3>4. ASSUME NEW v \in Version, Lifecycle(v) PROVE Activates(v)
      <4>1. ~InstallFailed(v) /\ ~Installed(v)
        BY <2>0, InstallFailedEffect, InstalledEffect DEF InstallFailedDoes, InstalledDoes, SlotsBecome
      <4> QED
        BY <3>4, <4>1 DEF Lifecycle, Stops, UpdateFound, AwaitMarker, ParkActivation, Activated
    <3> QED
      BY <1>1, <3>1, <3>2, <3>3, <3>4 DEF Next, Main, Delivers
  <2> DEFINE a == slot["active"]
  <2>2. /\ a \in Version /\ a # v /\ MayActivate(v) /\ slot'["active"] = v
    BY <2>0, <2>1, ActivatesEffect, SlotsDistinct DEF ActivatesDoes, SlotsBecome
  <2>3. ~Extended(a) /\ (v \in skip \/ ~ControlsClients(a))
    BY <2>2 DEF MayActivate
  <2>4. a \in live
    BY <2>0, <2>2, SlotsLive
  <2> HIDE DEF a
  <2>5. /\ swMsgs[a] \in Nat /\ inbox[a] \in Nat /\ exts[a] \in Nat /\ CountedOf(a)
    BY <2>0, <2>2, CountTypes, CountedIs
  <2>6. a \notin extended /\ swMsgs[a] = 0
    BY <2>3, <2>4, <2>5 DEF Extended
  <2>7. inbox[a] = 0 /\ thread[a] # "message" /\ exts[a] = 0
    BY <2>5, <2>6 DEF CountedOf
  <2>8. v \in skip \/ \A c \in Client : controller[c] # a
    BY <2>3 DEF ControlsClients
  <2> QED
    BY <2>2, <2>7, <2>8 DEF a
<1> QED
  BY <1>1, InvAlways, PTL DEF Spec, HandoverClean
=============================================================================
