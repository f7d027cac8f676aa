----------------------- MODULE EventLoopClock_proofs -----------------------
(* Theorems about the virtual clocks of EventLoop: how late a timer can be, *)
(* and which steps can make one late.                                       *)
EXTENDS EventLoop_proofs

(* Where a realm's clock stands with respect to its timers and its step.    *)

Bounded(ts) == \A i \in DOMAIN ts : \E b \in Budget \cup {0} : ts[i].wait + b >= 0

NotLate(ts) == \A i \in DOMAIN ts : ts[i].wait >= 0

Rendering == {"frames", "frame", "observers", "pin"}

(* The budget a step still has comes from the driver, and a step that runs  *)
(* its rendering update because nothing was left within the limit (that is, *)
(* without having yielded) holds no overdue timer when it pins the clock.   *)
WithinBudget(s) == s.maxMs \in Budget \cup {0} /\ s.left <= s.maxMs

RealmClock(r) ==
    /\ Bounded(timers[r])
    /\ phase[r] # "idle" => WithinBudget(step[r])
    /\ phase[r] \in Rendering /\ ~step[r].yielded => NotLate(timers[r])

ClockInv == TypeOK /\ \A r \in Realm : RealmClock(r)

----------------------------------------------------------------------------
(* Sequences of timers. *)

LEMMA DropAtShape ==
    ASSUME NEW T, NEW s \in Seq(T), NEW i \in DOMAIN s
    PROVE  /\ DOMAIN s = 1 .. Len(s) /\ Len(s) \in Nat
           /\ DOMAIN DropAt(s, i) = 1 .. Len(s) - 1
           /\ \A j \in 1 .. Len(s) - 1 :
                 DropAt(s, i)[j] = IF j < i THEN s[j] ELSE s[j + 1]
<1> DEFINE front == SubSeq(s, 1, i - 1)
           back == SubSeq(s, i + 1, Len(s))
<1>1. i \in 1 .. Len(s) /\ Len(s) \in Nat /\ DOMAIN s = 1 .. Len(s)
  BY LenProperties
<1>2. front \in Seq(T) /\ Len(front) = i - 1 /\ \A j \in 1 .. i - 1 : front[j] = s[j]
  BY <1>1, SubSeqProperties
<1>3. back \in Seq(T) /\ Len(back) = Len(s) - i
        /\ \A j \in 1 .. Len(s) - i : back[j] = s[i + j]
  BY <1>1, SubSeqProperties
<1>4. DropAt(s, i) \in Seq(T) /\ Len(DropAt(s, i)) = Len(s) - 1
        /\ \A j \in 1 .. Len(s) - 1 :
              DropAt(s, i)[j] = IF j <= i - 1 THEN front[j] ELSE back[j - (i - 1)]
  <2>1. DropAt(s, i) = front \o back
    BY DEF DropAt
  <2> HIDE DEF front, back
  <2>2. /\ front \o back \in Seq(T) /\ Len(front \o back) = Len(front) + Len(back)
        /\ \A j \in 1 .. Len(front) + Len(back) :
              (front \o back)[j] = IF j <= Len(front) THEN front[j]
                                                       ELSE back[j - Len(front)]
    BY <1>2, <1>3, ConcatProperties
  <2>3. Len(front) + Len(back) = Len(s) - 1
    BY <1>1, <1>2, <1>3
  <2> QED
    BY <1>2, <2>1, <2>2, <2>3
<1>5. ASSUME NEW j \in 1 .. Len(s) - 1
      PROVE  DropAt(s, i)[j] = IF j < i THEN s[j] ELSE s[j + 1]
  <2>1. CASE j < i
    BY <1>1, <1>2, <1>4, <2>1
  <2>2. CASE ~(j < i)
    <3>1. j - (i - 1) \in 1 .. Len(s) - i /\ i + (j - (i - 1)) = j + 1 /\ ~(j <= i - 1)
      BY <1>1, <2>2
    <3>2. DropAt(s, i)[j] = back[j - (i - 1)]
      BY <1>4, <3>1
    <3>3. back[j - (i - 1)] = s[i + (j - (i - 1))]
      BY <1>3, <3>1
    <3> QED
      BY <2>2, <3>1, <3>2, <3>3
  <2> QED
    BY <2>1, <2>2
<1>6. DOMAIN DropAt(s, i) = 1 .. Len(s) - 1
  BY <1>4, LenProperties
<1> QED
  BY <1>1, <1>5, <1>6

LEMMA DropAtElements ==
    ASSUME NEW T, NEW s \in Seq(T), NEW i \in DOMAIN s
    PROVE  \A j \in DOMAIN DropAt(s, i) : \E k \in DOMAIN s : DropAt(s, i)[j] = s[k]
<1> SUFFICES ASSUME NEW j \in DOMAIN DropAt(s, i)
             PROVE  \E k \in DOMAIN s : DropAt(s, i)[j] = s[k]
  OBVIOUS
<1>1. j \in 1 .. Len(s) - 1 /\ Len(s) \in Nat /\ DOMAIN s = 1 .. Len(s)
  BY DropAtShape
<1>2. DropAt(s, i)[j] = s[j] \/ DropAt(s, i)[j] = s[j + 1]
  BY <1>1, DropAtShape
<1>3. j \in DOMAIN s /\ j + 1 \in DOMAIN s
  BY <1>1
<1> QED
  BY <1>2, <1>3

LEMMA DropAtOthers ==
    ASSUME NEW T, NEW s \in Seq(T), NEW i \in DOMAIN s, NEW j \in DOMAIN s \ {i}
    PROVE  \E k \in DOMAIN DropAt(s, i) : DropAt(s, i)[k] = s[j]
<1>1. /\ i \in 1 .. Len(s) /\ j \in 1 .. Len(s) /\ j # i /\ Len(s) \in Nat
      /\ DOMAIN DropAt(s, i) = 1 .. Len(s) - 1
  BY DropAtShape
<1>2. CASE j < i
  <2>1. j \in 1 .. Len(s) - 1
    BY <1>1, <1>2
  <2>2. DropAt(s, i)[j] = s[j]
    BY <1>2, <2>1, DropAtShape
  <2> QED
    BY <1>1, <2>1, <2>2
<1>3. CASE ~(j < i)
  <2>1. j - 1 \in 1 .. Len(s) - 1 /\ ~(j - 1 < i) /\ (j - 1) + 1 = j
    BY <1>1, <1>3
  <2>2. DropAt(s, i)[j - 1] = s[(j - 1) + 1]
    BY <2>1, DropAtShape
  <2> QED
    BY <1>1, <2>1, <2>2
<1> QED
  BY <1>2, <1>3

(* What a step over a dropped or an appended timer keeps. *)
LEMMA DropKeeps ==
    ASSUME NEW ts \in Seq(Timer), NEW i \in DOMAIN ts
    PROVE  /\ Bounded(ts) => Bounded(DropAt(ts, i))
           /\ NotLate(ts) => NotLate(DropAt(ts, i))
BY DropAtElements DEF Bounded, NotLate

LEMMA TimerWaits ==
    ASSUME NEW ts \in Seq(Timer)
    PROVE  \A i \in DOMAIN ts : ts[i].wait \in Int /\ ts[i].period \in Nat
<1> SUFFICES ASSUME NEW i \in DOMAIN ts
             PROVE  ts[i].wait \in Int /\ ts[i].period \in Nat
  OBVIOUS
<1>1. ts[i] \in Timer
  BY LenProperties, ElementOfSeq
<1> QED
  BY <1>1 DEF Timer

LEMMA NotLateBounded ==
    ASSUME NEW ts \in Seq(Timer), NotLate(ts)
    PROVE  Bounded(ts)
<1>1. \A i \in DOMAIN ts : ts[i].wait \in Int
  BY TimerWaits
<1>2. \A i \in DOMAIN ts : ts[i].wait + 0 >= 0
  BY <1>1 DEF NotLate
<1> QED
  BY <1>2 DEF Bounded

LEMMA AppendKeeps ==
    ASSUME NEW ts \in Seq(Timer), NEW t \in Timer, t.wait >= 0
    PROVE  /\ Bounded(ts) => Bounded(Append(ts, t))
           /\ NotLate(ts) => NotLate(Append(ts, t))
<1>1. /\ DOMAIN Append(ts, t) = 1 .. Len(ts) + 1
      /\ DOMAIN ts = 1 .. Len(ts) /\ Len(ts) \in Nat
      /\ \A i \in 1 .. Len(ts) : Append(ts, t)[i] = ts[i]
      /\ Append(ts, t)[Len(ts) + 1] = t
  BY AppendProperties, LenProperties
<1>2. t.wait \in Int
  BY DEF Timer
<1>3. \A i \in DOMAIN Append(ts, t) : i \in DOMAIN ts \/ i = Len(ts) + 1
  BY <1>1
<1>4. t.wait + 0 >= 0
  BY <1>2
<1> QED
  BY <1>1, <1>3, <1>4 DEF Bounded, NotLate

(* What advancing a clock does to its timers. *)
LEMMA AdvanceLate ==
    ASSUME NEW ts \in Seq(Timer), NEW d \in Nat
    PROVE  /\ (\A i \in DOMAIN ts : ts[i].wait >= d) => NotLate(Advance(ts, d))
           /\ d = 0 /\ Bounded(ts) => Bounded(Advance(ts, d))
           /\ d = 0 /\ NotLate(ts) => NotLate(Advance(ts, d))
           /\ (\E b \in Budget \cup {0} : d <= b) /\ NotLate(ts) => Bounded(Advance(ts, d))
<1>1. /\ DOMAIN Advance(ts, d) = DOMAIN ts
      /\ \A i \in DOMAIN ts : Advance(ts, d)[i].wait = ts[i].wait - d
  BY AdvanceType, LenProperties
<1>2. \A i \in DOMAIN ts : ts[i].wait \in Int
  BY TimerWaits
<1>3. Budget \cup {0} \subseteq Nat
  BY TimesAssumption
<1>4. ASSUME \A i \in DOMAIN ts : ts[i].wait >= d PROVE NotLate(Advance(ts, d))
  BY <1>1, <1>2, <1>4 DEF NotLate
<1>5. ASSUME d = 0, Bounded(ts) PROVE Bounded(Advance(ts, d))
  <2>1. \A i \in DOMAIN ts : Advance(ts, d)[i].wait = ts[i].wait
    BY <1>1, <1>2, <1>5
  <2> QED
    BY <1>1, <1>5, <2>1 DEF Bounded
<1>6. ASSUME d = 0, NotLate(ts) PROVE NotLate(Advance(ts, d))
  BY <1>1, <1>2, <1>6 DEF NotLate
<1>7. ASSUME NEW b \in Budget \cup {0}, d <= b, NotLate(ts) PROVE Bounded(Advance(ts, d))
  <2>1. \A i \in DOMAIN ts : Advance(ts, d)[i].wait + b >= 0
    BY <1>1, <1>2, <1>3, <1>7 DEF NotLate
  <2> QED
    BY <1>1, <2>1 DEF Bounded
<1> QED
  BY <1>4, <1>5, <1>6, <1>7

(* What taking the timer that IsNext picks does: the clock moves by d, which *)
(* no other timer's wait is below when d > 0.                                *)
LEMMA NextKeeps ==
    ASSUME NEW ts \in Seq(Timer), NEW i \in DOMAIN ts, IsNext(ts, i),
           NEW d \in Nat, d = IF ts[i].wait > 0 THEN ts[i].wait ELSE 0
    PROVE  /\ Bounded(ts) => Bounded(Advance(ts, d))
           /\ NotLate(ts) => NotLate(Advance(ts, d))
<1>1. \A j \in DOMAIN ts : ts[j].wait \in Int
  BY TimerWaits
<1>2. CASE ts[i].wait > 0
  <2>1. d = ts[i].wait
    BY <1>2
  <2>2. \A j \in DOMAIN ts : ts[j].wait >= d
    BY <1>1, <2>1 DEF IsNext
  <2>3. Advance(ts, d) \in Seq(Timer)
    BY AdvanceType
  <2> QED
    BY <2>2, <2>3, AdvanceLate, NotLateBounded
<1>3. CASE ~(ts[i].wait > 0)
  BY <1>3, AdvanceLate
<1> QED
  BY <1>2, <1>3

LEMMA RearmKeeps ==
    ASSUME NEW ts \in Seq(Timer), NEW i \in DOMAIN ts, NEW p \in Nat
    PROVE  /\ Bounded(ts) => Bounded([ts EXCEPT ![i].wait = p])
           /\ NotLate(ts) => NotLate([ts EXCEPT ![i].wait = p])
<1>1. /\ DOMAIN [ts EXCEPT ![i].wait = p] = DOMAIN ts
      /\ \A j \in DOMAIN ts \ {i} : [ts EXCEPT ![i].wait = p][j] = ts[j]
  OBVIOUS
<1>2. [ts EXCEPT ![i].wait = p][i].wait = p
  <2>1. ts[i] \in Timer
    BY LenProperties, ElementOfSeq
  <2> QED
    BY <2>1 DEF Timer
<1>3. p >= 0 /\ p + 0 >= 0
  OBVIOUS
<1> HIDE DEF Timer
<1> QED
  BY <1>1, <1>2, <1>3 DEF Bounded, NotLate

----------------------------------------------------------------------------
(* The clocks, action by action. *)

(* What an action leaves alone of realm q's clock. *)
SameStep(q) ==
    /\ phase'[q] = phase[q]
    /\ step'[q].maxMs = step[q].maxMs
    /\ step'[q].left = step[q].left
    /\ step'[q].yielded = step[q].yielded

(* Only a pin that has a budget left to spend makes a timer overdue. *)
Pins(q) == phase[q] = "pin" /\ ~step[q].yielded

ClockStep(q) ==
    /\ RealmClock(q)'
    /\ NotLate(timers[q]) /\ ~Pins(q) => NotLate(timers'[q])

LEMMA ClockStays ==
    ASSUME NEW q \in Realm, RealmClock(q), timers'[q] = timers[q], SameStep(q)
    PROVE  ClockStep(q)
BY DEF ClockStep, RealmClock, SameStep, WithinBudget

(* A page script schedules and clears timers, and moves no clock. *)
LEMMA ScriptClock ==
    ASSUME ClockInv, PageScript, NEW q \in Realm
    PROVE  ClockStep(q)
<1> USE DEF realmVars, queueVars, loopVars, cacheVars
<1>l. live \subseteq Realm /\ timers \in [Realm -> Seq(Timer)] /\ step \in [Realm -> Step]
  BY DEF ClockInv, TypeOK
<1>q. RealmClock(q)
  BY DEF ClockInv
<1>1. ASSUME SameStep(q), Bounded(timers[q]) => Bounded(timers'[q]),
             NotLate(timers[q]) => NotLate(timers'[q])
      PROVE  ClockStep(q)
  BY <1>q, <1>1 DEF ClockStep, RealmClock, SameStep, WithinBudget
<1>2. ASSUME NEW r \in live, SetTimeout(r) \/ SetInterval(r)
      PROVE  ClockStep(q)
  <2>1. PICK h \in Handler, d \in Nat, p \in Nat : SetTimer(r, h, d, p)
    BY <1>2, TimesAssumption DEF SetTimeout, SetInterval
  <2> DEFINE t == [handler |-> h, wait |-> d, period |-> p]
  <2>2. t \in Timer /\ t.wait >= 0
    BY DEF Timer
  <2>3. timers' = [timers EXCEPT ![r] = Append(timers[r], t)] /\ UNCHANGED loopVars
    BY <2>1 DEF SetTimer
  <2>4. SameStep(q)
    BY <2>3 DEF SameStep
  <2> HIDE DEF t
  <2>5. CASE q = r
    <3>1. timers'[q] = Append(timers[q], t) /\ timers[q] \in Seq(Timer)
      BY <1>l, <2>3, <2>5
    <3> QED
      BY <1>1, <2>2, <2>4, <3>1, AppendKeeps
  <2>6. CASE q # r
    BY <1>l, <1>q, <2>3, <2>4, <2>6, ClockStays
  <2> QED
    BY <2>5, <2>6
<1>3. ASSUME NEW r \in live, ClearTimer(r)
      PROVE  ClockStep(q)
  <2>1. SameStep(q)
    BY <1>3 DEF ClearTimer, SameStep
  <2>2. PICK i \in DOMAIN timers[r] : timers' = [timers EXCEPT ![r] = DropAt(timers[r], i)]
    BY <1>3 DEF ClearTimer
  <2>3. CASE q = r
    <3>1. /\ timers'[q] = DropAt(timers[q], i)
          /\ i \in DOMAIN timers[q] /\ timers[q] \in Seq(Timer)
      BY <1>l, <2>2, <2>3
    <3> QED
      BY <1>1, <2>1, <3>1, DropKeeps
  <2>4. CASE q # r
    BY <1>l, <1>q, <2>1, <2>2, <2>4, ClockStays
  <2> QED
    BY <2>3, <2>4
<1>4. ASSUME NEW r \in live, CancelAnimationFrame(r) \/ Mutate(r)
      PROVE  ClockStep(q)
  <2>1. UNCHANGED <<timers, phase>>
    BY <1>4 DEF CancelAnimationFrame, Mutate
  <2>2. \/ UNCHANGED step
        \/ \E v : step' = [step EXCEPT ![r].batch = v]
        \/ \E v : step' = [step EXCEPT ![r].changed = v]
    <3>1. CASE CancelAnimationFrame(r)
      BY <3>1, Zenon DEF CancelAnimationFrame
    <3>2. CASE Mutate(r)
      BY <3>2, Zenon DEF Mutate
    <3> QED
      BY <1>4, <3>1, <3>2
  <2>3. SameStep(q)
    <3>1. CASE q = r
      <4>1. step[r] \in Step
        BY <1>l
      <4>2. \/ step'[r] = step[r]
            \/ \E v : step'[r] = [step[r] EXCEPT !.batch = v]
            \/ \E v : step'[r] = [step[r] EXCEPT !.changed = v]
        BY <1>l, <2>2
      <4> QED
        BY <2>1, <3>1, <4>1, <4>2 DEF SameStep, Step
    <3>2. CASE q # r
      BY <1>l, <2>1, <2>2, <3>2 DEF SameStep
    <3> QED
      BY <3>1, <3>2
  <2> QED
    BY <1>q, <2>1, <2>3, ClockStays
<1>5. ASSUME UNCHANGED <<timers, loopVars>>
      PROVE  ClockStep(q)
  BY <1>5, <1>q, ClockStays DEF SameStep
<1>6. ASSUME NEW r \in live, RequestAnimationFrame(r) \/ Observe(r) \/ Disconnect(r)
      PROVE  ClockStep(q)
  BY <1>5, <1>6 DEF RequestAnimationFrame, Observe, Disconnect
<1>7. ASSUME NEW p \in live, NEW c \in unborn, AttachRealm(p, c)
      PROVE  ClockStep(q)
  BY <1>5, <1>7 DEF AttachRealm
<1>8. ASSUME NEW c \in live, DetachRealm(c)
      PROVE  ClockStep(q)
  <2>1. timers'[q] = <<>> \/ timers'[q] = timers[q]
    BY <1>8 DEF DetachRealm
  <2>2. SameStep(q)
    BY <1>8 DEF DetachRealm, SameStep
  <2>3. Bounded(<<>>) /\ NotLate(<<>>)
    BY DEF Bounded, NotLate
  <2> QED
    BY <1>1, <2>1, <2>2, <2>3
<1> QED
  BY <1>2, <1>3, <1>4, <1>6, <1>7, <1>8 DEF PageScript

LEMMA EnteredBudget ==
    ASSUME NEW maxMs \in Budget \cup {0}, NEW maxIter, NEW yield
    PROVE  WithinBudget(Entered(maxMs, maxIter, yield))
BY TimesAssumption DEF WithinBudget, Entered

(* The driver enters the main realm's step with one of its budgets. *)
LEMMA DriverClock ==
    ASSUME ClockInv, DriverSteps \/ FindQueries, NEW q \in Realm
    PROVE  ClockStep(q)
<1> USE DEF realmVars, queueVars, loopVars, cacheVars
<1>q. RealmClock(q) /\ step \in [Realm -> Step] /\ phase \in [Realm -> Phase]
  BY DEF ClockInv, TypeOK
<1>1. CASE FindQueries
  BY <1>q, <1>1, ClockStays DEF FindQueries, SameStep
<1>2. CASE DriverSteps
  <2>1. PICK maxMs \in Budget, maxIter \in MaxIter, yield \in YieldModes :
            RunLoopStep(maxMs, maxIter, yield)
    BY <1>2 DEF DriverSteps
  <2>2. CASE q = Main
    <3>1. timers' = timers /\ phase'[q] = "flush"
            /\ step'[q] = Entered(maxMs, maxIter, yield)
      BY <1>q, <2>1, <2>2 DEF RunLoopStep
    <3>2. WithinBudget(Entered(maxMs, maxIter, yield))
      BY EnteredBudget
    <3> QED
      BY <1>q, <3>1, <3>2 DEF ClockStep, RealmClock, Rendering, WithinBudget
  <2>3. CASE q # Main
    BY <1>q, <2>1, <2>3, ClockStays DEF RunLoopStep, SameStep
  <2> QED
    BY <2>2, <2>3
<1> QED
  BY <1>1, <1>2

(* Entering and leaving the steps of child realms. *)
LEMMA ChildrenClock ==
    ASSUME ClockInv, NEW r \in live, NEW c \in live, NEW q \in Realm,
           SkipChild(r, c) \/ StepChild(r, c) \/ ChildStepReturns(r, c)
    PROVE  ClockStep(q)
<1> USE DEF realmVars, queueVars, cacheVars
<1>q. /\ RealmClock(q) /\ RealmClock(r) /\ r \in Realm /\ c \in Realm
      /\ step \in [Realm -> Step] /\ phase \in [Realm -> Phase]
      /\ \A p \in Realm : step[p] \in Step
  BY DEF ClockInv, TypeOK
<1>1. CASE SkipChild(r, c)
  <2>1. SameStep(q)
    BY <1>q, <1>1 DEF SkipChild, SameStep, Step
  <2> QED
    BY <1>q, <1>1, <2>1, ClockStays DEF SkipChild
<1>2. CASE StepChild(r, c)
  <2>1. CASE q = c
    <3>1. timers' = timers /\ phase'[q] = "flush"
            /\ step'[q] = Entered(ChildBudget(r), step[r].maxIter, FALSE)
      BY <1>q, <1>2, <2>1 DEF StepChild
    <3>2. ChildBudget(r) \in Budget \cup {0}
      BY <1>q, <1>2 DEF StepChild, ChildBudget, RealmClock, WithinBudget
    <3>3. WithinBudget(step'[q])
      BY <3>1, <3>2, EnteredBudget
    <3> QED
      BY <1>q, <3>1, <3>3 DEF ClockStep, RealmClock, Rendering, WithinBudget
  <2>2. CASE q # c
    <3>1. SameStep(q)
      BY <1>q, <1>2, <2>2 DEF StepChild, SameStep, Step
    <3> QED
      BY <1>q, <1>2, <3>1, ClockStays DEF StepChild
  <2> QED
    BY <2>1, <2>2
<1>3. CASE ChildStepReturns(r, c)
  <2>1. UNCHANGED timers /\ phase' = [phase EXCEPT ![r] = "idle"]
    BY <1>3 DEF ChildStepReturns, Goto
  <2>2. CASE q = r
    <3>1. phase'[q] = "idle"
      BY <1>q, <2>1, <2>2
    <3> QED
      BY <1>q, <2>1, <3>1 DEF ClockStep, RealmClock, Rendering
  <2>3. CASE q # r
    <3>1. step'[q].maxMs = step[q].maxMs /\ step'[q].left = step[q].left
            /\ step'[q].yielded = step[q].yielded
      BY <1>q, <1>3, <2>3 DEF ChildStepReturns, Step
    <3> QED
      BY <1>q, <2>1, <2>3, <3>1, ClockStays DEF SameStep
  <2> QED
    BY <2>2, <2>3
<1> QED
  BY <1>1, <1>2, <1>3

(* One action of r's step disturbs r's clock alone. *)
Alone(r) ==
    \E ts, p, s : /\ timers' = [timers EXCEPT ![r] = ts]
                  /\ phase' = [phase EXCEPT ![r] = p]
                  /\ step' = [step EXCEPT ![r] = s]

LEMMA OthersStay ==
    ASSUME ClockInv, NEW r \in Realm, Alone(r), ClockStep(r), NEW q \in Realm
    PROVE  ClockStep(q)
<1>1. CASE q = r
  BY <1>1
<1>2. CASE q # r
  <2>1. timers'[q] = timers[q] /\ phase'[q] = phase[q] /\ step'[q] = step[q]
    BY <1>2 DEF Alone, ClockInv, TypeOK
  <2> QED
    BY <2>1, ClockStays DEF ClockInv, SameStep
<1> QED
  BY <1>1, <1>2

(* A task moves the clock to its due time, which no other timer is before. *)
LEMMA TaskClock ==
    ASSUME ClockInv, NEW r \in live, RunTask(r), NEW q \in Realm
    PROVE  ClockStep(q)
<1> USE DEF realmVars, queueVars, cacheVars
<1>q. /\ RealmClock(r) /\ r \in Realm /\ timers \in [Realm -> Seq(Timer)]
      /\ timers[r] \in Seq(Timer) /\ step \in [Realm -> Step] /\ step[r] \in Step
      /\ phase \in [Realm -> Phase]
  BY DEF ClockInv, TypeOK
<1>1. PICK i \in DOMAIN timers[r] :
        LET t == timers[r][i]
            d == IF t.wait > 0 THEN t.wait ELSE 0
            moved == Advance(timers[r], d)
        IN  /\ IsNext(timers[r], i)
            /\ timers' = [timers EXCEPT ![r] =
                   IF t.period # 0 THEN [moved EXCEPT ![i].wait = t.period]
                                   ELSE DropAt(moved, i)]
            /\ step' = [step EXCEPT ![r].left = @ - d, ![r].iters = @ + 1,
                                    ![r].fired = TRUE, ![r].task = t.handler]
  BY DEF RunTask
<1> DEFINE t == timers[r][i]
           d == IF t.wait > 0 THEN t.wait ELSE 0
           moved == Advance(timers[r], d)
           new == IF t.period # 0 THEN [moved EXCEPT ![i].wait = t.period]
                                  ELSE DropAt(moved, i)
<1>2. t.wait \in Int /\ t.period \in Nat
  BY <1>q, TimerWaits
<1>3. d \in Nat
  BY <1>2
<1>4. moved \in Seq(Timer) /\ i \in DOMAIN moved
  BY <1>q, <1>3, AdvanceType, LenProperties
<1>5. Bounded(moved) /\ (NotLate(timers[r]) => NotLate(moved))
  BY <1>q, <1>1, <1>3, NextKeeps DEF RealmClock
<1>6. Bounded(new) /\ (NotLate(timers[r]) => NotLate(new))
  <2>1. /\ Bounded([moved EXCEPT ![i].wait = t.period])
        /\ NotLate(timers[r]) => NotLate([moved EXCEPT ![i].wait = t.period])
    <3> HIDE DEF moved, t
    <3> QED
      BY <1>2, <1>4, <1>5, RearmKeeps
  <2>2. /\ Bounded(DropAt(moved, i))
        /\ NotLate(timers[r]) => NotLate(DropAt(moved, i))
    <3> HIDE DEF moved
    <3> QED
      BY <1>4, <1>5, DropKeeps
  <2> QED
    BY <2>1, <2>2
<1>7. timers' = [timers EXCEPT ![r] = new]
  BY <1>1
<1>8. phase' = [phase EXCEPT ![r] = "task"]
  BY DEF RunTask, Goto
<1>9. /\ step'[r].maxMs = step[r].maxMs /\ step'[r].left = step[r].left - d
      /\ \E s : step' = [step EXCEPT ![r] = s]
  BY <1>q, <1>1 DEF Step
<1>10. WithinBudget(step'[r])
  <2>1. WithinBudget(step[r]) /\ step[r].left \in Nat /\ step[r].maxMs \in Nat
    BY <1>q DEF RealmClock, RunTask, At, Step
  <2> HIDE DEF d
  <2> QED
    BY <1>3, <1>9, <2>1 DEF WithinBudget
<1> HIDE DEF new
<1>11. ClockStep(r)
  <2>1. timers'[r] = new /\ phase'[r] = "task"
    BY <1>q, <1>7, <1>8
  <2> QED
    BY <1>6, <1>10, <2>1 DEF ClockStep, RealmClock, Rendering
<1>12. Alone(r)
  BY <1>7, <1>8, <1>9 DEF Alone
<1> QED
  BY <1>q, <1>11, <1>12, OthersStay

(* The rendering update starts with no overdue timer, unless the step has   *)
(* yielded; then the pin moves the clock by the budget that is left, or not *)
(* at all.                                                                  *)
LEMMA RenderClock ==
    ASSUME ClockInv, NEW r \in live, BeginRender(r) \/ PinClock(r), NEW q \in Realm
    PROVE  ClockStep(q)
<1> USE DEF realmVars, queueVars, cacheVars
<1>q. /\ RealmClock(r) /\ r \in Realm /\ timers \in [Realm -> Seq(Timer)]
      /\ timers[r] \in Seq(Timer) /\ step \in [Realm -> Step] /\ step[r] \in Step
      /\ phase \in [Realm -> Phase] /\ step[r].left \in Nat /\ step[r].maxMs \in Nat
      /\ step[r].yielded \in BOOLEAN
  BY DEF ClockInv, TypeOK, Step
<1>1. CASE BeginRender(r)
  <2>1. /\ timers' = timers /\ phase' = [phase EXCEPT ![r] = "frames"]
        /\ step' = [step EXCEPT ![r] = [step[r] EXCEPT !.batch = rafs[r]]]
    BY <1>1 DEF BeginRender, Goto
  <2>2. WithinBudget(step'[r])
    BY <1>q, <1>1, <2>1 DEF RealmClock, WithinBudget, BeginRender, At, Step
  <2>3. NotLate(timers[r])
    <3>1. \A i \in DOMAIN timers[r] : timers[r][i].wait \in Int
      BY <1>q, TimerWaits
    <3>2. \A i \in DOMAIN timers[r] : timers[r][i].wait > step[r].left
      BY <1>1 DEF BeginRender
    <3> QED
      BY <1>q, <3>1, <3>2 DEF NotLate
  <2>4. ClockStep(r)
    BY <1>q, <2>1, <2>2, <2>3 DEF ClockStep, RealmClock
  <2>5. Alone(r)
    <3>1. timers' = [timers EXCEPT ![r] = timers[r]]
      BY <1>q, <2>1
    <3> QED
      BY <2>1, <3>1 DEF Alone
  <2> QED
    BY <1>q, <2>4, <2>5, OthersStay
<1>2. CASE PinClock(r)
  <2> DEFINE d == IF step[r].yielded THEN 0 ELSE step[r].left
  <2>1. d \in Nat /\ d <= step[r].left
    BY <1>q
  <2>2. /\ timers' = [timers EXCEPT ![r] = Advance(timers[r], d)]
        /\ phase' = [phase EXCEPT ![r] = "drain"]
        /\ step' = [step EXCEPT ![r].left = @ - d,
                                ![r].dirtied = @ \/ step[r].changed]
        /\ phase[r] = "pin"
    BY <1>2 DEF PinClock, Goto, At
  <2>3. WithinBudget(step[r])
    BY <1>q, <2>2 DEF RealmClock
  <2>4. Bounded(Advance(timers[r], d))
    <3>1. CASE step[r].yielded
      BY <1>q, <3>1, AdvanceLate DEF RealmClock
    <3>2. CASE ~step[r].yielded
      <4>1. NotLate(timers[r])
        BY <1>q, <2>2, <3>2 DEF RealmClock, Rendering
      <4>2. step[r].maxMs \in Budget \cup {0} /\ d <= step[r].maxMs
        <5> HIDE DEF d
        <5> QED
          BY <1>q, <2>1, <2>3 DEF WithinBudget
      <4> HIDE DEF d
      <4> QED
        BY <1>q, <2>1, <4>1, <4>2, AdvanceLate
    <3> QED
      BY <3>1, <3>2
  <2>5. /\ step'[r].maxMs = step[r].maxMs /\ step'[r].left = step[r].left - d
        /\ \E s : step' = [step EXCEPT ![r] = s]
    <3> HIDE DEF d
    <3> QED
      BY <1>q, <2>2 DEF Step
  <2>9. step[r].yielded /\ NotLate(timers[r]) => NotLate(Advance(timers[r], d))
    BY <1>q, AdvanceLate
  <2> HIDE DEF d
  <2>6. WithinBudget(step'[r])
    BY <1>q, <2>1, <2>3, <2>5 DEF WithinBudget
  <2>7. ClockStep(r)
    <3>1. timers'[r] = Advance(timers[r], d) /\ phase'[r] = "drain"
      BY <1>q, <2>2
    <3> QED
      BY <2>2, <2>4, <2>6, <2>9, <3>1 DEF ClockStep, RealmClock, Rendering, Pins
  <2>8. Alone(r)
    BY <2>2, <2>5 DEF Alone
  <2> QED
    BY <1>q, <2>7, <2>8, OthersStay
<1> QED
  BY <1>1, <1>2

(* The steps between, which move no clock. *)
LEMMA SettleClock ==
    ASSUME ClockInv, NEW r \in live, NEW q \in Realm,
           \/ FlushDone(r) \/ OutOfIterations(r) \/ TaskDone(r) \/ RunFrame(r)
           \/ FrameDone(r) \/ UpdateObservations(r) \/ ObserversDone(r) \/ StepReturns(r)
    PROVE  ClockStep(q)
<1> USE DEF realmVars, queueVars, cacheVars
<1>q. /\ RealmClock(r) /\ r \in Realm /\ step \in [Realm -> Step] /\ step[r] \in Step
      /\ phase \in [Realm -> Phase] /\ timers \in [Realm -> Seq(Timer)]
  BY DEF ClockInv, TypeOK
<1>1. UNCHANGED timers
  BY DEF FlushDone, OutOfIterations, TaskDone, RunFrame, FrameDone, UpdateObservations,
         ObserversDone, StepReturns
<1>a. ASSUME NEW p, phase' = [phase EXCEPT ![r] = p],
             NEW s, step' = [step EXCEPT ![r] = s]
      PROVE  Alone(r) /\ phase'[r] = p /\ step'[r] = s
  <2>1. timers' = [timers EXCEPT ![r] = timers[r]]
    BY <1>1, <1>q
  <2>2. Alone(r)
    BY <1>a, <2>1 DEF Alone
  <2> QED
    BY <1>a, <1>q, <2>2
<1>b. ASSUME NEW p, phase' = [phase EXCEPT ![r] = p], p = phase[r] \/ p \notin Rendering,
             phase[r] # "idle", NEW s, step' = [step EXCEPT ![r] = s],
             s.maxMs = step[r].maxMs, s.left = step[r].left, s.yielded = step[r].yielded
      PROVE  ClockStep(q)
  <2>1. ClockStep(r)
    BY <1>1, <1>a, <1>b, <1>q DEF ClockStep, RealmClock, WithinBudget
  <2> QED
    BY <1>a, <1>b, <1>q, <2>1, OthersStay
<1>c. ASSUME NEW p \in Rendering, phase' = [phase EXCEPT ![r] = p], phase[r] \in Rendering,
             NEW s, step' = [step EXCEPT ![r] = s],
             s.maxMs = step[r].maxMs, s.left = step[r].left, s.yielded = step[r].yielded
      PROVE  ClockStep(q)
  <2>1. ClockStep(r)
    BY <1>1, <1>a, <1>c, <1>q DEF ClockStep, RealmClock, WithinBudget, Rendering
  <2> QED
    BY <1>a, <1>c, <1>q, <2>1, OthersStay
<1>2. CASE FlushDone(r)
  <2>1. /\ phase' = [phase EXCEPT ![r] = "pick"] /\ phase[r] # "idle"
        /\ step' = [step EXCEPT ![r] = [step[r] EXCEPT !.visited = {}]]
    BY <1>2 DEF FlushDone, Goto, At
  <2> QED
    BY <1>b, <1>q, <2>1 DEF Rendering, Step
<1>3. CASE OutOfIterations(r)
  <2>1. PICK v : step' = [step EXCEPT ![r] = [step[r] EXCEPT !.dirtied = v]]
    BY <1>3, Zenon DEF OutOfIterations
  <2>2. phase' = [phase EXCEPT ![r] = "drain"] /\ phase[r] # "idle"
    BY <1>3 DEF OutOfIterations, Goto, At
  <2> QED
    BY <1>b, <1>q, <2>1, <2>2 DEF Rendering, Step
<1>4. CASE TaskDone(r)
  <2>1. CASE /\ phase' = [phase EXCEPT ![r] = "pick"]
             /\ step' = [step EXCEPT ![r] = [step[r] EXCEPT !.task = NoTask]]
    BY <1>4, <1>b, <1>q, <2>1 DEF Rendering, Step, TaskDone, At
  <2>2. CASE /\ phase' = [phase EXCEPT ![r] = "frames"]
             /\ step' = [step EXCEPT ![r].task = NoTask, ![r].yielded = TRUE,
                                     ![r].batch = rafs[r]]
    <3>1. PICK s : step' = [step EXCEPT ![r] = s]
      BY <2>2, Zenon
    <3>2. phase'[r] = "frames" /\ Alone(r)
      BY <1>a, <2>2, <3>1
    <3>3. /\ step'[r].maxMs = step[r].maxMs /\ step'[r].left = step[r].left
          /\ step'[r].yielded
      BY <1>q, <2>2 DEF Step
    <3>4. ClockStep(r)
      BY <1>1, <1>4, <1>q, <3>2, <3>3 DEF ClockStep, RealmClock, WithinBudget, TaskDone, At
    <3> QED
      BY <1>q, <3>2, <3>4, OthersStay
  <2> QED
    BY <1>4, <2>1, <2>2 DEF TaskDone, Goto
<1>5. CASE RunFrame(r)
  <2>1. /\ step' = [step EXCEPT ![r] = [step[r] EXCEPT !.batch = Tail(step[r].batch)]]
        /\ phase[r] = "frames"
    BY <1>5 DEF RunFrame, At
  <2>2. PICK p \in Rendering : phase' = [phase EXCEPT ![r] = p]
    <3>1. phase' = phase \/ phase' = [phase EXCEPT ![r] = "frame"]
      BY <1>5 DEF RunFrame, Goto
    <3>2. phase = [phase EXCEPT ![r] = "frames"]
      BY <1>q, <2>1
    <3> QED
      BY <3>1, <3>2 DEF Rendering
  <2> QED
    BY <1>c, <1>q, <2>1, <2>2 DEF Rendering, Step
<1>6. CASE FrameDone(r) \/ UpdateObservations(r) \/ ObserversDone(r)
  <2>1. PICK p \in Rendering : phase' = [phase EXCEPT ![r] = p]
    BY <1>6 DEF FrameDone, UpdateObservations, ObserversDone, Goto, Rendering
  <2>2. phase[r] \in Rendering /\ step' = [step EXCEPT ![r] = step[r]]
    BY <1>6, <1>q DEF FrameDone, UpdateObservations, ObserversDone, At, Rendering
  <2> QED
    BY <1>c, <2>1, <2>2
<1>7. CASE StepReturns(r)
  <2>1. /\ phase' = [phase EXCEPT ![r] = "idle"] /\ step' = [step EXCEPT ![r] = NoStep]
    BY <1>7 DEF StepReturns, Goto
  <2>2. ClockStep(r)
    BY <1>1, <1>a, <1>q, <2>1 DEF ClockStep, RealmClock, Rendering
  <2> QED
    BY <1>a, <1>q, <2>1, <2>2, OthersStay
<1> QED
  BY <1>2, <1>3, <1>4, <1>5, <1>6, <1>7

LEMMA NextClock ==
    ASSUME ClockInv, [Next]_vars, NEW q \in Realm
    PROVE  ClockStep(q)
<1>1. CASE PageScript
  BY <1>1, ScriptClock
<1>2. CASE DriverSteps \/ FindQueries
  BY <1>2, DriverClock
<1>3. CASE LoopStep
  BY <1>3, ChildrenClock, TaskClock, RenderClock, SettleClock DEF LoopStep
<1>4. CASE UNCHANGED vars
  BY <1>4, ClockStays DEF vars, queueVars, SameStep, ClockInv
<1> QED
  BY <1>1, <1>2, <1>3, <1>4 DEF Next

LEMMA InitClock == Init => ClockInv
<1> SUFFICES ASSUME Init, NEW r \in Realm PROVE RealmClock(r)
  BY InitType DEF ClockInv
<1>1. timers[r] = <<>> /\ phase[r] = "idle"
  BY DEF Init
<1> QED
  BY <1>1 DEF RealmClock, Bounded, Rendering

(* The invariant both theorems below rest on. *)
THEOREM ClockInvariant == Spec => []ClockInv
<1>1. ClockInv /\ [Next]_vars => ClockInv'
  BY NextType, NextClock DEF ClockInv, ClockStep
<1> QED
  BY <1>1, InitClock, PTL DEF Spec

(* No timer is ever late by more than the budget of one step, whatever the  *)
(* scripts schedule from tasks, animation frames and observers, in any      *)
(* number of realms: a step moves a clock past a timer only by the pin at   *)
(* its end, and only over timers that were scheduled during its rendering.  *)
THEOREM LatenessIsBounded == Spec => []LatenessBounded
<1>1. ClockInv => LatenessBounded
  BY DEF ClockInv, RealmClock, Bounded, LatenessBounded
<1> QED
  BY <1>1, ClockInvariant, PTL

(* Only that pin makes a timer overdue: taking the next due timer never     *)
(* overtakes another one, and a step that yields leaves the clock alone.    *)
THEOREM OnlyThePinMakesLate == Spec => OnlyPinMakesLate
<1>1. ClockInv /\ [Next]_vars =>
        [\A r \in Realm : Overdue(timers'[r]) /\ ~Overdue(timers[r]) =>
              phase[r] = "pin" /\ ~step[r].yielded]_vars
  <2> SUFFICES ASSUME ClockInv, [Next]_vars, NEW r \in Realm,
                      Overdue(timers'[r]), ~Overdue(timers[r])
               PROVE  phase[r] = "pin" /\ ~step[r].yielded
    OBVIOUS
  <2>1. \A i \in DOMAIN timers[r] : timers[r][i].wait \in Int
    BY TimerWaits DEF ClockInv, TypeOK
  <2>2. TypeOK'
    BY NextType DEF ClockInv
  <2>3. \A i \in DOMAIN timers'[r] : timers'[r][i].wait \in Int
    BY <2>2, TimerWaits DEF TypeOK
  <2>4. NotLate(timers[r]) /\ ~NotLate(timers'[r])
    BY <2>1, <2>3 DEF NotLate, Overdue
  <2> QED
    BY <2>4, NextClock DEF ClockStep, Pins
<1> QED
  BY <1>1, ClockInvariant, PTL DEF Spec, OnlyPinMakesLate
=============================================================================
