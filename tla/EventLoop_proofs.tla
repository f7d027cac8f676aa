-------------------------- MODULE EventLoop_proofs --------------------------
(* Theorems about EventLoop, for any realms, delays, budgets and bounds. *)
EXTENDS EventLoop, TLAPS, SequenceTheorems

(* The types every action preserves, over the queues alone. *)
LEMMA DropAtType ==
    ASSUME NEW T, NEW s \in Seq(T), NEW i \in DOMAIN s
    PROVE  DropAt(s, i) \in Seq(T)
<1>1. i \in 1 .. Len(s)
  BY LenProperties
<1>2. SubSeq(s, 1, i - 1) \in Seq(T) /\ SubSeq(s, i + 1, Len(s)) \in Seq(T)
  BY <1>1, SubSeqProperties
<1> QED
  BY <1>2, ConcatProperties DEF DropAt

LEMMA TimerMoved ==
    ASSUME NEW t \in Timer, NEW d \in Int
    PROVE  /\ [t EXCEPT !.wait = t.wait - d] \in Timer
           /\ [t EXCEPT !.wait = t.wait - d].wait = t.wait - d
BY DEF Timer

LEMMA AdvanceType ==
    ASSUME NEW ts \in Seq(Timer), NEW d \in Int
    PROVE  /\ Advance(ts, d) \in Seq(Timer)
           /\ Len(Advance(ts, d)) = Len(ts)
           /\ \A i \in DOMAIN ts : Advance(ts, d)[i].wait = ts[i].wait - d
<1> DEFINE n == Len(ts)
<1>1. DOMAIN ts = 1 .. n /\ n \in Nat
  BY LenProperties
<1>2. \A i \in 1 .. n : ts[i] \in Timer
  BY <1>1, ElementOfSeq
<1>3. \A i \in 1 .. n : [ts[i] EXCEPT !.wait = @ - d] \in Timer
  BY <1>2, TimerMoved
<1>4. Advance(ts, d) \in [1 .. n -> Timer]
  BY <1>1, <1>3 DEF Advance
<1>5. Advance(ts, d) \in Seq(Timer) /\ Len(Advance(ts, d)) = n
  BY <1>1, <1>4, IsASeq, LenProperties
<1>6. \A i \in DOMAIN ts : Advance(ts, d)[i].wait = ts[i].wait - d
  BY <1>1, <1>2, TimerMoved DEF Advance
<1> QED
  BY <1>5, <1>6

----------------------------------------------------------------------------
(* Type correctness. *)

LEMMA EnteredType ==
    ASSUME NEW maxMs \in Nat, NEW maxIter \in Nat, NEW yield \in BOOLEAN
    PROVE  Entered(maxMs, maxIter, yield) \in Step
<1>1. <<>> \in Seq(BOOLEAN)
  OBVIOUS
<1> QED
  BY <1>1 DEF Entered, Step

LEMMA NoStepType == NoStep \in Step
BY EnteredType DEF NoStep

LEMMA StepFields ==
    ASSUME NEW s \in Step
    PROVE  /\ \A v \in Nat : [s EXCEPT !.left = v] \in Step
           /\ \A v \in Nat : [s EXCEPT !.iters = v] \in Step
           /\ \A v \in SUBSET Realm : [s EXCEPT !.visited = v] \in Step
           /\ \A v \in Seq(BOOLEAN) : [s EXCEPT !.batch = v] \in Step
           /\ \A v \in Handler \cup {NoTask} : [s EXCEPT !.task = v] \in Step
           /\ \A v \in BOOLEAN : [s EXCEPT !.yielded = v] \in Step
           /\ \A v \in BOOLEAN : [s EXCEPT !.fired = v] \in Step
           /\ \A v \in BOOLEAN : [s EXCEPT !.dirtied = v] \in Step
           /\ \A v \in BOOLEAN : [s EXCEPT !.changed = v] \in Step
BY DEF Step

LEMMA InitType == Init => TypeOK
<1> SUFFICES ASSUME Init PROVE TypeOK
  OBVIOUS
<1> USE DEF Init
<1>1. step \in [Realm -> Step]
  BY NoStepType
<1>2. childIds \in [Realm -> Seq(Realm)]
  OBVIOUS
<1>3. timers \in [Realm -> Seq(Timer)] /\ rafs \in [Realm -> Seq(BOOLEAN)]
  OBVIOUS
<1>4. phase \in [Realm -> Phase] /\ path \in [Realm -> SUBSET Realm]
  BY DEF Phase
<1> QED
  BY <1>1, <1>2, <1>3, <1>4, RealmsAssumption DEF TypeOK

LEMMA ScriptType ==
    ASSUME TypeOK, NEW r \in live
    PROVE  /\ SetTimeout(r) \/ SetInterval(r) => TypeOK'
           /\ ClearTimer(r) => TypeOK'
           /\ RequestAnimationFrame(r) => TypeOK'
           /\ CancelAnimationFrame(r) => TypeOK'
           /\ Observe(r) \/ Disconnect(r) => TypeOK'
           /\ Mutate(r) => TypeOK'
<1> r \in Realm
  BY DEF TypeOK
<1> USE DEF realmVars, queueVars, cacheVars, loopVars
<1>1. ASSUME SetTimeout(r) \/ SetInterval(r) PROVE TypeOK'
  <2>1. PICK h \in Handler, d \in Nat, p \in Nat : SetTimer(r, h, d, p)
    BY <1>1, TimesAssumption DEF SetTimeout, SetInterval
  <2>2. [handler |-> h, wait |-> d, period |-> p] \in Timer
    BY DEF Timer
  <2>3. timers' \in [Realm -> Seq(Timer)]
    BY <2>1, <2>2, AppendProperties DEF SetTimer, TypeOK
  <2> QED
    BY <2>1, <2>3 DEF SetTimer, TypeOK, WakeOnIdle
<1>2. ASSUME ClearTimer(r) PROVE TypeOK'
  <2>1. timers' \in [Realm -> Seq(Timer)]
    BY <1>2, DropAtType DEF ClearTimer, TypeOK
  <2> QED
    BY <1>2, <2>1 DEF ClearTimer, TypeOK, MaybeClear
<1>3. ASSUME RequestAnimationFrame(r) PROVE TypeOK'
  <2>1. rafs' \in [Realm -> Seq(BOOLEAN)]
    BY <1>3, AppendProperties DEF RequestAnimationFrame, TypeOK
  <2> QED
    BY <1>3, <2>1 DEF RequestAnimationFrame, TypeOK, WakeOnIdle
<1>4. ASSUME CancelAnimationFrame(r) PROVE TypeOK'
  <2>1. CASE \E i \in DOMAIN rafs[r] : rafs' = [rafs EXCEPT ![r][i] = TRUE] /\ UNCHANGED step
    <3>1. rafs' \in [Realm -> Seq(BOOLEAN)]
      BY <2>1, ExceptSeq DEF TypeOK
    <3> QED
      BY <1>4, <2>1, <3>1 DEF CancelAnimationFrame, TypeOK
  <2>2. CASE \E i \in DOMAIN step[r].batch :
                step' = [step EXCEPT ![r].batch[i] = TRUE] /\ UNCHANGED rafs
    <3>1. PICK i \in DOMAIN step[r].batch : step' = [step EXCEPT ![r].batch[i] = TRUE]
      BY <2>2
    <3>2. step[r] \in Step /\ step[r].batch \in Seq(BOOLEAN)
      BY DEF TypeOK, Step
    <3>3. [step[r].batch EXCEPT ![i] = TRUE] \in Seq(BOOLEAN)
      BY <3>1, <3>2, ExceptSeq
    <3>4. step' \in [Realm -> Step]
      BY <3>1, <3>2, <3>3 DEF TypeOK, Step
    <3> QED
      BY <1>4, <2>2, <3>4 DEF CancelAnimationFrame, TypeOK
  <2> QED
    BY <1>4, <2>1, <2>2 DEF CancelAnimationFrame
<1>5. ASSUME Observe(r) \/ Disconnect(r) PROVE TypeOK'
  BY <1>5 DEF Observe, Disconnect, TypeOK
<1>6. ASSUME Mutate(r) PROVE TypeOK'
  <2>1. PICK b \in BOOLEAN : step' = [step EXCEPT ![r].changed = b]
    BY <1>6 DEF Mutate
  <2>2. step' \in [Realm -> Step]
    BY <2>1, StepFields DEF TypeOK
  <2> QED
    BY <1>6, <2>2 DEF Mutate, TypeOK
<1> QED
  BY <1>1, <1>2, <1>3, <1>4, <1>5, <1>6

LEMMA AttachType ==
    ASSUME TypeOK, NEW p \in live, NEW c \in unborn, AttachRealm(p, c)
    PROVE  TypeOK'
<1>1. p \in Realm /\ c \in Realm
  BY DEF TypeOK
<1>2. childIds' \in [Realm -> Seq(Realm)]
  BY <1>1, AppendProperties DEF AttachRealm, TypeOK
<1>3. path' \in [Realm -> SUBSET Realm]
  BY <1>1 DEF AttachRealm, TypeOK
<1> QED
  BY <1>1, <1>2, <1>3 DEF AttachRealm, TypeOK, queueVars, loopVars, cacheVars

LEMMA DetachType ==
    ASSUME TypeOK, NEW c \in live, DetachRealm(c)
    PROVE  TypeOK'
<1> DEFINE gone == {r \in live : c \in path[r]}
<1>1. PICK p \in live : \E i \in DOMAIN childIds[p] :
          childIds' = [r \in Realm |-> IF r \in gone THEN <<>>
                                      ELSE IF r = p THEN DropAt(childIds[p], i)
                                      ELSE childIds[r]]
  BY DEF DetachRealm
<1>2. PICK i \in DOMAIN childIds[p] :
          childIds' = [r \in Realm |-> IF r \in gone THEN <<>>
                                      ELSE IF r = p THEN DropAt(childIds[p], i)
                                      ELSE childIds[r]]
  BY <1>1
<1>3. DropAt(childIds[p], i) \in Seq(Realm)
  BY DropAtType DEF TypeOK
<1>7. childIds' \in [Realm -> Seq(Realm)]
  <2> HIDE DEF gone
  <2> QED
    BY <1>2, <1>3, EmptySeq DEF TypeOK
<1>4. timers' = [r \in Realm |-> IF r \in gone THEN <<>> ELSE timers[r]]
  BY DEF DetachRealm
<1>5. rafs' = [r \in Realm |-> IF r \in gone THEN <<>> ELSE rafs[r]]
  BY DEF DetachRealm
<1>6. timers' \in [Realm -> Seq(Timer)] /\ rafs' \in [Realm -> Seq(BOOLEAN)]
  <2> HIDE DEF gone
  <2> QED
    BY <1>4, <1>5, EmptySeq DEF TypeOK
<1> QED
  BY <1>6, <1>7 DEF DetachRealm, TypeOK, loopVars, cacheVars

LEMMA DriverType == TypeOK /\ (DriverSteps \/ FindQueries) => TypeOK'
<1> SUFFICES ASSUME TypeOK, DriverSteps \/ FindQueries PROVE TypeOK'
  OBVIOUS
<1>1. CASE DriverSteps
  <2>1. PICK maxMs \in Nat, maxIter \in Nat, yield \in BOOLEAN :
            RunLoopStep(maxMs, maxIter, yield)
    BY <1>1, TimesAssumption DEF DriverSteps
  <2>2. step' \in [Realm -> Step]
    BY <2>1, EnteredType, RealmsAssumption DEF RunLoopStep, TypeOK
  <2>3. phase' \in [Realm -> Phase] /\ current' \in Realm
    BY <2>1, RealmsAssumption DEF RunLoopStep, TypeOK, Phase
  <2> QED
    BY <2>1, <2>2, <2>3 DEF RunLoopStep, TypeOK, realmVars, queueVars, cacheVars
<1>2. CASE FindQueries
  BY <1>2 DEF FindQueries, TypeOK, realmVars, queueVars, loopVars
<1> QED
  BY <1>1, <1>2

LEMMA GotoType ==
    ASSUME TypeOK, NEW r \in Realm, NEW p \in Phase, Goto(r, p)
    PROVE  phase' \in [Realm -> Phase]
BY DEF Goto, TypeOK

LEMMA ChildrenType ==
    ASSUME TypeOK, NEW r \in live, NEW c \in live
    PROVE  SkipChild(r, c) \/ StepChild(r, c) \/ ChildStepReturns(r, c) => TypeOK'
<1> r \in Realm /\ c \in Realm /\ step[r] \in Step /\ step[c] \in Step
  BY DEF TypeOK
<1> USE DEF realmVars, queueVars, cacheVars
<1> DEFINE reached == [step[r] EXCEPT !.visited = step[r].visited \cup {c}]
<1>1. reached \in Step
  <2>1. step[r].visited \cup {c} \in SUBSET Realm
    BY DEF Step
  <2> QED
    BY <2>1, StepFields
<1>2. ASSUME SkipChild(r, c) PROVE TypeOK'
  <2>1. step' = [step EXCEPT ![r] = reached]
    BY <1>2 DEF SkipChild
  <2>2. step' \in [Realm -> Step]
    BY <1>1, <2>1 DEF TypeOK
  <2> QED
    BY <1>2, <2>2 DEF SkipChild, TypeOK
<1>3. ASSUME StepChild(r, c) PROVE TypeOK'
  <2> DEFINE entered == Entered(ChildBudget(r), step[r].maxIter, FALSE)
  <2>1. entered \in Step
    BY EnteredType DEF ChildBudget, Step
  <2>2. step' = [step EXCEPT ![r] = reached, ![c] = entered]
    BY <1>3 DEF StepChild
  <2>3. step' \in [Realm -> Step]
    <3> HIDE DEF reached, entered
    <3> QED
      BY <1>1, <2>1, <2>2 DEF TypeOK
  <2>4. phase' \in [Realm -> Phase]
    BY <1>3 DEF StepChild, TypeOK, Phase
  <2> QED
    BY <1>3, <2>3, <2>4 DEF StepChild, TypeOK
<1>4. ASSUME ChildStepReturns(r, c) PROVE TypeOK'
  <2>1. PICK f \in BOOLEAN : f = (step[c].fired \/ step[r].fired)
    OBVIOUS
  <2>2. PICK d \in BOOLEAN : d = (step[c].dirtied \/ step[r].dirtied)
    OBVIOUS
  <2> DEFINE folded == [[step[c] EXCEPT !.fired = f] EXCEPT !.dirtied = d]
  <2>3. folded \in Step
    BY StepFields
  <2>4. step' = [step EXCEPT ![r] = NoStep, ![c] = folded]
    BY <1>4, <2>1, <2>2 DEF ChildStepReturns, TypeOK
  <2>5. step' \in [Realm -> Step]
    <3> HIDE DEF folded
    <3> QED
      BY <2>3, <2>4, NoStepType DEF TypeOK
  <2>6. phase' \in [Realm -> Phase]
    BY <1>4, GotoType DEF ChildStepReturns, Phase
  <2> QED
    BY <1>4, <2>5, <2>6 DEF ChildStepReturns, TypeOK
<1> QED
  BY <1>2, <1>3, <1>4

LEMMA TaskType ==
    ASSUME TypeOK, NEW r \in live
    PROVE  RunTask(r) => TypeOK'
<1> SUFFICES ASSUME RunTask(r) PROVE TypeOK'
  OBVIOUS
<1> r \in Realm /\ step[r] \in Step /\ timers[r] \in Seq(Timer)
  BY DEF TypeOK
<1> USE DEF realmVars, queueVars, cacheVars
<1>1. PICK i \in DOMAIN timers[r] :
        LET t == timers[r][i]
            d == IF t.wait > 0 THEN t.wait ELSE 0
            moved == Advance(timers[r], d)
        IN  /\ t.wait <= step[r].left
            /\ timers' = [timers EXCEPT ![r] =
                   IF t.period # 0 THEN [moved EXCEPT ![i].wait = t.period]
                                   ELSE DropAt(moved, i)]
            /\ step' = [step EXCEPT ![r].left = @ - d, ![r].iters = @ + 1,
                                    ![r].fired = TRUE, ![r].task = t.handler]
  BY DEF RunTask
<1> DEFINE t == timers[r][i]
           d == IF t.wait > 0 THEN t.wait ELSE 0
           moved == Advance(timers[r], d)
<1>2. t \in Timer
  BY ElementOfSeq
<1>3. t.wait \in Int /\ t.period \in Nat /\ t.handler \in Handler
  BY <1>2 DEF Timer
<1>4. d \in Int
  BY <1>3
<1>5. moved \in Seq(Timer) /\ DOMAIN moved = DOMAIN timers[r]
  BY <1>4, AdvanceType, LenProperties
<1>6. moved[i] \in Timer
  BY <1>5, ElementOfSeq
<1>7. [moved[i] EXCEPT !.wait = t.period] \in Timer
  BY <1>3, <1>6 DEF Timer
<1>8. [moved EXCEPT ![i].wait = t.period] \in Seq(Timer)
  <2>1. [moved EXCEPT ![i].wait = t.period]
           = [moved EXCEPT ![i] = [moved[i] EXCEPT !.wait = t.period]]
    BY <1>5
  <2> QED
    BY <1>5, <1>7, <2>1, ExceptSeq
<1>9. DropAt(moved, i) \in Seq(Timer)
  BY <1>5, DropAtType
<1>10. timers' \in [Realm -> Seq(Timer)]
  <2> DEFINE new == IF t.period # 0 THEN [moved EXCEPT ![i].wait = t.period]
                                    ELSE DropAt(moved, i)
  <2>1. new \in Seq(Timer)
    BY <1>8, <1>9
  <2>2. timers' = [timers EXCEPT ![r] = new]
    BY <1>1
  <2> HIDE DEF new
  <2> QED
    BY <2>1, <2>2 DEF TypeOK
<1>11. step' \in [Realm -> Step]
  <2> DEFINE left == step[r].left - d
             iters == step[r].iters + 1
             ran == [[[[step[r] EXCEPT !.left = left] EXCEPT !.iters = iters]
                         EXCEPT !.fired = TRUE] EXCEPT !.task = t.handler]
  <2>1. left \in Nat /\ iters \in Nat
    <3>1. t.wait <= step[r].left /\ step[r].left \in Nat /\ step[r].iters \in Nat
      BY <1>1 DEF Step
    <3> HIDE DEF t
    <3> QED
      BY <1>3, <3>1
  <2>2. step' = [step EXCEPT ![r] = ran]
    BY <1>1 DEF TypeOK
  <2>3. ran \in Step
    <3> HIDE DEF left, iters, t
    <3> QED
      BY <1>3, <2>1, StepFields
  <2> HIDE DEF ran
  <2> QED
    BY <2>2, <2>3 DEF TypeOK
<1>12. phase' \in [Realm -> Phase]
  BY GotoType DEF RunTask, Phase
<1> QED
  BY <1>10, <1>11, <1>12 DEF RunTask, TypeOK

LEMMA RenderType ==
    ASSUME TypeOK, NEW r \in live
    PROVE  /\ FlushDone(r) => TypeOK'
           /\ OutOfIterations(r) => TypeOK'
           /\ TaskDone(r) => TypeOK'
           /\ BeginRender(r) => TypeOK'
           /\ RunFrame(r) => TypeOK'
           /\ FrameDone(r) \/ ObserversDone(r) \/ UpdateObservations(r) => TypeOK'
           /\ PinClock(r) => TypeOK'
           /\ StepReturns(r) => TypeOK'
<1> r \in Realm /\ step[r] \in Step /\ rafs[r] \in Seq(BOOLEAN)
  BY DEF TypeOK
<1> USE DEF realmVars, queueVars, cacheVars
<1>0. "idle" \in Phase /\ "pick" \in Phase /\ "frames" \in Phase /\ "frame" \in Phase
        /\ "observers" \in Phase /\ "pin" \in Phase /\ "drain" \in Phase
  BY DEF Phase
<1>f. step[r].batch \in Seq(BOOLEAN) /\ step[r].left \in Nat
        /\ step[r].dirtied \in BOOLEAN /\ step[r].changed \in BOOLEAN
  BY DEF Step
<1>1. ASSUME FlushDone(r) PROVE TypeOK'
  <2>1. step' \in [Realm -> Step]
    BY <1>1, StepFields DEF FlushDone, TypeOK
  <2> QED
    BY <1>0, <1>1, <2>1, GotoType DEF FlushDone, TypeOK
<1>2. ASSUME OutOfIterations(r) PROVE TypeOK'
  <2>1. PICK b \in BOOLEAN : step' = [step EXCEPT ![r] = [step[r] EXCEPT !.dirtied = b]]
    BY <1>2, <1>f DEF OutOfIterations, TypeOK
  <2>2. step' \in [Realm -> Step]
    BY <2>1, StepFields DEF TypeOK
  <2> QED
    BY <1>0, <1>2, <2>2, GotoType DEF OutOfIterations, TypeOK
<1>3. ASSUME TaskDone(r) PROVE TypeOK'
  <2>1. CASE step[r].yield /\ step[r].changed
    <3> DEFINE done == [[[step[r] EXCEPT !.task = NoTask] EXCEPT !.yielded = TRUE]
                           EXCEPT !.batch = rafs[r]]
    <3>1. done \in Step
      BY StepFields
    <3>2. step' = [step EXCEPT ![r] = done]
      BY <1>3, <2>1 DEF TaskDone, TypeOK
    <3>3. step' \in [Realm -> Step]
      <4> HIDE DEF done
      <4> QED
        BY <3>1, <3>2 DEF TypeOK
    <3>4. rafs' \in [Realm -> Seq(BOOLEAN)]
      <4>1. rafs' = [rafs EXCEPT ![r] = <<>>]
        BY <1>3, <2>1 DEF TaskDone
      <4> HIDE <2>1
      <4> QED
        BY <4>1, EmptySeq DEF TypeOK
    <3>5. phase' \in [Realm -> Phase]
      BY <1>0, <1>3, <2>1, GotoType DEF TaskDone
    <3> QED
      BY <1>3, <3>3, <3>4, <3>5 DEF TaskDone, TypeOK
  <2>2. CASE ~(step[r].yield /\ step[r].changed)
    <3>1. step' \in [Realm -> Step]
      <4>1. step' = [step EXCEPT ![r] = [step[r] EXCEPT !.task = NoTask]]
        BY <1>3, <2>2 DEF TaskDone, TypeOK
      <4> HIDE <2>2
      <4> QED
        BY <4>1, StepFields DEF TypeOK
    <3>2. phase' \in [Realm -> Phase]
      BY <1>0, <1>3, <2>2, GotoType DEF TaskDone
    <3> QED
      BY <1>3, <2>2, <3>1, <3>2 DEF TaskDone, TypeOK
  <2> QED
    BY <2>1, <2>2
<1>4. ASSUME BeginRender(r) PROVE TypeOK'
  <2>1. step' \in [Realm -> Step]
    BY <1>4, StepFields DEF BeginRender, TypeOK
  <2>2. rafs' \in [Realm -> Seq(BOOLEAN)]
    BY <1>4, EmptySeq DEF BeginRender, TypeOK
  <2> QED
    BY <1>0, <1>4, <2>1, <2>2, GotoType DEF BeginRender, TypeOK
<1>5. ASSUME RunFrame(r) PROVE TypeOK'
  <2>1. Tail(step[r].batch) \in Seq(BOOLEAN)
    BY <1>5, <1>f, HeadTailProperties DEF RunFrame
  <2>2. step' \in [Realm -> Step]
    BY <1>5, <2>1, StepFields DEF RunFrame, TypeOK
  <2>3. phase' \in [Realm -> Phase]
    BY <1>0, <1>5, GotoType DEF RunFrame, TypeOK
  <2> QED
    BY <1>5, <2>2, <2>3 DEF RunFrame, TypeOK
<1>6. ASSUME FrameDone(r) \/ ObserversDone(r) \/ UpdateObservations(r) PROVE TypeOK'
  <2>1. phase' \in [Realm -> Phase]
    BY <1>0, <1>6, GotoType DEF FrameDone, ObserversDone, UpdateObservations
  <2> QED
    BY <1>6, <2>1 DEF FrameDone, ObserversDone, UpdateObservations, TypeOK
<1>7. ASSUME PinClock(r) PROVE TypeOK'
  <2> DEFINE d == IF step[r].yielded THEN 0 ELSE step[r].left
  <2>1. d \in Int
    BY <1>f
  <2>2. timers' \in [Realm -> Seq(Timer)]
    <3>1. Advance(timers[r], d) \in Seq(Timer)
      BY <2>1, AdvanceType DEF TypeOK
    <3>2. timers' = [timers EXCEPT ![r] = Advance(timers[r], d)]
      BY <1>7 DEF PinClock
    <3> HIDE DEF d
    <3> QED
      BY <3>1, <3>2 DEF TypeOK
  <2>3. step' \in [Realm -> Step]
    <3>1. PICK b \in BOOLEAN : b = (step[r].dirtied \/ step[r].changed)
      OBVIOUS
    <3>2. step[r].left - d \in Nat
      BY <1>f, <2>1
    <3> DEFINE pinned == [[step[r] EXCEPT !.left = step[r].left - d] EXCEPT !.dirtied = b]
    <3>3. step' = [step EXCEPT ![r] = pinned]
      BY <1>7, <3>1 DEF PinClock, TypeOK
    <3>4. pinned \in Step
      <4> HIDE DEF d
      <4> QED
        BY <3>2, StepFields
    <3> HIDE DEF pinned
    <3> QED
      BY <3>3, <3>4 DEF TypeOK
  <2>4. phase' \in [Realm -> Phase] /\ timersActive' \in BOOLEAN
    BY <1>0, <1>7, GotoType DEF PinClock, MaybeClear, TypeOK
  <2> QED
    BY <1>7, <2>2, <2>3, <2>4 DEF PinClock, TypeOK
<1>8. ASSUME StepReturns(r) PROVE TypeOK'
  <2>1. step' \in [Realm -> Step] /\ phase' \in [Realm -> Phase]
    BY <1>0, <1>8, NoStepType, GotoType DEF StepReturns, TypeOK
  <2> QED
    BY <1>8, <2>1 DEF StepReturns, TypeOK
<1> QED
  BY <1>1, <1>2, <1>3, <1>4, <1>5, <1>6, <1>7, <1>8

LEMMA NextType == TypeOK /\ [Next]_vars => TypeOK'
<1> SUFFICES ASSUME TypeOK, [Next]_vars PROVE TypeOK'
  OBVIOUS
<1>1. CASE PageScript
  BY <1>1, ScriptType, AttachType, DetachType DEF PageScript
<1>2. CASE DriverSteps \/ FindQueries
  BY <1>2, DriverType
<1>3. CASE LoopStep
  BY <1>3, ChildrenType, TaskType, RenderType DEF LoopStep
<1>4. CASE UNCHANGED vars
  BY <1>4 DEF vars, realmVars, queueVars, cacheVars, TypeOK
<1> QED
  BY <1>1, <1>2, <1>3, <1>4 DEF Next

(* Every variable keeps its type, whatever the page's scripts do and        *)
(* however the driver steps the loop.                                       *)
THEOREM TypeCorrect == Spec => []TypeOK
BY InitType, NextType, PTL DEF Spec

----------------------------------------------------------------------------
(* The process-wide flag covers the work of every realm, provided that no   *)
(* realm is a second root of the tree (no same-isolate window): the scan    *)
(* that lets the flag drop then starts at Main and reaches every realm.     *)

MainAbove == \A r \in live : Main \in path[r]

(* A context id that is not live has no queues: it gets none before it is   *)
(* attached, and DetachRealm drops what it had.                             *)
Drained(r) == timers[r] = <<>> /\ rafs[r] = <<>> /\ r \notin ioPending

OnlyLiveHasWork ==
    /\ live \cap unborn = {}
    /\ \A r \in Realm \ live : Drained(r)

TreeInv == TypeOK /\ MainAbove /\ OnlyLiveHasWork

LEMMA InitTree == Init => TreeInv
BY InitType, RealmsAssumption DEF Init, TreeInv, MainAbove, OnlyLiveHasWork, Drained, TypeOK

LEMMA TreeNext == TreeInv /\ [Next]_vars => TreeInv'
<1> SUFFICES ASSUME TreeInv, [Next]_vars PROVE MainAbove' /\ OnlyLiveHasWork'
  BY NextType DEF TreeInv
<1> USE DEF TreeInv, MainAbove, OnlyLiveHasWork, Drained, realmVars, queueVars, loopVars,
            cacheVars
<1>l. live \subseteq Realm
  BY DEF TypeOK
<1>1. ASSUME NEW p \in live, NEW c \in unborn, AttachRealm(p, c)
      PROVE  MainAbove' /\ OnlyLiveHasWork'
  BY <1>1 DEF AttachRealm, TypeOK
<1>2. ASSUME NEW c \in live, DetachRealm(c)
      PROVE  MainAbove' /\ OnlyLiveHasWork'
  BY <1>2 DEF DetachRealm, TypeOK
<1>3. ASSUME UNCHANGED realmVars,
             \A r \in Realm \ live : timers'[r] = timers[r] /\ rafs'[r] = rafs[r]
                                     /\ (r \in ioPending' => r \in ioPending)
      PROVE  MainAbove' /\ OnlyLiveHasWork'
  BY <1>3
<1>4. ASSUME NEW r \in live,
             \/ SetTimeout(r) \/ SetInterval(r) \/ ClearTimer(r)
             \/ RequestAnimationFrame(r) \/ CancelAnimationFrame(r)
             \/ Observe(r) \/ Disconnect(r) \/ Mutate(r)
      PROVE  MainAbove' /\ OnlyLiveHasWork'
  BY <1>3, <1>4, <1>l DEF SetTimeout, SetInterval, SetTimer, ClearTimer, TypeOK,
       RequestAnimationFrame, CancelAnimationFrame, Observe, Disconnect, Mutate
<1>5. CASE PageScript
  BY <1>1, <1>2, <1>4, <1>5 DEF PageScript
<1>6. CASE DriverSteps \/ FindQueries
  BY <1>6, <1>3 DEF DriverSteps, RunLoopStep, FindQueries
<1>7. CASE LoopStep
  <2>1. ASSUME NEW r \in live, NEW c \in live,
               SkipChild(r, c) \/ StepChild(r, c) \/ ChildStepReturns(r, c)
        PROVE  MainAbove' /\ OnlyLiveHasWork'
    BY <1>3, <2>1 DEF SkipChild, StepChild, ChildStepReturns
  <2>2. ASSUME NEW r \in live, RunTask(r) \/ PinClock(r)
        PROVE  MainAbove' /\ OnlyLiveHasWork'
    <3>1. \E new : timers' = [timers EXCEPT ![r] = new]
      <4>1. CASE RunTask(r)
        BY <4>1, Zenon DEF RunTask
      <4>2. CASE PinClock(r)
        BY <4>2, Zenon DEF PinClock
      <4> QED
        BY <2>2, <4>1, <4>2
    <3>2. \A q \in Realm \ live : timers'[q] = timers[q]
      BY <3>1, <1>l DEF TypeOK
    <3> QED
      BY <1>3, <2>2, <3>2 DEF RunTask, PinClock
  <2>3. ASSUME NEW r \in live, TaskDone(r) \/ BeginRender(r)
        PROVE  MainAbove' /\ OnlyLiveHasWork'
    BY <1>3, <2>3, <1>l DEF TaskDone, BeginRender, TypeOK
  <2>4. ASSUME NEW r \in live,
               \/ FlushDone(r) \/ OutOfIterations(r) \/ RunFrame(r) \/ FrameDone(r)
               \/ UpdateObservations(r) \/ ObserversDone(r) \/ StepReturns(r)
        PROVE  MainAbove' /\ OnlyLiveHasWork'
    BY <1>3, <2>4 DEF FlushDone, OutOfIterations, RunFrame, FrameDone,
         UpdateObservations, ObserversDone, StepReturns
  <2> QED
    BY <1>7, <2>1, <2>2, <2>3, <2>4 DEF LoopStep
<1>8. CASE UNCHANGED vars
  BY <1>8, <1>3 DEF vars
<1> QED
  BY <1>5, <1>6, <1>7, <1>8 DEF Next

FlagInv == TreeInv /\ TimersActiveSound

LEMMA StaysSound ==
    ASSUME TimersActiveSound, live' \subseteq live, timersActive' = timersActive,
           \A q \in live : Pending(q, timers, rafs, ioPending)'
                               => Pending(q, timers, rafs, ioPending)
    PROVE  TimersActiveSound'
BY DEF TimersActiveSound

(* Where maybeClearTimersActive drops the flag, nothing is pending. *)
LEMMA ClearIsSound ==
    ASSUME Windows = {}, FlagInv, NEW r \in live, live' = live,
           timersActive' = MaybeClear(r, timers', rafs', ioPending'),
           \A q \in live : Pending(q, timers, rafs, ioPending)'
                               => Pending(q, timers, rafs, ioPending)
    PROVE  TimersActiveSound'
<1>1. Top(r) = Main
  BY DEF Top
<1>2. CASE timersActive' = timersActive
  BY <1>2, StaysSound DEF FlagInv
<1>3. CASE timersActive' # timersActive
  <2>1. ~SubtreePending(Main, timers', rafs', ioPending')
    BY <1>1, <1>3 DEF MaybeClear
  <2>2. \A q \in live : ~Pending(q, timers', rafs', ioPending')
    BY <2>1 DEF SubtreePending, FlagInv, TreeInv, MainAbove
  <2> QED
    BY <2>2 DEF TimersActiveSound, Pending
<1> QED
  BY <1>2, <1>3

(* Where a wake is skipped because the realm had work, the flag was up. *)
LEMMA WakeIsSound ==
    ASSUME FlagInv, NEW r \in live, live' = live, timersActive' = WakeOnIdle(r)
    PROVE  TimersActiveSound'
BY DEF WakeOnIdle, FlagInv, TimersActiveSound

LEMMA ScriptFlag ==
    ASSUME Windows = {}, FlagInv, PageScript
    PROVE  TimersActiveSound'
<1> USE DEF realmVars, queueVars, loopVars, cacheVars
<1>l. live \subseteq Realm /\ timers \in [Realm -> Seq(Timer)]
        /\ rafs \in [Realm -> Seq(BOOLEAN)]
  BY DEF FlagInv, TreeInv, TypeOK
<1>1. ASSUME NEW r \in live, SetTimeout(r) \/ SetInterval(r) \/ RequestAnimationFrame(r)
      PROVE  TimersActiveSound'
  BY <1>1, WakeIsSound DEF SetTimeout, SetInterval, SetTimer, RequestAnimationFrame
<1>2. ASSUME NEW r \in live, ClearTimer(r)
      PROVE  TimersActiveSound'
  <2>1. timers[r] # <<>> /\ \A q \in live \ {r} : timers'[q] = timers[q]
    BY <1>l, <1>2, LenProperties DEF ClearTimer
  <2>2. \A q \in live : Pending(q, timers, rafs, ioPending)'
                           => Pending(q, timers, rafs, ioPending)
    BY <1>2, <2>1 DEF ClearTimer, Pending
  <2> QED
    BY <1>2, <2>2, ClearIsSound DEF ClearTimer
<1>3. ASSUME NEW r \in live, CancelAnimationFrame(r)
      PROVE  TimersActiveSound'
  <2>1. \A q \in live : rafs'[q] # <<>> => rafs[q] # <<>>
    <3>1. CASE UNCHANGED rafs
      BY <3>1
    <3>2. CASE \E i \in DOMAIN rafs[r] : rafs' = [rafs EXCEPT ![r][i] = TRUE]
      BY <1>l, <3>2, LenProperties
    <3> QED
      BY <1>3, <3>1, <3>2 DEF CancelAnimationFrame
  <2>2. \A q \in live : Pending(q, timers, rafs, ioPending)'
                           => Pending(q, timers, rafs, ioPending)
    BY <1>3, <2>1 DEF CancelAnimationFrame, Pending
  <2> QED
    BY <1>3, <2>2, StaysSound DEF CancelAnimationFrame, FlagInv
<1>4. ASSUME NEW r \in live, Observe(r) \/ Mutate(r)
      PROVE  TimersActiveSound'
  <2>1. CASE UNCHANGED <<ioPending, timersActive>>
    BY <1>4, <2>1, StaysSound DEF Observe, Mutate, FlagInv, Pending
  <2>2. CASE timersActive'
    BY <2>2 DEF TimersActiveSound
  <2>3. CASE r \in ioPending
    <3>1. timersActive
      BY <2>3 DEF FlagInv, TimersActiveSound, Pending
    <3> QED
      BY <1>4, <2>2, <3>1 DEF Observe, Mutate
  <2>4. CASE r \notin ioPending /\ Observe(r)
    BY <2>2, <2>4 DEF Observe
  <2>5. CASE r \notin ioPending /\ Mutate(r)
    <3>1. CASE r \in observing
      BY <2>2, <2>5, <3>1 DEF Mutate
    <3>2. CASE r \notin observing
      <4>1. ioPending' = ioPending /\ timersActive' = (timersActive \/ FALSE)
        BY <2>5, <3>2 DEF Mutate
      <4>2. timersActive \in BOOLEAN
        BY DEF FlagInv, TreeInv, TypeOK
      <4> QED
        BY <2>1, <4>1, <4>2
    <3> QED
      BY <3>1, <3>2
  <2> QED
    BY <1>4, <2>3, <2>4, <2>5
<1>5. ASSUME NEW r \in live, Disconnect(r)
      PROVE  TimersActiveSound'
  BY <1>5, StaysSound DEF Disconnect, FlagInv, Pending
<1>6. ASSUME NEW p \in live, NEW c \in unborn, AttachRealm(p, c)
      PROVE  TimersActiveSound'
  <2>1. c \in Realm \ live
    BY DEF FlagInv, TreeInv, TypeOK, OnlyLiveHasWork
  <2>2. ~Pending(c, timers, rafs, ioPending)
    BY <2>1 DEF FlagInv, TreeInv, OnlyLiveHasWork, Drained, Pending
  <2> QED
    BY <1>6, <2>2 DEF AttachRealm, FlagInv, TimersActiveSound, Pending
<1>7. ASSUME NEW c \in live, DetachRealm(c)
      PROVE  TimersActiveSound'
  <2> DEFINE gone == {r \in live : c \in path[r]}
  <2>1. live' = live \ gone /\ UNCHANGED timersActive /\ ioPending' = ioPending \ gone
    BY <1>7 DEF DetachRealm
  <2>2. /\ timers' = [r \in Realm |-> IF r \in gone THEN <<>> ELSE timers[r]]
        /\ rafs' = [r \in Realm |-> IF r \in gone THEN <<>> ELSE rafs[r]]
    BY <1>7 DEF DetachRealm
  <2> HIDE DEF gone
  <2>3. \A q \in live : Pending(q, timers, rafs, ioPending)'
                           => Pending(q, timers, rafs, ioPending)
    BY <1>l, <2>1, <2>2 DEF Pending
  <2> QED
    BY <2>1, <2>3, StaysSound DEF FlagInv
<1> QED
  BY <1>1, <1>2, <1>3, <1>4, <1>5, <1>6, <1>7 DEF PageScript

LEMMA LoopFlag ==
    ASSUME Windows = {}, FlagInv, LoopStep
    PROVE  TimersActiveSound'
<1> USE DEF realmVars, queueVars, loopVars, cacheVars
<1>l. live \subseteq Realm /\ timers \in [Realm -> Seq(Timer)]
        /\ rafs \in [Realm -> Seq(BOOLEAN)] /\ step \in [Realm -> Step]
  BY DEF FlagInv, TreeInv, TypeOK
<1>1. ASSUME UNCHANGED <<live, queueVars, timersActive>>
      PROVE  TimersActiveSound'
  BY <1>1, StaysSound DEF FlagInv, Pending
<1>2. ASSUME NEW r \in live, RunTask(r)
      PROVE  TimersActiveSound'
  <2>1. \E new : timers' = [timers EXCEPT ![r] = new]
    BY <1>2, Zenon DEF RunTask
  <2>2. \E i \in DOMAIN timers[r] : TRUE
    BY <1>2, Zenon DEF RunTask
  <2>3. timers[r] # <<>> /\ \A q \in live \ {r} : timers'[q] = timers[q]
    BY <1>l, <2>1, <2>2, LenProperties
  <2>4. \A q \in live : Pending(q, timers, rafs, ioPending)'
                           => Pending(q, timers, rafs, ioPending)
    BY <1>2, <2>3 DEF RunTask, Pending
  <2> QED
    BY <1>2, <2>4, StaysSound DEF RunTask, FlagInv
<1>3. ASSUME NEW r \in live, TaskDone(r) \/ BeginRender(r)
      PROVE  TimersActiveSound'
  <2>1. rafs' = rafs \/ rafs' = [rafs EXCEPT ![r] = <<>>]
    BY <1>3, Zenon DEF TaskDone, BeginRender
  <2>2. \A q \in live : rafs'[q] # <<>> => rafs[q] # <<>>
    BY <1>l, <2>1
  <2> QED
    BY <1>3, <2>2, StaysSound DEF TaskDone, BeginRender, FlagInv, Pending
<1>4. ASSUME NEW r \in live, UpdateObservations(r)
      PROVE  TimersActiveSound'
  BY <1>4, StaysSound DEF UpdateObservations, FlagInv, Pending
<1>5. ASSUME NEW r \in live, PinClock(r)
      PROVE  TimersActiveSound'
  <2> DEFINE d == IF step[r].yielded THEN 0 ELSE step[r].left
  <2>1. timers' = [timers EXCEPT ![r] = Advance(timers[r], d)]
    BY <1>5 DEF PinClock
  <2>2. d \in Int
    BY <1>l DEF Step
  <2>3. Len(Advance(timers[r], d)) = Len(timers[r]) /\ Advance(timers[r], d) \in Seq(Timer)
    BY <1>l, <2>2, AdvanceType
  <2>4. Advance(timers[r], d) # <<>> => timers[r] # <<>>
    BY <1>l, <2>3, EmptySeq, LenProperties
  <2> HIDE DEF d
  <2>5. \A q \in live : timers'[q] # <<>> => timers[q] # <<>>
    BY <1>l, <2>1, <2>4
  <2>6. \A q \in live : Pending(q, timers, rafs, ioPending)'
                           => Pending(q, timers, rafs, ioPending)
    BY <1>5, <2>5 DEF PinClock, Pending
  <2>7. timersActive' = MaybeClear(r, timers', rafs', ioPending') /\ live' = live
    BY <1>5 DEF PinClock
  <2> QED
    BY <2>6, <2>7, ClearIsSound
<1>6. ASSUME NEW r \in live, NEW c \in live,
             SkipChild(r, c) \/ StepChild(r, c) \/ ChildStepReturns(r, c)
      PROVE  TimersActiveSound'
  BY <1>1, <1>6 DEF SkipChild, StepChild, ChildStepReturns
<1>7. ASSUME NEW r \in live,
             \/ FlushDone(r) \/ OutOfIterations(r) \/ RunFrame(r) \/ FrameDone(r)
             \/ ObserversDone(r) \/ StepReturns(r)
      PROVE  TimersActiveSound'
  BY <1>1, <1>7 DEF FlushDone, OutOfIterations, RunFrame, FrameDone, ObserversDone,
       StepReturns
<1> QED
  BY <1>2, <1>3, <1>4, <1>5, <1>6, <1>7 DEF LoopStep

(* No timer, animation frame or observer delivery is ever stranded: while   *)
(* one is pending in any realm @timers_active is up, for any number and     *)
(* nesting of frames, provided that there is no same-isolate window realm   *)
(* (with one it is false: the run event_loop_window).                       *)
THEOREM FlagSound ==
    ASSUME Windows = {}
    PROVE  Spec => []TimersActiveSound
<1>1. Init => FlagInv
  BY InitTree DEF FlagInv, Init, TimersActiveSound, Pending, TreeInv, TypeOK
<1>2. FlagInv /\ [Next]_vars => FlagInv'
  <2> SUFFICES ASSUME FlagInv, [Next]_vars PROVE FlagInv'
    OBVIOUS
  <2>1. TreeInv'
    BY TreeNext DEF FlagInv
  <2>2. CASE PageScript
    BY <2>1, <2>2, ScriptFlag DEF FlagInv
  <2>3. CASE DriverSteps \/ FindQueries
    BY <2>1, <2>3, StaysSound DEF DriverSteps, RunLoopStep, FindQueries, FlagInv, Pending,
         realmVars, queueVars
  <2>4. CASE LoopStep
    BY <2>1, <2>4, LoopFlag DEF FlagInv
  <2>5. CASE UNCHANGED vars
    BY <2>1, <2>5, StaysSound DEF vars, realmVars, queueVars, FlagInv, Pending
  <2> QED
    BY <2>2, <2>3, <2>4, <2>5 DEF Next
<1>3. FlagInv => TimersActiveSound
  BY DEF FlagInv
<1> QED
  BY <1>1, <1>2, <1>3, PTL DEF Spec
=============================================================================
