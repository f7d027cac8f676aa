------------------------ MODULE EventLoopStack_proofs ------------------------
(* Theorems about the steps of EventLoop that run inside each other: the    *)
(* report to the find cache, and a step with no budget.                     *)
EXTENDS EventLoopClock_proofs

(* Every realm below another one has the path of its owner above it, and    *)
(* what is above a realm was there before it.                               *)
TreeShape ==
    /\ live \cap unborn = {} /\ Main \in live /\ path[Main] = {Main}
    /\ \A r \in Realm : r \in path[r]
    /\ \A r \in Realm \ unborn : path[r] \cap unborn = {}
    /\ \A p \in Realm : \A i \in DOMAIN childIds[p] :
          /\ p \notin unborn /\ childIds[p][i] \notin unborn \cup path[p]
          /\ path[childIds[p][i]] = path[p] \cup {childIds[p][i]}

(* The realms whose step is under way are the current one and those above.  *)
Stacked ==
    /\ current = NoRealm => \A r \in Realm : phase[r] = "idle"
    /\ current # NoRealm =>
          /\ current \in live
          /\ \A r \in Realm : phase[r] # "idle" <=> r \in path[current]

StackInv == TypeOK /\ TreeShape /\ Stacked

LEMMA InitStack == Init => StackInv
<1> SUFFICES ASSUME Init PROVE TreeShape /\ Stacked
  BY InitType DEF StackInv
<1>1. TreeShape
  BY RealmsAssumption DEF Init, TreeShape
<1>2. Stacked
  BY DEF Init, Stacked
<1> QED
  BY <1>1, <1>2

----------------------------------------------------------------------------
(* The tree and the stack, step by step.                                    *)

LEMMA AttachStack ==
    ASSUME StackInv, NEW p \in live, NEW c \in unborn, AttachRealm(p, c)
    PROVE  TreeShape' /\ Stacked'
<1> USE DEF queueVars, loopVars, cacheVars
<1>1. /\ live' = live \cup {c} /\ unborn' = unborn \ {c}
      /\ path' = [path EXCEPT ![c] = path[p] \cup {c}]
      /\ childIds' = [childIds EXCEPT ![p] = Append(@, c)]
      /\ UNCHANGED <<current, phase>>
  BY DEF AttachRealm
<1>2. /\ path \in [Realm -> SUBSET Realm] /\ childIds \in [Realm -> Seq(Realm)]
      /\ p \in Realm \ unborn /\ c \in Realm /\ c \notin live /\ c # p /\ c # Main
      /\ live \subseteq Realm /\ unborn \subseteq Realm
  BY DEF StackInv, TypeOK, TreeShape
<1>3. path'[c] = path[p] \cup {c} /\ \A r \in Realm \ {c} : path'[r] = path[r]
  BY <1>1, <1>2
<1>4. \A r \in Realm \ unborn : c \notin path[r]
  BY DEF StackInv, TreeShape
<1>5. \A q \in Realm : \A i \in DOMAIN childIds'[q] :
          \/ q = p /\ childIds'[q][i] = c
          \/ i \in DOMAIN childIds[q] /\ childIds'[q][i] = childIds[q][i]
  <2> SUFFICES ASSUME NEW q \in Realm, NEW i \in DOMAIN childIds'[q]
               PROVE  \/ q = p /\ childIds'[q][i] = c
                      \/ i \in DOMAIN childIds[q] /\ childIds'[q][i] = childIds[q][i]
    OBVIOUS
  <2>1. CASE q # p
    BY <1>1, <1>2, <2>1
  <2>2. CASE q = p
    <3> DEFINE s == childIds[p]
    <3>1. s \in Seq(Realm) /\ childIds'[p] = Append(s, c)
      BY <1>1, <1>2
    <3> HIDE DEF s
    <3>2. /\ DOMAIN Append(s, c) = 1 .. Len(s) + 1 /\ Append(s, c)[Len(s) + 1] = c
          /\ DOMAIN s = 1 .. Len(s) /\ Len(s) \in Nat
          /\ \A j \in 1 .. Len(s) : Append(s, c)[j] = s[j]
      BY <1>2, <3>1, AppendProperties, LenProperties
    <3> QED
      BY <2>2, <3>1, <3>2 DEF s
  <2> QED
    BY <2>1, <2>2
<1>6. TreeShape'
  <2>1. /\ live' \cap unborn' = {} /\ Main \in live' /\ path'[Main] = {Main}
    BY <1>1, <1>2, <1>3, RealmsAssumption DEF StackInv, TreeShape
  <2>2. \A r \in Realm : r \in path'[r]
    BY <1>2, <1>3 DEF StackInv, TreeShape
  <2>3. \A r \in Realm \ unborn' : path'[r] \cap unborn' = {}
    BY <1>1, <1>2, <1>3 DEF StackInv, TreeShape
  <2>4. ASSUME NEW q \in Realm, NEW i \in DOMAIN childIds'[q]
        PROVE  /\ q \notin unborn' /\ childIds'[q][i] \notin unborn' \cup path'[q]
               /\ path'[childIds'[q][i]] = path'[q] \cup {childIds'[q][i]}
    <3>1. CASE q = p /\ childIds'[q][i] = c
      BY <1>1, <1>2, <1>3, <1>4, <3>1
    <3>2. CASE i \in DOMAIN childIds[q] /\ childIds'[q][i] = childIds[q][i]
      <4> DEFINE d == childIds[q][i]
      <4>1. /\ q \notin unborn /\ d \notin unborn \cup path[q]
            /\ path[d] = path[q] \cup {d}
        BY <3>2 DEF StackInv, TreeShape
      <4>2. d \in Realm
        BY <1>2, <3>2, LenProperties, ElementOfSeq
      <4>3. path'[d] = path[d] /\ path'[q] = path[q]
        BY <1>3, <4>1, <4>2
      <4> QED
        BY <1>1, <3>2, <4>1, <4>3
    <3> QED
      BY <1>5, <3>1, <3>2
  <2> QED
    BY <2>1, <2>2, <2>3, <2>4 DEF TreeShape
<1>7. Stacked'
  <2>1. current # NoRealm => path'[current] = path[current]
    BY <1>2, <1>3 DEF StackInv, Stacked
  <2> QED
    BY <1>1, <2>1 DEF StackInv, Stacked
<1> QED
  BY <1>6, <1>7

LEMMA DetachStack ==
    ASSUME StackInv, NEW c \in live, DetachRealm(c)
    PROVE  TreeShape' /\ Stacked'
<1> USE DEF loopVars, cacheVars
<1> DEFINE gone == {r \in live : c \in path[r]}
<1>0. PICK p \in live \ gone : \E i \in DOMAIN childIds[p] :
          childIds' = [r \in Realm |-> IF r \in gone THEN <<>>
                                       ELSE IF r = p THEN DropAt(childIds[p], i)
                                       ELSE childIds[r]]
  BY DEF DetachRealm
<1>1. PICK i \in DOMAIN childIds[p] :
          childIds' = [r \in Realm |-> IF r \in gone THEN <<>>
                                       ELSE IF r = p THEN DropAt(childIds[p], i)
                                       ELSE childIds[r]]
  BY <1>0
<1>2. /\ c # Main /\ live' = live \ gone /\ UNCHANGED <<unborn, path, current, phase>>
      /\ \A r \in gone : phase[r] = "idle"
  BY DEF DetachRealm
<1>3. live \subseteq Realm /\ childIds \in [Realm -> Seq(Realm)]
  BY DEF StackInv, TypeOK
<1>4. Main \notin gone
  BY <1>2 DEF StackInv, TreeShape
<1> HIDE DEF gone
<1>5. \A q \in Realm : \A j \in DOMAIN childIds'[q] :
          \E k \in DOMAIN childIds[q] : childIds'[q][j] = childIds[q][k]
  <2> SUFFICES ASSUME NEW q \in Realm, NEW j \in DOMAIN childIds'[q]
               PROVE  \E k \in DOMAIN childIds[q] : childIds'[q][j] = childIds[q][k]
    OBVIOUS
  <2>1. q \notin gone
    <3> SUFFICES ASSUME q \in gone PROVE FALSE
      OBVIOUS
    <3>1. childIds'[q] = <<>>
      BY <1>1
    <3> QED
      BY <3>1
  <2>2. CASE q = p
    <3>1. childIds'[q] = DropAt(childIds[q], i) /\ childIds[q] \in Seq(Realm)
          /\ i \in DOMAIN childIds[q]
      BY <1>1, <1>3, <2>1, <2>2
    <3> QED
      BY <3>1, DropAtElements
  <2>3. CASE q # p
    BY <1>1, <2>1, <2>3
  <2> QED
    BY <2>2, <2>3
<1>6. TreeShape'
  BY <1>2, <1>4, <1>5 DEF StackInv, TreeShape
<1>7. Stacked'
  BY <1>2, <1>3 DEF StackInv, Stacked, TreeShape
<1> QED
  BY <1>6, <1>7

(* A script that neither makes nor discards a realm, and a find.            *)
LEMMA StackStays ==
    ASSUME StackInv, UNCHANGED <<live, unborn, path, childIds, current, phase>>
    PROVE  TreeShape' /\ Stacked'
BY DEF StackInv, TreeShape, Stacked

(* The current step goes on.                                                *)
Onward(r) ==
    /\ current = r /\ UNCHANGED <<realmVars, current>>
    /\ \E p \in Phase \ {"idle"} : phase' = [phase EXCEPT ![r] = p]

LEMMA OnwardStack ==
    ASSUME StackInv, NEW r \in live, Onward(r)
    PROVE  TreeShape' /\ Stacked'
<1>1. UNCHANGED <<live, unborn, path, childIds, current>> /\ current = r
  BY DEF Onward, realmVars
<1>2. r \in Realm /\ r # NoRealm
  BY RealmsAssumption DEF StackInv, TypeOK
<1>3. \A q \in Realm : phase'[q] # "idle" <=> q \in path[r]
  BY <1>1, <1>2 DEF Onward, StackInv, Stacked, TypeOK, TreeShape
<1>4. Stacked'
  BY <1>1, <1>2, <1>3 DEF StackInv, Stacked
<1> QED
  BY <1>1, <1>4 DEF StackInv, TreeShape

LEMMA LocalOnward ==
    ASSUME TypeOK, NEW r \in live,
           \/ \E c \in live : SkipChild(r, c)
           \/ FlushDone(r) \/ OutOfIterations(r) \/ RunTask(r) \/ TaskDone(r)
           \/ BeginRender(r) \/ RunFrame(r) \/ FrameDone(r) \/ UpdateObservations(r)
           \/ ObserversDone(r) \/ PinClock(r)
    PROVE  Onward(r)
<1>0. phase = [phase EXCEPT ![r] = phase[r]] /\ r \in Realm
  BY DEF TypeOK
<1> USE DEF At, Goto, Phase, Onward
<1>1. ASSUME NEW c \in live, SkipChild(r, c) PROVE Onward(r)
  BY <1>0, <1>1 DEF SkipChild
<1>2. CASE FlushDone(r) \/ OutOfIterations(r) \/ FrameDone(r) \/ ObserversDone(r) \/ PinClock(r)
  BY <1>2 DEF FlushDone, OutOfIterations, FrameDone, ObserversDone, PinClock
<1>3. CASE RunTask(r) \/ BeginRender(r)
  <2>1. current = r /\ UNCHANGED <<realmVars, current>>
        /\ (phase' = [phase EXCEPT ![r] = "task"] \/ phase' = [phase EXCEPT ![r] = "frames"])
    BY <1>3, Zenon DEF RunTask, BeginRender
  <2> QED
    BY <2>1
<1>4. CASE TaskDone(r)
  BY <1>4 DEF TaskDone
<1>5. CASE RunFrame(r)
  <2>1. current = r /\ UNCHANGED <<realmVars, current>> /\ phase[r] = "frames"
    BY <1>5 DEF RunFrame
  <2>3. phase' = phase \/ phase' = [phase EXCEPT ![r] = "frame"]
    BY <1>5, Zenon DEF RunFrame
  <2>2. phase' = [phase EXCEPT ![r] = "frames"] \/ phase' = [phase EXCEPT ![r] = "frame"]
    BY <1>0, <2>1, <2>3
  <2> QED
    BY <2>1, <2>2
<1>6. CASE UpdateObservations(r)
  BY <1>6 DEF UpdateObservations
<1> QED
  BY <1>1, <1>2, <1>3, <1>4, <1>5, <1>6

(* A child's step begins, and ends.                                         *)
LEMMA ChildStack ==
    ASSUME StackInv, NEW r \in live, NEW c \in live, StepChild(r, c)
    PROVE  /\ TreeShape' /\ Stacked'
           /\ c # r /\ r \in Realm /\ c \in Realm /\ phase[r] # "idle" /\ phase[c] = "idle"
<1>1. /\ current = r /\ current' = c /\ phase' = [phase EXCEPT ![c] = "flush"]
      /\ UNCHANGED <<live, unborn, path, childIds>>
      /\ phase[r] \in {"flush", "drain"}
  BY DEF StepChild, realmVars
<1>2. r \in Realm /\ c \in Realm /\ r # NoRealm /\ c # NoRealm
  BY RealmsAssumption DEF StackInv, TypeOK
<1>3. path[c] = path[r] \cup {c} /\ c \notin path[r] /\ r \in path[r]
  BY <1>2 DEF StepChild, NextChild, StackInv, TreeShape
<1>4. \A q \in Realm : phase[q] # "idle" <=> q \in path[r]
  BY <1>1, <1>2 DEF StackInv, Stacked
<1>5. \A q \in Realm : phase'[q] # "idle" <=> q \in path[c]
  BY <1>1, <1>2, <1>3, <1>4 DEF StackInv, TypeOK
<1>6. Stacked'
  BY <1>1, <1>2, <1>5 DEF Stacked
<1> QED
  BY <1>1, <1>2, <1>3, <1>4, <1>6 DEF StackInv, TreeShape

LEMMA ReturnStack ==
    ASSUME StackInv, NEW r \in live, NEW owner \in live, ChildStepReturns(r, owner)
    PROVE  /\ TreeShape' /\ Stacked'
           /\ r # owner /\ r \in Realm /\ owner \in Realm /\ phase[owner] # "idle"
           /\ phase[r] # "idle"
<1>1. /\ current = r /\ current' = owner /\ phase' = [phase EXCEPT ![r] = "idle"]
      /\ UNCHANGED <<live, unborn, path, childIds>> /\ r # owner /\ phase[r] = "drain"
  BY DEF ChildStepReturns, At, Goto, realmVars
<1>2. r \in Realm /\ owner \in Realm /\ r # NoRealm /\ owner # NoRealm
  BY RealmsAssumption DEF StackInv, TypeOK
<1>3. path[r] = path[owner] \cup {r} /\ r \notin path[owner] /\ owner \in path[owner]
  BY <1>2 DEF ChildStepReturns, StackInv, TreeShape
<1>4. \A q \in Realm : phase[q] # "idle" <=> q \in path[r]
  BY <1>1, <1>2 DEF StackInv, Stacked
<1>5. \A q \in Realm : phase'[q] # "idle" <=> q \in path[owner]
  BY <1>1, <1>2, <1>3, <1>4 DEF StackInv, TypeOK
<1>6. Stacked'
  BY <1>1, <1>2, <1>5 DEF Stacked
<1> QED
  BY <1>1, <1>2, <1>3, <1>4, <1>6 DEF StackInv, TreeShape

LEMMA MainStack ==
    ASSUME StackInv, DriverSteps \/ StepReturns(Main)
    PROVE  /\ TreeShape' /\ Stacked' /\ Main \in Realm
           /\ DriverSteps => \A r \in Realm : phase[r] = "idle"
           /\ StepReturns(Main) => \A r \in Realm : phase[r] # "idle" <=> r = Main
<1>1. Main \in Realm /\ Main # NoRealm /\ Main \in live /\ path[Main] = {Main}
      /\ phase \in [Realm -> Phase]
  BY RealmsAssumption DEF StackInv, TreeShape, TypeOK
<1>2. UNCHANGED <<live, unborn, path, childIds>>
  BY DEF DriverSteps, RunLoopStep, StepReturns, realmVars
<1>3. CASE DriverSteps
  <2>1. current = NoRealm /\ current' = Main /\ phase' = [phase EXCEPT ![Main] = "flush"]
    BY <1>3 DEF DriverSteps, RunLoopStep
  <2>2. \A r \in Realm : phase[r] = "idle"
    BY <2>1 DEF StackInv, Stacked
  <2>3. ~StepReturns(Main)
    BY <1>1, <2>2 DEF StepReturns, At
  <2>4. Stacked'
    BY <1>1, <1>2, <2>1, <2>2 DEF Stacked
  <2> QED
    BY <1>1, <1>2, <2>2, <2>3, <2>4 DEF StackInv, TreeShape
<1>4. CASE StepReturns(Main)
  <2>1. current = Main /\ current' = NoRealm /\ phase' = [phase EXCEPT ![Main] = "idle"]
    BY <1>4 DEF StepReturns, At, Goto
  <2>2. \A r \in Realm : phase[r] # "idle" <=> r = Main
    BY <1>1, <2>1 DEF StackInv, Stacked
  <2>3. ~DriverSteps
    BY <1>1, <2>1 DEF DriverSteps, RunLoopStep
  <2>4. Stacked'
    BY <1>1, <1>2, <2>1, <2>2 DEF Stacked
  <2> QED
    BY <1>1, <1>2, <2>2, <2>3, <2>4 DEF StackInv, TreeShape
<1> QED
  BY <1>3, <1>4

(* The other operations of scripts, and a find.                             *)
Quiet == \E r \in live : \/ SetTimeout(r) \/ SetInterval(r) \/ ClearTimer(r)
                         \/ RequestAnimationFrame(r) \/ CancelAnimationFrame(r)
                         \/ Observe(r) \/ Disconnect(r)

LEMMA StackStep == StackInv /\ [Next]_vars => StackInv'
<1> SUFFICES ASSUME StackInv, [Next]_vars PROVE TreeShape' /\ Stacked'
  BY NextType DEF StackInv
<1> USE DEF realmVars, queueVars, loopVars, cacheVars
<1>1. CASE Quiet
  <2>1. UNCHANGED <<live, unborn, path, childIds, current, phase>>
    BY <1>1 DEF Quiet, SetTimeout, SetInterval, SetTimer, ClearTimer, RequestAnimationFrame,
                CancelAnimationFrame, Observe, Disconnect
  <2> QED
    BY <2>1, StackStays
<1>2. CASE (\E r \in live : Mutate(r)) \/ FindQueries \/ UNCHANGED vars
  <2>1. UNCHANGED <<live, unborn, path, childIds, current, phase>>
    BY <1>2 DEF Mutate, FindQueries, vars
  <2> QED
    BY <2>1, StackStays
<1>3. CASE PageScript
  BY <1>1, <1>2, <1>3, AttachStack, DetachStack DEF PageScript, Quiet
<1>4. CASE DriverSteps
  BY <1>4, MainStack
<1>5. CASE LoopStep
  <2>1. ASSUME NEW r \in live,
               \/ \E c \in live : SkipChild(r, c)
               \/ FlushDone(r) \/ OutOfIterations(r) \/ RunTask(r) \/ TaskDone(r)
               \/ BeginRender(r) \/ RunFrame(r) \/ FrameDone(r) \/ UpdateObservations(r)
               \/ ObserversDone(r) \/ PinClock(r)
        PROVE  TreeShape' /\ Stacked'
    BY <2>1, LocalOnward, OnwardStack DEF StackInv
  <2>2. ASSUME NEW r \in live, StepReturns(r) PROVE TreeShape' /\ Stacked'
    BY <2>2, MainStack DEF StepReturns
  <2> QED
    BY <1>5, <2>1, <2>2, ChildStack, ReturnStack DEF LoopStep
<1> QED
  BY <1>2, <1>3, <1>4, <1>5 DEF Next

----------------------------------------------------------------------------
(* The report to the find cache.                                            *)

(* Realm r's step under way has a changed document to report, or will have. *)
Reports(r) == phase[r] # "idle" /\ (step[r].dirtied \/ (step[r].changed /\ phase[r] # "drain"))

FreshInv == findCacheOld /\ ~findCacheDirty => \E r \in Realm : Reports(r)

LEMMA FreshStays ==
    ASSUME FreshInv, UNCHANGED cacheVars, \A r \in Realm : Reports(r) => Reports(r)'
    PROVE  FreshInv'
BY DEF FreshInv, cacheVars

(* What realm r's step does to its flags, when it neither begins nor ends.  *)
LEMMA FlagsKept ==
    ASSUME TypeOK, FreshInv, NEW r \in Realm, UNCHANGED cacheVars,
           \A q \in Realm \ {r} : phase'[q] = phase[q] /\ step'[q] = step[q],
           phase'[r] # "idle",
           \/ /\ step'[r].dirtied = step[r].dirtied /\ step'[r].changed = step[r].changed
              /\ phase'[r] = "drain" => phase[r] = "drain"
           \/ step'[r].dirtied = (step[r].dirtied \/ step[r].changed)
    PROVE  FreshInv'
<1>1. ASSUME NEW q \in Realm, Reports(q) PROVE Reports(q)'
  BY <1>1 DEF Reports
<1> QED
  BY <1>1, FreshStays

LEMMA ScriptFresh ==
    ASSUME CanWrite \subseteq {<<r, r>> : r \in Realm}, StackInv, FreshInv, PageScript
    PROVE  FreshInv'
<1> USE DEF realmVars, queueVars, loopVars, cacheVars
<1>1. step \in [Realm -> Step] /\ phase \in [Realm -> Phase] /\ live \subseteq Realm
  BY DEF StackInv, TypeOK
<1>2. ASSUME NEW r \in live, CancelAnimationFrame(r) PROVE FreshInv'
  <2>1. UNCHANGED cacheVars /\ UNCHANGED phase
    BY <1>2 DEF CancelAnimationFrame
  <2>2. \A q \in Realm : step'[q].dirtied = step[q].dirtied /\ step'[q].changed = step[q].changed
    <3>1. CASE UNCHANGED step
      BY <3>1
    <3>2. ASSUME NEW i, step' = [step EXCEPT ![r].batch[i] = TRUE]
          PROVE  \A q \in Realm : step'[q].dirtied = step[q].dirtied
                                  /\ step'[q].changed = step[q].changed
      BY <1>1, <3>2 DEF Step
    <3> QED
      BY <1>2, <3>1, <3>2 DEF CancelAnimationFrame
  <2> QED
    BY <2>1, <2>2, FreshStays DEF Reports
<1>3. ASSUME NEW r \in live, \/ SetTimeout(r) \/ SetInterval(r) \/ ClearTimer(r)
                             \/ RequestAnimationFrame(r) \/ Observe(r) \/ Disconnect(r)
      PROVE  FreshInv'
  <2>1. UNCHANGED <<cacheVars, phase, step>>
    BY <1>3 DEF SetTimeout, SetInterval, SetTimer, ClearTimer, RequestAnimationFrame, Observe,
                Disconnect
  <2> QED
    BY <2>1, FreshStays DEF Reports
<1>4. ASSUME \/ \E p \in live, c \in unborn : AttachRealm(p, c)
             \/ \E c \in live : DetachRealm(c)
      PROVE  FreshInv'
  <2>1. UNCHANGED <<cacheVars, phase, step>>
    BY <1>4 DEF AttachRealm, DetachRealm
  <2> QED
    BY <2>1, FreshStays DEF Reports
<1>5. ASSUME NEW r \in live, Mutate(r) PROVE FreshInv'
  <2>1. r \in Realm
    BY <1>1
  <2>2. CASE current = NoRealm
    <3>1. findCacheDirty' = TRUE
      BY <1>5, <2>2 DEF Mutate, StackInv, TypeOK
    <3> QED
      BY <3>1 DEF FreshInv
  <2>3. CASE current # NoRealm
    <3>1. current = r
      BY <1>5, <2>3 DEF Mutate
    <3>2. phase[r] \in {"task", "frame", "observers"} /\ UNCHANGED phase
          /\ step' = [step EXCEPT ![r].changed = phase[r] # "idle"]
      BY <1>5, <2>3, <3>1 DEF Mutate, ScriptRuns
    <3>3. step'[r].changed = (phase[r] # "idle")
      <4>1. step'[r] = [step[r] EXCEPT !.changed = phase[r] # "idle"]
        BY <1>1, <2>1, <3>2, Zenon
      <4>2. step[r] \in Step
        BY <1>1, <2>1
      <4> QED
        BY <4>1, <4>2, Zenon DEF Step
    <3>4. Reports(r)'
      BY <3>2, <3>3, Zenon DEF Reports
    <3> QED
      BY <2>1, <3>4 DEF FreshInv
  <2> QED
    BY <2>2, <2>3
<1> QED
  BY <1>2, <1>3, <1>4, <1>5 DEF PageScript

(* What an action of realm r's step does to the locals of the steps.        *)
FlagsFolded(r) == step'[r].dirtied = (step[r].dirtied \/ step[r].changed)

FlagsLeft(r) ==
    /\ step'[r].dirtied = step[r].dirtied /\ step'[r].changed = step[r].changed
    /\ phase'[r] = "drain" => phase[r] = "drain"

StepAlone(r) ==
    /\ \A q \in Realm \ {r} : step'[q] = step[q]
    /\ step'[r].maxMs = step[r].maxMs
    /\ FlagsLeft(r) \/ FlagsFolded(r)

LEMMA LocalStep ==
    ASSUME StackInv, NEW r \in live,
           \/ \E c \in live : SkipChild(r, c)
           \/ FlushDone(r) \/ OutOfIterations(r) \/ RunTask(r) \/ TaskDone(r)
           \/ BeginRender(r) \/ RunFrame(r) \/ FrameDone(r) \/ UpdateObservations(r)
           \/ ObserversDone(r) \/ PinClock(r)
    PROVE  StepAlone(r)
<1> USE DEF At, Goto, StepAlone
<1>1. step \in [Realm -> Step] /\ phase \in [Realm -> Phase] /\ r \in Realm
  BY DEF StackInv, TypeOK
<1> USE DEF FlagsLeft, FlagsFolded
<1>4. ASSUME NEW c \in live, SkipChild(r, c) PROVE StepAlone(r)
  <2>1. step' = [step EXCEPT ![r].visited = @ \cup {c}] /\ UNCHANGED phase
    BY <1>4 DEF SkipChild
  <2> QED
    BY <1>1, <2>1 DEF Step
<1>5. CASE FlushDone(r)
  <2>1. step' = [step EXCEPT ![r].visited = {}] /\ phase' = [phase EXCEPT ![r] = "pick"]
    BY <1>5 DEF FlushDone
  <2>2. StepAlone(r)
    BY <1>1, <2>1 DEF Step
  <2> QED
    BY <2>2
<1>6. CASE OutOfIterations(r)
  <2>1. step' = [step EXCEPT ![r].dirtied = @ \/ step[r].changed]
    BY <1>6 DEF OutOfIterations
  <2>2. StepAlone(r)
    BY <1>1, <2>1 DEF Step
  <2> QED
    BY <2>2
<1>7. CASE RunTask(r)
  <2>1. PICK i \in DOMAIN timers[r] :
          LET t == timers[r][i]
              d == IF t.wait > 0 THEN t.wait ELSE 0 IN
          step' = [step EXCEPT ![r].left = @ - d, ![r].iters = @ + 1,
                               ![r].fired = TRUE, ![r].task = t.handler]
    BY <1>7, Zenon DEF RunTask
  <2> DEFINE t == timers[r][i]
             d == IF t.wait > 0 THEN t.wait ELSE 0
  <2>2. phase' = [phase EXCEPT ![r] = "task"]
    BY <1>7, Zenon DEF RunTask
  <2>3. step' = [step EXCEPT ![r].left = @ - d, ![r].iters = @ + 1,
                             ![r].fired = TRUE, ![r].task = t.handler]
    BY <2>1
  <2> HIDE DEF t, d
  <2>4. StepAlone(r)
    BY <1>1, <2>2, <2>3 DEF Step
  <2> QED
    BY <2>4
<1>8. CASE TaskDone(r)
  <2>1. \/ step' = [step EXCEPT ![r].task = NoTask, ![r].yielded = TRUE, ![r].batch = rafs[r]]
           /\ phase' = [phase EXCEPT ![r] = "frames"]
        \/ step' = [step EXCEPT ![r].task = NoTask] /\ phase' = [phase EXCEPT ![r] = "pick"]
    BY <1>8 DEF TaskDone
  <2>2. StepAlone(r)
    BY <1>1, <2>1 DEF Step
  <2> QED
    BY <2>2
<1>9. CASE BeginRender(r)
  <2>1. step' = [step EXCEPT ![r].batch = rafs[r]] /\ phase' = [phase EXCEPT ![r] = "frames"]
    BY <1>9 DEF BeginRender
  <2>2. StepAlone(r)
    BY <1>1, <2>1 DEF Step
  <2> QED
    BY <2>2
<1>10. CASE RunFrame(r)
  <2>1. step' = [step EXCEPT ![r].batch = Tail(@)]
        /\ (UNCHANGED phase \/ phase' = [phase EXCEPT ![r] = "frame"])
    BY <1>10, Zenon DEF RunFrame
  <2>2. StepAlone(r)
    BY <1>1, <2>1 DEF Step
  <2> QED
    BY <2>2
<1>11. CASE FrameDone(r) \/ UpdateObservations(r) \/ ObserversDone(r)
  <2>1. UNCHANGED step /\ phase'[r] # "drain"
    BY <1>1, <1>11 DEF FrameDone, UpdateObservations, ObserversDone
  <2> QED
    BY <2>1
<1>12. CASE PinClock(r)
  <2>1. \E x : step' = [step EXCEPT ![r].left = x, ![r].dirtied = @ \/ step[r].changed]
    BY <1>12, Zenon DEF PinClock
  <2>2. StepAlone(r)
    BY <1>1, <2>1 DEF Step
  <2> QED
    BY <2>2
<1> QED
  BY <1>4, <1>5, <1>6, <1>7, <1>8, <1>9, <1>10, <1>11, <1>12

LEMMA LocalFresh ==
    ASSUME StackInv, FreshInv, NEW r \in live,
           \/ \E c \in live : SkipChild(r, c)
           \/ FlushDone(r) \/ OutOfIterations(r) \/ RunTask(r) \/ TaskDone(r)
           \/ BeginRender(r) \/ RunFrame(r) \/ FrameDone(r) \/ UpdateObservations(r)
           \/ ObserversDone(r) \/ PinClock(r)
    PROVE  FreshInv'
<1>1. phase \in [Realm -> Phase] /\ r \in Realm
  BY DEF StackInv, TypeOK
<1>2. UNCHANGED cacheVars
  <2>1. CASE \E c \in live : SkipChild(r, c)
    BY <2>1 DEF SkipChild
  <2>2. CASE FlushDone(r) \/ OutOfIterations(r) \/ TaskDone(r) \/ BeginRender(r)
    BY <2>2, Zenon DEF FlushDone, OutOfIterations, TaskDone, BeginRender
  <2>3. CASE RunFrame(r) \/ FrameDone(r) \/ UpdateObservations(r) \/ ObserversDone(r)
    BY <2>3, Zenon DEF RunFrame, FrameDone, UpdateObservations, ObserversDone
  <2>4. CASE RunTask(r) \/ PinClock(r)
    BY <2>4, Zenon DEF RunTask, PinClock
  <2> QED
    BY <2>1, <2>2, <2>3, <2>4
<1>3. /\ phase'[r] # "idle" /\ \A q \in Realm \ {r} : phase'[q] = phase[q]
  <2>1. Onward(r)
    BY LocalOnward DEF StackInv
  <2> QED
    BY <1>1, <2>1 DEF Onward
<1>4. StepAlone(r)
  BY LocalStep
<1> QED
  BY <1>1, <1>2, <1>3, <1>4, FlagsKept DEF StackInv, StepAlone, FlagsLeft, FlagsFolded

(* A child's report goes to its owner's, whose step is under way.           *)
LEMMA NestedFresh ==
    ASSUME StackInv, FreshInv, NEW r \in live, NEW c \in live,
           StepChild(r, c) \/ ChildStepReturns(r, c)
    PROVE  FreshInv'
<1>1. step \in [Realm -> Step] /\ phase \in [Realm -> Phase] /\ r \in Realm /\ c \in Realm
  BY DEF StackInv, TypeOK
<1>2. UNCHANGED cacheVars
  BY DEF StepChild, ChildStepReturns
<1>3. CASE StepChild(r, c)
  <2>1. c # r /\ phase[c] = "idle"
    BY <1>3, ChildStack
  <2>2. /\ \E s : step' = [step EXCEPT ![r].visited = @ \cup {c}, ![c] = s]
        /\ phase' = [phase EXCEPT ![c] = "flush"]
    BY <1>3 DEF StepChild
  <2>5. PICK s : step' = [step EXCEPT ![r].visited = @ \cup {c}, ![c] = s]
    BY <2>2
  <2>6. step'[r].dirtied = step[r].dirtied /\ step'[r].changed = step[r].changed
    BY <1>1, <2>1, <2>5 DEF Step
  <2>7. \A q \in Realm \ {c, r} : step'[q] = step[q]
    BY <1>1, <2>1, <2>5
  <2>3. \A q \in Realm \ {c} : /\ phase'[q] = phase[q] /\ step'[q].dirtied = step[q].dirtied
                               /\ step'[q].changed = step[q].changed
    BY <1>1, <2>2, <2>6, <2>7
  <2>4. ASSUME NEW q \in Realm, Reports(q) PROVE Reports(q)'
    <3>1. q # c
      BY <2>1, <2>4 DEF Reports
    <3> QED
      BY <2>3, <2>4, <3>1 DEF Reports
  <2> QED
    BY <1>2, <2>4, FreshStays
<1>4. CASE ChildStepReturns(r, c)
  <2>1. r # c /\ phase[c] # "idle" /\ phase[r] = "drain"
    BY <1>4, ReturnStack DEF ChildStepReturns, At
  <2>2. /\ step' = [step EXCEPT ![r] = NoStep, ![c].fired = @ \/ step[r].fired,
                                ![c].dirtied = @ \/ step[r].dirtied]
        /\ phase' = [phase EXCEPT ![r] = "idle"]
    BY <1>4 DEF ChildStepReturns, Goto
  <2>3. /\ \A q \in Realm \ {r, c} : phase'[q] = phase[q] /\ step'[q] = step[q]
        /\ phase'[c] = phase[c] /\ step'[c].changed = step[c].changed
        /\ step'[c].dirtied = (step[c].dirtied \/ step[r].dirtied)
    BY <1>1, <2>1, <2>2 DEF Step
  <2>4. ASSUME NEW q \in Realm, Reports(q) PROVE \E o \in Realm : Reports(o)'
    <3>1. CASE q = r
      BY <1>1, <2>1, <2>3, <2>4, <3>1 DEF Reports
    <3>2. CASE q # r
      BY <1>1, <2>3, <2>4, <3>2 DEF Reports
    <3> QED
      BY <3>1, <3>2
  <2> QED
    BY <1>2, <2>4 DEF FreshInv, cacheVars
<1> QED
  BY <1>3, <1>4

LEMMA FreshStep ==
    ASSUME CanWrite \subseteq {<<r, r>> : r \in Realm}
    PROVE  StackInv /\ FreshInv /\ [Next]_vars => FreshInv'
<1> SUFFICES ASSUME StackInv, FreshInv, [Next]_vars PROVE FreshInv'
  OBVIOUS
<1>1. CASE UNCHANGED vars
  BY <1>1, FreshStays DEF vars, cacheVars, Reports
<1>2. CASE PageScript
  BY <1>2, ScriptFresh
<1>3. CASE DriverSteps
  <2>1. ~\E r \in Realm : Reports(r)
    BY <1>3, MainStack DEF Reports
  <2>2. UNCHANGED cacheVars
    BY <1>3 DEF DriverSteps, RunLoopStep
  <2> QED
    BY <2>1, <2>2 DEF FreshInv, cacheVars
<1>4. CASE FindQueries
  BY <1>4 DEF FindQueries, FreshInv
<1>5. ASSUME NEW r \in live, StepReturns(r) PROVE FreshInv'
  <2>1. r = Main /\ phase[Main] = "drain" /\ UNCHANGED findCacheOld
        /\ findCacheDirty' = (findCacheDirty \/ step[Main].dirtied \/ step[Main].fired)
    BY <1>5 DEF StepReturns, At
  <2>2. \A q \in Realm : phase[q] # "idle" <=> q = Main
    BY <1>5, <2>1, MainStack
  <2>3. findCacheOld => findCacheDirty \/ step[Main].dirtied
    BY <2>1, <2>2 DEF FreshInv, Reports
  <2>4. findCacheDirty \in BOOLEAN
    BY DEF StackInv, TypeOK
  <2>5. findCacheOld' => findCacheDirty'
    BY <2>1, <2>3, <2>4
  <2> QED
    BY <2>5 DEF FreshInv
<1>6. CASE LoopStep
  BY <1>5, <1>6, LocalFresh, NestedFresh DEF LoopStep
<1> QED
  BY <1>1, <1>2, <1>3, <1>4, <1>6 DEF Next

(* Between driver calls a find answered from the cache sees the document as *)
(* it is, for any tree of iframes and windows, whatever tasks, frames and   *)
(* observers change and wherever steps stop, provided that a script writes  *)
(* its own realm's document (an iframe's that writes its parent's is the    *)
(* run event_loop_find_cache).                                              *)
THEOREM CacheFresh ==
    ASSUME CanWrite \subseteq {<<r, r>> : r \in Realm}
    PROVE  Spec => []FindCacheFresh
<1> DEFINE Inv == StackInv /\ FreshInv
<1>1. Init => Inv
  BY InitStack DEF Init, FreshInv
<1>2. Inv /\ [Next]_vars => Inv'
  BY StackStep, FreshStep
<1>3. Inv => FindCacheFresh
  BY DEF StackInv, Stacked, FreshInv, Reports, FindCacheFresh
<1> HIDE DEF Inv
<1> QED
  BY <1>1, <1>2, <1>3, PTL DEF Spec

----------------------------------------------------------------------------
(* A step with no budget.                                                   *)

(* A step that the driver gave no budget gives none to the steps inside it. *)
HoldInv ==
    phase[Main] # "idle" /\ step[Main].maxMs = 0 =>
        \A r \in Realm : phase[r] # "idle" => step[r].maxMs = 0

LEMMA HoldStays ==
    ASSUME HoldInv,
           \A r \in Realm : phase'[r] # "idle" =>
                                phase[r] # "idle" /\ step'[r].maxMs = step[r].maxMs
    PROVE  HoldInv'
BY RealmsAssumption DEF HoldInv

LEMMA ScriptHold ==
    ASSUME StackInv, HoldInv, PageScript
    PROVE  HoldInv'
<1> USE DEF realmVars, queueVars, loopVars, cacheVars
<1>1. step \in [Realm -> Step] /\ live \subseteq Realm
  BY DEF StackInv, TypeOK
<1>2. ASSUME NEW r \in live, CancelAnimationFrame(r) PROVE HoldInv'
  <2>1. UNCHANGED phase
    BY <1>2 DEF CancelAnimationFrame
  <2>2. UNCHANGED step \/ \E i : step' = [step EXCEPT ![r].batch[i] = TRUE]
    BY <1>2, Zenon DEF CancelAnimationFrame
  <2>3. \A q \in Realm : step'[q].maxMs = step[q].maxMs
    <3>1. ASSUME NEW i, step' = [step EXCEPT ![r].batch[i] = TRUE]
          PROVE  \A q \in Realm : step'[q].maxMs = step[q].maxMs
      BY <1>1, <3>1 DEF Step
    <3> QED
      BY <2>2, <3>1
  <2> QED
    BY <2>1, <2>3, HoldStays
<1>3. ASSUME NEW r \in live, Mutate(r) PROVE HoldInv'
  <2>1. UNCHANGED phase /\ \E v : step' = [step EXCEPT ![r].changed = v]
    BY <1>3, Zenon DEF Mutate
  <2>2. \A q \in Realm : step'[q].maxMs = step[q].maxMs
    BY <1>1, <2>1 DEF Step
  <2> QED
    BY <2>1, <2>2, HoldStays
<1>4. ASSUME UNCHANGED <<phase, step>> PROVE HoldInv'
  BY <1>4, HoldStays
<1>5. ASSUME NEW r \in live, \/ SetTimeout(r) \/ SetInterval(r) \/ ClearTimer(r)
                             \/ RequestAnimationFrame(r) \/ Observe(r) \/ Disconnect(r)
      PROVE  HoldInv'
  BY <1>4, <1>5 DEF SetTimeout, SetInterval, SetTimer, ClearTimer, RequestAnimationFrame,
                    Observe, Disconnect
<1>6. ASSUME NEW p \in live, NEW c \in unborn, AttachRealm(p, c) PROVE HoldInv'
  BY <1>4, <1>6 DEF AttachRealm
<1>7. ASSUME NEW c \in live, DetachRealm(c) PROVE HoldInv'
  BY <1>4, <1>7 DEF DetachRealm
<1> QED
  BY <1>2, <1>3, <1>5, <1>6, <1>7 DEF PageScript

(* Whoever's step goes on, the main realm's is under way.                   *)
LEMMA MainUnderway ==
    ASSUME StackInv, TreeInv, current # NoRealm
    PROVE  /\ current \in live /\ current \in Realm
           /\ phase[current] # "idle" /\ phase[Main] # "idle"
<1>1. current \in live /\ current \in Realm
  BY DEF StackInv, TypeOK, Stacked
<1>2. Main \in path[current] /\ current \in path[current]
  BY <1>1 DEF TreeInv, MainAbove, StackInv, TreeShape
<1> QED
  BY <1>1, <1>2, RealmsAssumption DEF StackInv, Stacked

LEMMA HoldStep == StackInv /\ TreeInv /\ HoldInv /\ [Next]_vars => HoldInv'
<1> SUFFICES ASSUME StackInv, TreeInv, HoldInv, [Next]_vars PROVE HoldInv'
  OBVIOUS
<1>0. /\ step \in [Realm -> Step] /\ phase \in [Realm -> Phase] /\ live \subseteq Realm
      /\ Main \in Realm /\ NoRealm \notin Realm
  BY RealmsAssumption DEF StackInv, TypeOK
<1>1. CASE FindQueries \/ UNCHANGED vars
  BY <1>1, HoldStays DEF FindQueries, vars, loopVars
<1>2. CASE DriverSteps
  <2>1. \A r \in Realm : phase[r] = "idle"
    BY <1>2, MainStack
  <2>2. phase' = [phase EXCEPT ![Main] = "flush"]
    BY <1>2 DEF DriverSteps, RunLoopStep
  <2>3. \A r \in Realm : phase'[r] # "idle" => r = Main
    BY <1>0, <2>1, <2>2
  <2> QED
    BY <2>3 DEF HoldInv
<1>3. ASSUME NEW r \in live,
             \/ \E c \in live : SkipChild(r, c)
             \/ FlushDone(r) \/ OutOfIterations(r) \/ RunTask(r) \/ TaskDone(r)
             \/ BeginRender(r) \/ RunFrame(r) \/ FrameDone(r) \/ UpdateObservations(r)
             \/ ObserversDone(r) \/ PinClock(r)
      PROVE  HoldInv'
  <2>1. Onward(r) /\ StepAlone(r)
    BY <1>3, LocalOnward, LocalStep DEF StackInv
  <2>2. current = r /\ phase[r] # "idle"
    BY <1>0, <2>1, MainUnderway DEF Onward
  <2>3. \A q \in Realm \ {r} : phase'[q] = phase[q]
    BY <1>0, <2>1 DEF Onward
  <2> QED
    BY <2>1, <2>2, <2>3, HoldStays DEF StepAlone
<1>4. ASSUME NEW r \in live, NEW c \in live, StepChild(r, c) PROVE HoldInv'
  <2>1. c # r /\ r \in Realm /\ c \in Realm /\ phase[r] # "idle" /\ phase[c] = "idle"
    BY <1>4, ChildStack
  <2>2. current = r /\ phase[Main] # "idle" /\ c # Main
    BY <1>0, <1>4, <2>1, MainUnderway DEF StepChild
  <2>3. /\ step' = [step EXCEPT ![r].visited = @ \cup {c},
                                ![c] = Entered(ChildBudget(r), step[r].maxIter, FALSE)]
        /\ phase' = [phase EXCEPT ![c] = "flush"]
    BY <1>4 DEF StepChild
  <2>4. \A q \in Realm \ {c} : phase'[q] = phase[q] /\ step'[q].maxMs = step[q].maxMs
    <3>1. PICK s : step' = [step EXCEPT ![r].visited = @ \cup {c}, ![c] = s]
      BY <2>3
    <3>2. step'[r].maxMs = step[r].maxMs
      BY <1>0, <2>1, <3>1 DEF Step
    <3>3. \A q \in Realm \ {c, r} : step'[q] = step[q]
      BY <1>0, <2>1, <3>1
    <3> QED
      BY <1>0, <2>3, <3>2, <3>3
  <2>5. step'[c].maxMs = ChildBudget(r)
    BY <1>0, <2>1, <2>3 DEF Entered
  <2>6. step[r].maxMs = 0 => step'[c].maxMs = 0
    BY <2>5 DEF ChildBudget
  <2> QED
    BY <1>0, <2>1, <2>2, <2>4, <2>6 DEF HoldInv
<1>5. ASSUME NEW r \in live, NEW c \in live, ChildStepReturns(r, c) PROVE HoldInv'
  <2>1. r # c /\ r \in Realm /\ c \in Realm
    BY <1>5, ReturnStack
  <2>2. /\ step' = [step EXCEPT ![r] = NoStep, ![c].fired = @ \/ step[r].fired,
                                ![c].dirtied = @ \/ step[r].dirtied]
        /\ phase' = [phase EXCEPT ![r] = "idle"]
    BY <1>5 DEF ChildStepReturns, Goto
  <2>3. \A q \in Realm \ {r} : phase'[q] = phase[q] /\ step'[q].maxMs = step[q].maxMs
    BY <1>0, <2>1, <2>2 DEF Step
  <2>4. phase'[r] = "idle"
    BY <1>0, <2>1, <2>2
  <2> QED
    BY <2>3, <2>4, HoldStays
<1>6. ASSUME NEW r \in live, StepReturns(r) PROVE HoldInv'
  <2>1. phase'[Main] = "idle"
    BY <1>0, <1>6 DEF StepReturns, Goto
  <2> QED
    BY <2>1 DEF HoldInv
<1>7. CASE LoopStep
  BY <1>3, <1>4, <1>5, <1>6, <1>7 DEF LoopStep
<1> QED
  BY <1>1, <1>2, <1>7, ScriptHold DEF Next

(* Advancing a clock by nothing leaves its timers as they are.              *)
LEMMA AdvanceByNothing ==
    ASSUME NEW ts \in Seq(Timer)
    PROVE  DOMAIN Advance(ts, 0) = DOMAIN ts /\ \A j \in DOMAIN ts : Advance(ts, 0)[j] = ts[j]
<1>1. ASSUME NEW j \in DOMAIN ts PROVE [ts[j] EXCEPT !.wait = ts[j].wait - 0] = ts[j]
  <2>1. ts[j] \in Timer
    BY LenProperties, ElementOfSeq
  <2> QED
    BY <2>1 DEF Timer
<1> QED
  BY <1>1 DEF Advance

(* What a loop step with no budget left does to the timers of its realm.    *)
LEMMA NoBudgetTask ==
    ASSUME TypeOK, NEW r \in live, RunTask(r), step[r].left = 0,
           NEW j \in DOMAIN timers[r], timers[r][j].wait > 0
    PROVE  \E k \in DOMAIN timers'[r] : timers'[r][k] = timers[r][j]
<1> DEFINE ts == timers[r]
<1>1. ts \in Seq(Timer) /\ r \in Realm /\ timers \in [Realm -> Seq(Timer)]
  BY DEF TypeOK
<1>2. PICK i \in DOMAIN ts :
        LET t == timers[r][i]
            d == IF t.wait > 0 THEN t.wait ELSE 0
            moved == Advance(timers[r], d)
        IN  /\ t.wait <= step[r].left
            /\ timers' = [timers EXCEPT ![r] =
                   IF t.period # 0 THEN [moved EXCEPT ![i].wait = t.period]
                                   ELSE DropAt(moved, i)]
  BY DEF RunTask
<1>3. ts[i].wait \in Int /\ ts[i].wait <= 0
  BY <1>1, <1>2, TimerWaits
<1> DEFINE moved == Advance(ts, 0)
<1>4. \/ timers'[r] = [moved EXCEPT ![i].wait = ts[i].period]
      \/ timers'[r] = DropAt(moved, i)
  <2>1. ~(ts[i].wait > 0)
    BY <1>3
  <2> QED
    BY <1>1, <1>2, <2>1
<1>5. moved \in Seq(Timer) /\ i \in DOMAIN moved /\ j \in DOMAIN moved /\ j # i
      /\ moved[j] = ts[j]
  BY <1>1, <1>2, <1>3, AdvanceType, AdvanceByNothing
<1> HIDE DEF moved, ts
<1>6. CASE timers'[r] = [moved EXCEPT ![i].wait = ts[i].period]
  BY <1>5, <1>6 DEF ts
<1>7. CASE timers'[r] = DropAt(moved, i)
  BY <1>5, <1>7, DropAtOthers DEF ts
<1> QED
  BY <1>4, <1>6, <1>7

LEMMA NoBudgetPin ==
    ASSUME TypeOK, NEW r \in live, PinClock(r), step[r].left = 0
    PROVE  \A j \in DOMAIN timers[r] : \E k \in DOMAIN timers'[r] : timers'[r][k] = timers[r][j]
<1>1. timers[r] \in Seq(Timer) /\ r \in Realm /\ timers \in [Realm -> Seq(Timer)]
  BY DEF TypeOK
<1>2. timers' = [timers EXCEPT ![r] =
                    Advance(@, IF step[r].yielded THEN 0 ELSE step[r].left)]
  BY Zenon DEF PinClock
<1>3. timers'[r] = Advance(timers[r], 0)
  BY <1>1, <1>2
<1> QED
  BY <1>1, <1>3, AdvanceByNothing

(* A step that the driver gives no budget (the turns of settle, the boot    *)
(* drain) holds the clock of every realm, whatever iframes and windows it   *)
(* steps and whatever they schedule: a delayed timer neither runs nor comes *)
(* closer.                                                                  *)
THEOREM ZeroBudgetHolds == Spec => ZeroBudgetHoldsClock
<1> DEFINE Inv == StackInv /\ TreeInv /\ HoldInv
           Held == \A r \in Realm : \A i \in DOMAIN timers[r] :
                       timers[r][i].wait > 0 =>
                           \E j \in DOMAIN timers'[r] : timers'[r][j] = timers[r][i]
<1>1. Init => Inv
  BY InitStack, InitTree, RealmsAssumption DEF Init, HoldInv
<1>2. Inv /\ [Next]_vars => Inv'
  BY StackStep, TreeNext, HoldStep
<1>3. Inv /\ ClockInv => [LoopStep /\ step[Main].maxMs = 0 => Held]_vars
  <2> SUFFICES ASSUME Inv, ClockInv, LoopStep, step[Main].maxMs = 0,
                      NEW q \in Realm, NEW j \in DOMAIN timers[q], timers[q][j].wait > 0
               PROVE  \E k \in DOMAIN timers'[q] : timers'[q][k] = timers[q][j]
    OBVIOUS
  <2>1. TypeOK
    BY DEF StackInv
  <2>2. ASSUME timers'[q] = timers[q]
        PROVE  \E k \in DOMAIN timers'[q] : timers'[q][k] = timers[q][j]
    BY <2>2
  <2>3. ASSUME NEW r \in live, RunTask(r) \/ PinClock(r)
        PROVE  \E k \in DOMAIN timers'[q] : timers'[q][k] = timers[q][j]
    <3>1. current = r /\ r \in Realm /\ r # NoRealm
      BY <2>1, <2>3, RealmsAssumption DEF RunTask, PinClock, At, TypeOK
    <3>2. phase[r] # "idle" /\ phase[Main] # "idle"
      BY <3>1, MainUnderway
    <3>3. step[r].maxMs = 0 /\ step[r].left <= step[r].maxMs
      BY <3>1, <3>2 DEF HoldInv, ClockInv, RealmClock, WithinBudget
    <3>4. step[r].left \in Nat
      BY <2>1, <3>1 DEF TypeOK, Step
    <3>5. step[r].left = 0
      BY <3>3, <3>4
    <3>6. CASE q = r
      BY <2>1, <2>3, <3>5, <3>6, NoBudgetTask, NoBudgetPin
    <3>7. CASE q # r
      <4>1. \E ts : timers' = [timers EXCEPT ![r] = ts]
        <5>1. CASE RunTask(r)
          BY <5>1, Zenon DEF RunTask
        <5>2. CASE PinClock(r)
          BY <5>2, Zenon DEF PinClock
        <5> QED
          BY <2>3, <5>1, <5>2
      <4>2. timers'[q] = timers[q]
        BY <2>1, <3>7, <4>1 DEF TypeOK
      <4> QED
        BY <2>2, <4>2
    <3> QED
      BY <3>6, <3>7
  <2>4. ASSUME NEW r \in live,
               \/ \E c \in live : SkipChild(r, c) \/ StepChild(r, c) \/ ChildStepReturns(r, c)
               \/ FlushDone(r) \/ OutOfIterations(r) \/ TaskDone(r) \/ BeginRender(r)
               \/ RunFrame(r) \/ FrameDone(r) \/ UpdateObservations(r) \/ ObserversDone(r)
               \/ StepReturns(r)
        PROVE  UNCHANGED timers
    BY <2>4 DEF SkipChild, StepChild, ChildStepReturns, FlushDone, OutOfIterations, TaskDone,
                BeginRender, RunFrame, FrameDone, UpdateObservations, ObserversDone,
                StepReturns, queueVars
  <2> QED
    BY <2>2, <2>3, <2>4 DEF LoopStep
<1>4. Spec => []Inv
  BY <1>1, <1>2, PTL DEF Spec
<1> QED
  BY <1>3, <1>4, ClockInvariant, PTL DEF Spec, ZeroBudgetHoldsClock
=============================================================================
