------------------------ MODULE EventDeliveryProofs ------------------------
(***************************************************************************)
(* Proofs about EventDelivery for every fleet, audience and number of      *)
(* faults: type correctness, no recipient lost with a deleted message,     *)
(* truthful markers, no push repeated without a slip, and the refinement   *)
(* of DeliveryContract.                                                    *)
(***************************************************************************)
EXTENDS EventDelivery, FiniteSetTheorems, TLAPS

-----------------------------------------------------------------------------
(* The inductive invariant                                                  *)

\* A free gather has no coroutines.
FreeGathersIdle == \A g \in Gathers : gather[g] = NoGather => task[g] = NoTasks

\* What the stage of the coroutine for <<m, d>> says about the past.
StageTellsTrue(m, d, stage) ==
    /\ stage \in {"accepted", "rejected", "deactivated"} => Handled(Occasion[m], d)
    /\ stage = "done" => Settled(m, d)
    /\ stage = "none" => d \notin Targets[m] \/ d \in inactive

\* The stages of running coroutines tell the truth, and nobody awaits a gather
\* in which one raised.
TasksTellTrue ==
    \A g \in Gathers, d \in Devices : gather[g] # NoGather =>
        /\ StageTellsTrue(gather[g].msg, d, task[g][d])
        /\ gather[g].state = "open" => task[g][d] # "raised"

\* A marker is written only for a handled notification.
MarkersTellTrue ==
    \A rel \in Releases, n \in Msgs, d \in Devices :
        <<KeyOn(rel, n), d>> \in markers => Handled(Occasion[n], d)

\* What was dropped has left the queue.
DroppedAreGone == \A m \in dropped : queue[m] = "deleted"

IInv ==
    /\ TypeOK
    /\ FreeGathersIdle
    /\ DroppedAreGone
    /\ TasksTellTrue
    /\ MarkersTellTrue
    /\ SettledBeforeDelete

-----------------------------------------------------------------------------
(* Lemmas on the operators the actions share                                *)

LEMMA NoTasksType == NoTasks \in [Devices -> Stages]
BY DEF NoTasks, Stages, Finished

\* Every stage an action passes to Advance is a stage.
LEMMA StageNames ==
    /\ {"sending", "accepted", "rejected", "deactivated"} \subseteq Stages
    /\ {"queued", "none", "done", "transient_failed", "raised"} \subseteq Stages
BY DEF Stages, Holding, Finished

\* A coroutine that moves leaves the other gathers alone; its own keeps worker
\* and message, or ends.
LEMMA AdvanceEffect ==
    ASSUME TypeOK, NEW g \in Gathers, NEW d \in Devices, NEW stage \in Stages,
           gather[g] # NoGather, Advance(g, d, stage)
    PROVE  /\ gather' \in [Gathers -> {NoGather} \cup Running]
           /\ task' \in [Gathers -> [Devices -> Stages]]
           /\ \A h \in Gathers \ {g} : gather'[h] = gather[h] /\ task'[h] = task[h]
           /\ \/ gather'[g] = NoGather /\ task'[g] = NoTasks
              \/ /\ gather'[g] \in Running
                 /\ gather'[g].msg = gather[g].msg
                 /\ gather'[g].worker = gather[g].worker
                 /\ gather'[g].state = IF stage = "raised" THEN "abandoned"
                                                           ELSE gather[g].state
                 /\ task'[g] = [task[g] EXCEPT ![d] = stage]
<1>1. [task[g] EXCEPT ![d] = stage] \in [Devices -> Stages]
  BY DEF TypeOK
<1>2. gather[g] \in Running
  BY DEF TypeOK
<1> DEFINE state == IF stage = "raised" THEN "abandoned" ELSE gather[g].state
           moved == [gather[g] EXCEPT !.state = state]
<1>3. state \in {"open", "abandoned"}
  BY <1>2 DEF Running
<1>4. /\ moved \in Running
      /\ moved.msg = gather[g].msg
      /\ moved.worker = gather[g].worker
      /\ moved.state = state
  BY <1>2, <1>3 DEF Running
<1>5. CASE gather' = [gather EXCEPT ![g] = NoGather] /\ task' = [task EXCEPT ![g] = NoTasks]
  BY <1>5, NoTasksType DEF TypeOK
<1>6. CASE /\ gather' = [gather EXCEPT ![g] = moved]
           /\ task' = [task EXCEPT ![g] = [task[g] EXCEPT ![d] = stage]]
  BY <1>6, <1>1, <1>4 DEF TypeOK
<1>7. [gather EXCEPT ![g].state = state] = [gather EXCEPT ![g] = moved]
  OBVIOUS
<1>8. QED
  BY <1>5, <1>6, <1>7 DEF Advance

\* Only a running gather has a coroutine that is not "none".
LEMMA MovingMeansRunning ==
    ASSUME FreeGathersIdle, NEW g \in Gathers, NEW d \in Devices,
           task[g][d] # "none"
    PROVE  gather[g] # NoGather
BY DEF FreeGathersIdle, NoTasks

\* A push that arrives is remembered, and no other count changes.
LEMMA PushEffect ==
    ASSUME TypeOK, NEW g \in Gathers, NEW d \in Devices,
           gather[g] # NoGather, PushArrives(g, d)
    PROVE  /\ pushes' \in [Occasions -> [Devices -> Nat]]
           /\ pushes'[Subject(g)][d] > 0
           /\ \A o \in Occasions, e \in Devices :
                 pushes[o][e] > 0 => pushes'[o][e] > 0
<1>1. Subject(g) \in Occasions
  BY ConstantsAssumption DEF TypeOK, Running, Subject
<1>2. pushes[Subject(g)] \in [Devices -> Nat]
  BY <1>1 DEF TypeOK
<1>3. pushes' = [pushes EXCEPT ![Subject(g)] = [pushes[Subject(g)] EXCEPT ![d] = @ + 1]]
  BY DEF PushArrives
<1>4. QED
  BY <1>1, <1>2, <1>3 DEF TypeOK

\* The budget operators leave natural numbers natural.
LEMMA FaultTypes ==
    ASSUME TypeOK, Healthy \/ Glitch \/ Slip
    PROVE  faults' \in Nat /\ slips' \in Nat
BY DEF TypeOK, Healthy, Glitch, Slip, faultVars

LEMMA DeleteEffect ==
    ASSUME TypeOK, NEW m \in Msgs, DeleteMessage(m)
    PROVE  /\ queue' \in [Msgs -> {"visible", "inflight", "deleted"}]
           /\ queue' = queue \/ queue' = [queue EXCEPT ![m] = "deleted"]
           /\ faults' \in Nat /\ slips' \in Nat
BY FaultTypes DEF TypeOK, DeleteMessage

-----------------------------------------------------------------------------
(* Type correctness                                                         *)

LEMMA InitType == Init => TypeOK
BY NoTasksType, ConstantsAssumption DEF Init, TypeOK, Releases

LEMMA PollType ==
    ASSUME TypeOK, NEW w \in Workers, Poll(w)
    PROVE  TypeOK'
BY DEF TypeOK, Poll, Receive, runVars, histVars, faultVars

LEMMA ProcessType ==
    ASSUME TypeOK, NEW w \in Workers, NEW m \in Msgs, Process(w, m)
    PROVE  TypeOK'
<1>1. CASE Discard(w, m)
  BY <1>1, DeleteEffect DEF TypeOK, Discard, Take, Drop, runVars
<1>2. CASE FailToParse(w, m)
  BY <1>2 DEF TypeOK, FailToParse, Take, runVars, histVars, faultVars
<1>3. CASE FetchFails(w, m)
  BY <1>3, FaultTypes DEF TypeOK, FetchFails, Take, runVars, histVars
<1>4. CASE NobodyToTell(w, m)
  BY <1>4, DeleteEffect DEF TypeOK, NobodyToTell, Take, runVars, histVars
<1>5. ASSUME NEW g \in Gathers, StartGather(w, m, g)
      PROVE  TypeOK'
  <2>1. [state |-> "open", worker |-> w, msg |-> m] \in Running
    BY DEF Running
  <2>2. [d \in Devices |-> IF d \in FetchedTargets(m) THEN "queued" ELSE "none"]
            \in [Devices -> Stages]
    BY StageNames
  <2>3. QED
    BY <1>5, <2>1, <2>2 DEF TypeOK, StartGather, Take, histVars, faultVars
<1>6. QED
  BY <1>1, <1>2, <1>3, <1>4, <1>5 DEF Process

LEMMA CoroutineType ==
    ASSUME TypeOK, FreeGathersIdle, NEW g \in Gathers, NEW d \in Devices,
           Coroutine(g, d)
    PROVE  TypeOK'
<1>0. gather[g] # NoGather
  BY MovingMeansRunning
     DEF Coroutine, StartSend, CheckFails, EnterSemaphore, FcmAccepts, FcmRefuses,
         FcmFails, Deactivate, MarkSent
<1>1. CASE StartSend(g, d)
  BY <1>0, <1>1, AdvanceEffect, StageNames
     DEF TypeOK, StartSend, sqsVars, histVars, faultVars
<1>2. CASE CheckFails(g, d)
  BY <1>0, <1>2, AdvanceEffect, StageNames, FaultTypes
     DEF TypeOK, CheckFails, sqsVars, histVars
<1>3. CASE FcmAccepts(g, d)
  BY <1>0, <1>3, AdvanceEffect, StageNames, PushEffect
     DEF TypeOK, FcmAccepts, sqsVars, faultVars
<1>4. CASE FcmRefuses(g, d)
  BY <1>0, <1>4, AdvanceEffect, StageNames
     DEF TypeOK, FcmRefuses, sqsVars, faultVars
<1>5. CASE FcmFails(g, d)
  BY <1>0, <1>5, AdvanceEffect, StageNames, PushEffect, FaultTypes
     DEF TypeOK, FcmFails, sqsVars
<1>6. CASE Deactivate(g, d)
  BY <1>0, <1>6, AdvanceEffect, StageNames, FaultTypes
     DEF TypeOK, Deactivate, sqsVars, histVars
<1>7. CASE MarkSent(g, d)
  <2>1. KeyOn(release[gather[g].worker], gather[g].msg) \in Keys
    BY <1>0 DEF TypeOK, Running, Keys
  <2>2. faults' \in Nat /\ slips' \in Nat
    BY <1>7, FaultTypes DEF MarkSent
  <2>3. markers' \subseteq Keys \X Devices
    BY <1>7, <2>1 DEF TypeOK, MarkSent
  <2>4. /\ gather' \in [Gathers -> {NoGather} \cup Running]
        /\ task' \in [Gathers -> [Devices -> Stages]]
    BY <1>0, <1>7, AdvanceEffect, StageNames DEF MarkSent
  <2>5. QED
    BY <1>7, <2>2, <2>3, <2>4 DEF TypeOK, MarkSent, sqsVars, histVars
<1>8. QED
  BY <1>1, <1>2, <1>3, <1>4, <1>5, <1>6, <1>7 DEF Coroutine

LEMMA ConcludeType ==
    ASSUME TypeOK, NEW g \in Gathers, Conclude(g)
    PROVE  TypeOK'
<1>1. gather[g].msg \in Msgs
  BY DEF TypeOK, Conclude, NoGather, Running
<1>2. /\ queue' \in [Msgs -> {"visible", "inflight", "deleted"}]
      /\ faults' \in Nat /\ slips' \in Nat
  BY <1>1, DeleteEffect, FaultTypes DEF TypeOK, Conclude
<1>3. QED
  BY <1>2, NoTasksType DEF TypeOK, Conclude, histVars

LEMMA EnvironmentType ==
    ASSUME TypeOK,
           \/ \E m \in Msgs : VisibilityTimeout(m)
           \/ \E w \in Workers : Restart(w)
           \/ \E mk \in Keys \X Devices : MarkerExpires(mk)
    PROVE  TypeOK'
<1>1. ASSUME NEW m \in Msgs, VisibilityTimeout(m)
      PROVE  TypeOK'
  BY <1>1, FaultTypes DEF TypeOK, VisibilityTimeout, runVars, histVars
<1>2. ASSUME NEW w \in Workers, Restart(w)
      PROVE  TypeOK'
  <2>1. faults' \in Nat /\ slips' \in Nat
    BY <1>2, FaultTypes DEF Restart
  <2>2. "new" \in Releases
    BY DEF Releases
  <2>3. QED
    BY <1>2, <2>1, <2>2, NoTasksType DEF TypeOK, Restart, histVars
<1>3. ASSUME NEW mk \in Keys \X Devices, MarkerExpires(mk)
      PROVE  TypeOK'
  BY <1>3, FaultTypes DEF TypeOK, MarkerExpires, sqsVars, runVars, histVars
<1>4. QED
  BY <1>1, <1>2, <1>3

LEMMA StutterType == TypeOK /\ UNCHANGED vars => TypeOK'
BY DEF TypeOK, vars

\* FreeGathersIdle is kept by every step: a gather is freed with its tasks.
LEMMA FreeGathersStep ==
    ASSUME TypeOK, FreeGathersIdle, [Next]_vars
    PROVE  FreeGathersIdle'
<1>1. ASSUME NEW g \in Gathers, NEW d \in Devices, Coroutine(g, d)
      PROVE  FreeGathersIdle'
  <2>1. gather[g] # NoGather
    BY <1>1, MovingMeansRunning
       DEF Coroutine, StartSend, CheckFails, EnterSemaphore, FcmAccepts,
           FcmRefuses, FcmFails, Deactivate, MarkSent
  <2>2. PICK stage \in Stages : Advance(g, d, stage)
    BY <1>1, StageNames
       DEF Coroutine, StartSend, CheckFails, FcmAccepts, FcmRefuses, FcmFails,
           Deactivate, MarkSent
  <2>3. NoGather \notin Running
    BY DEF NoGather, Running
  <2>4. \A h \in Gathers \ {g} : gather'[h] = gather[h] /\ task'[h] = task[h]
    BY <2>1, <2>2, AdvanceEffect
  <2>5. gather'[g] = NoGather => task'[g] = NoTasks
    BY <2>1, <2>2, <2>3, AdvanceEffect
  <2>6. NoTasks' = NoTasks /\ NoGather' = NoGather
    BY DEF NoTasks, NoGather
  <2>7. QED
    BY <2>4, <2>5, <2>6 DEF FreeGathersIdle
<1>2. ASSUME NEW w \in Workers, NEW m \in Msgs, Process(w, m)
      PROVE  FreeGathersIdle'
  <2>1. CASE UNCHANGED runVars
    BY <2>1 DEF FreeGathersIdle, runVars
  <2>2. ASSUME NEW g \in Gathers, StartGather(w, m, g)
        PROVE  FreeGathersIdle'
    BY <2>2 DEF StartGather, FreeGathersIdle, NoGather, TypeOK
  <2>3. QED
    BY <1>2, <2>1, <2>2
       DEF Process, Discard, FailToParse, FetchFails, NobodyToTell
<1>3. ASSUME NEW g \in Gathers, Conclude(g)
      PROVE  FreeGathersIdle'
  BY <1>3 DEF Conclude, FreeGathersIdle, TypeOK
<1>4. ASSUME NEW w \in Workers, Restart(w)
      PROVE  FreeGathersIdle'
  BY <1>4 DEF Restart, FreeGathersIdle
<1>5. CASE UNCHANGED runVars
  BY <1>5 DEF FreeGathersIdle, runVars
<1>6. QED
  BY <1>1, <1>2, <1>3, <1>4, <1>5
     DEF Next, Poll, Receive, VisibilityTimeout, MarkerExpires, vars, runVars

\* Every variable keeps its type: queue states, gathers, coroutine stages and
\* markers are always the ones the consumer can produce.
THEOREM TypeCorrect == Spec => []TypeOK
<1> DEFINE Typed == TypeOK /\ FreeGathersIdle
<1>1. Init => Typed
  BY InitType DEF Init, FreeGathersIdle
<1>2. Typed /\ [Next]_vars => Typed'
  <2>1. Typed /\ Next => TypeOK'
    BY PollType, ProcessType, CoroutineType, ConcludeType, EnvironmentType DEF Next
  <2>2. QED
    BY <2>1, StutterType, FreeGathersStep
<1>3. QED
  BY <1>1, <1>2, PTL DEF Spec

-----------------------------------------------------------------------------
(* Nothing that happened is forgotten                                       *)

LEMMA CoroutineMoves ==
    ASSUME FreeGathersIdle, NEW g \in Gathers, NEW d \in Devices, Coroutine(g, d)
    PROVE  /\ gather[g] # NoGather
           /\ inactive \subseteq inactive'
           /\ UNCHANGED <<queue, dropped>>
<1>1. task[g][d] # "none"
  BY DEF Coroutine, StartSend, CheckFails, EnterSemaphore, FcmAccepts, FcmRefuses,
         FcmFails, Deactivate, MarkSent
<1>2. QED
  BY <1>1, MovingMeansRunning
     DEF Coroutine, StartSend, CheckFails, FcmAccepts, FcmRefuses, FcmFails,
         Deactivate, MarkSent, sqsVars, histVars

LEMMA HistoryGrows ==
    ASSUME TypeOK, FreeGathersIdle, [Next]_vars
    PROVE  /\ inactive \subseteq inactive'
           /\ \A o \in Occasions, d \in Devices : Handled(o, d) => Handled(o, d)'
           /\ \A m \in Msgs, d \in Devices : Settled(m, d) => Settled(m, d)'
<1> SUFFICES /\ inactive \subseteq inactive'
             /\ \A o \in Occasions, d \in Devices : Handled(o, d) => Handled(o, d)'
  BY ConstantsAssumption DEF Settled
<1>1. ASSUME NEW g \in Gathers, NEW e \in Devices, Coroutine(g, e)
      PROVE  /\ inactive \subseteq inactive'
             /\ \A o \in Occasions, d \in Devices : Handled(o, d) => Handled(o, d)'
  <2>1. gather[g] # NoGather /\ inactive \subseteq inactive'
    BY <1>1, CoroutineMoves
  <2>2. CASE PushArrives(g, e) /\ UNCHANGED refused
    BY <2>1, <2>2, PushEffect DEF Handled
  <2>3. CASE FcmRefuses(g, e)
    BY <2>1, <2>3 DEF FcmRefuses, Handled, TypeOK
  <2>4. CASE UNCHANGED <<pushes, refused>>
    BY <2>1, <2>4 DEF Handled
  <2>5. QED
    BY <1>1, <2>2, <2>3, <2>4
       DEF Coroutine, StartSend, CheckFails, FcmAccepts, FcmFails, Deactivate,
           MarkSent, histVars
<1>2. CASE UNCHANGED <<inactive, pushes, refused>>
  BY <1>2 DEF Handled
<1>3. QED
  BY <1>1, <1>2
     DEF Next, Poll, Receive, Process, Discard, FailToParse, FetchFails,
         NobodyToTell, StartGather, Conclude, VisibilityTimeout, Restart,
         MarkerExpires, vars, histVars

-----------------------------------------------------------------------------
(* Markers and coroutines tell the truth                                    *)

LEMMA OwnKeyConsulted ==
    ASSUME NEW rel \in Releases, NEW m \in Msgs
    PROVE  KeyOn(rel, m) \in ConsultedKeys(rel, m)
BY DEF Releases, KeyOn, ConsultedKeys

LEMMA TruthfulMarkers ==
    ASSUME KeysTellOccasions, TypeOK, MarkersTellTrue
    PROVE  MarkersSpeakTrue
<1> SUFFICES ASSUME NEW w \in Workers, NEW m \in Msgs, NEW d \in Devices,
                    NEW k \in ConsultedKeys(release[w], m), <<k, d>> \in markers
             PROVE  Handled(Occasion[m], d)
  BY DEF MarkersSpeakTrue, AlreadySent
<1>1. k \in Keys
  BY DEF TypeOK
<1>2. PICK rel \in Releases, n \in Msgs : k = KeyOn(rel, n)
  BY <1>1 DEF Keys
<1>3. Occasion[m] = Occasion[n]
  BY <1>2 DEF KeysTellOccasions, TypeOK
<1>4. QED
  BY <1>2, <1>3 DEF MarkersTellTrue

\* The new stage of a coroutine that moves is earned in that very step.
LEMMA StageEarned ==
    ASSUME KeysTellOccasions, IInv, NEW g \in Gathers, NEW d \in Devices,
           Coroutine(g, d), NEW m \in Msgs, m = gather[g].msg
    PROVE  \E stage \in Stages \ {"none"} :
              Advance(g, d, stage) /\ StageTellsTrue(m, d, stage)'
<1>1. gather[g] # NoGather
  BY CoroutineMoves DEF IInv
<1>2. gather[g].worker \in Workers /\ Subject(g) = Occasion[m] /\ Occasion[m] \in Occasions
  BY <1>1, ConstantsAssumption DEF IInv, TypeOK, Running, Subject
<1>3. StageTellsTrue(m, d, task[g][d])
  BY <1>1 DEF IInv, TasksTellTrue
<1>4. CASE StartSend(g, d)
  <2>1. CASE d \in Configured /\ ~AlreadySent(gather[g].worker, gather[g].msg, d)
    BY <1>4, <2>1, StageNames DEF StartSend, StageTellsTrue
  <2>2. CASE d \notin Configured \/ AlreadySent(gather[g].worker, gather[g].msg, d)
    <3>1. Settled(m, d)
      BY <1>2, <2>2, TruthfulMarkers DEF IInv, MarkersSpeakTrue, Settled
    <3>2. Settled(m, d)'
      BY <1>4, <3>1 DEF StartSend, Settled, Handled, histVars
    <3>3. Advance(g, d, "done")
      BY <1>4, <2>2 DEF StartSend
    <3>4. QED
      BY <3>2, <3>3, StageNames DEF StageTellsTrue
  <2>3. QED
    BY <2>1, <2>2
<1>5. CASE CheckFails(g, d)
  BY <1>5, StageNames DEF CheckFails, StageTellsTrue
<1>6. CASE FcmAccepts(g, d)
  <2>1. Handled(Occasion[m], d)'
    BY <1>1, <1>2, <1>6, PushEffect DEF IInv, FcmAccepts, Handled
  <2>2. QED
    BY <1>6, <2>1, StageNames DEF FcmAccepts, StageTellsTrue
<1>7. CASE FcmRefuses(g, d)
  <2>1. Handled(Occasion[m], d)'
    BY <1>2, <1>7 DEF IInv, TypeOK, FcmRefuses, Handled
  <2>2. QED
    BY <1>7, <2>1, StageNames DEF FcmRefuses, StageTellsTrue
<1>8. CASE FcmFails(g, d)
  BY <1>8, StageNames DEF FcmFails, StageTellsTrue
<1>9. CASE Deactivate(g, d)
  <2>1. Handled(Occasion[m], d)'
    BY <1>3, <1>9 DEF Deactivate, StageTellsTrue, Handled, histVars
  <2>2. QED
    BY <1>9, <2>1, StageNames DEF Deactivate, StageTellsTrue
<1>10. CASE MarkSent(g, d)
  <2>1. Settled(m, d)'
    BY <1>3, <1>10 DEF MarkSent, StageTellsTrue, Handled, Settled, histVars
  <2>2. QED
    BY <1>10, <2>1, StageNames DEF MarkSent, StageTellsTrue
<1>11. QED
  BY <1>4, <1>5, <1>6, <1>7, <1>8, <1>9, <1>10 DEF Coroutine

-----------------------------------------------------------------------------
(* Every step keeps the inductive invariant                                 *)

\* A coroutine whose stage stands goes on telling the truth.
LEMMA TruthStands ==
    ASSUME TypeOK, FreeGathersIdle, [Next]_vars, NEW m \in Msgs, NEW d \in Devices,
           NEW stage \in Stages, StageTellsTrue(m, d, stage)
    PROVE  StageTellsTrue(m, d, stage)'
BY HistoryGrows, ConstantsAssumption DEF StageTellsTrue

LEMMA TasksStep ==
    ASSUME KeysTellOccasions, IInv, [Next]_vars
    PROVE  TasksTellTrue'
<1> SUFFICES ASSUME NEW h \in Gathers, NEW e \in Devices, gather'[h] # NoGather
             PROVE  /\ StageTellsTrue(gather[h].msg, e, task[h][e])'
                    /\ gather'[h].state = "open" => task'[h][e] # "raised"
  BY DEF TasksTellTrue, NoGather
<1> USE DEF IInv
\* What an untouched coroutine needs.
<1>1. ASSUME gather[h] # NoGather, gather'[h].msg = gather[h].msg,
             gather'[h].state = gather[h].state, task'[h][e] = task[h][e]
      PROVE  /\ StageTellsTrue(gather[h].msg, e, task[h][e])'
             /\ gather'[h].state = "open" => task'[h][e] # "raised"
  <2>1. gather[h].msg \in Msgs /\ task[h][e] \in Stages
    BY <1>1 DEF TypeOK, Running
  <2>2. StageTellsTrue(gather[h].msg, e, task[h][e])
    BY <1>1 DEF TasksTellTrue
  <2>3. ASSUME NEW m \in Msgs, m = gather[h].msg, NEW s \in Stages, s = task[h][e]
        PROVE  StageTellsTrue(m, e, s)'
    BY <2>2, <2>3, TruthStands
  <2>4. QED
    BY <1>1, <2>1, <2>3 DEF TasksTellTrue, StageTellsTrue
<1>2. ASSUME NEW g \in Gathers, NEW d \in Devices, Coroutine(g, d)
      PROVE  /\ StageTellsTrue(gather[h].msg, e, task[h][e])'
             /\ gather'[h].state = "open" => task'[h][e] # "raised"
  <2>1. gather[g] # NoGather /\ gather[g].msg \in Msgs
    BY <1>2, CoroutineMoves DEF TypeOK, Running
  <2>2. PICK m \in Msgs : m = gather[g].msg
    BY <2>1
  <2>3. PICK stage \in Stages \ {"none"} :
            Advance(g, d, stage) /\ StageTellsTrue(m, d, stage)'
    BY <1>2, <2>2, StageEarned
  <2>4. CASE h # g
    BY <1>1, <2>1, <2>3, <2>4, AdvanceEffect
  <2>5. CASE h = g /\ e # d /\ stage # "raised"
    <3>1. /\ gather'[g].msg = gather[g].msg
          /\ gather'[g].state = gather[g].state
          /\ task'[g] = [task[g] EXCEPT ![d] = stage]
      BY <2>1, <2>3, <2>5, AdvanceEffect
    <3>2. task'[g][e] = task[g][e]
      BY <2>5, <3>1 DEF TypeOK
    <3>3. QED
      BY <1>1, <2>1, <2>5, <3>1, <3>2
  <2>6. CASE h = g /\ (e = d \/ stage = "raised")
    <3>1. /\ gather'[g].msg = m
          /\ gather'[g].state = IF stage = "raised" THEN "abandoned" ELSE gather[g].state
          /\ task'[g] = [task[g] EXCEPT ![d] = stage]
      BY <2>1, <2>2, <2>3, <2>6, AdvanceEffect
    <3>2. CASE e = d
      <4>1. gather'[h].msg = m /\ task'[h][e] = stage
        BY <2>6, <3>1, <3>2 DEF TypeOK
      <4>2. QED
        BY <2>3, <2>6, <3>1, <3>2, <4>1 DEF StageTellsTrue
    <3>3. CASE e # d
      <4>1. task'[g][e] = task[g][e] /\ gather'[g].state = "abandoned"
        BY <2>6, <3>1, <3>3 DEF TypeOK
      <4>2. StageTellsTrue(m, e, task[g][e]) /\ task[g][e] \in Stages
        BY <2>1, <2>2 DEF TasksTellTrue, TypeOK
      <4>3. ASSUME NEW s \in Stages, s = task[g][e]
            PROVE  StageTellsTrue(m, e, s)'
        BY <4>2, <4>3, TruthStands
      <4>4. QED
        BY <2>6, <3>1, <4>1, <4>2, <4>3 DEF StageTellsTrue
    <3>4. QED
      BY <3>2, <3>3
  <2>7. QED
    BY <2>4, <2>5, <2>6
<1>3. ASSUME NEW w \in Workers, NEW m \in Msgs, NEW g \in Gathers, StartGather(w, m, g)
      PROVE  /\ StageTellsTrue(gather[h].msg, e, task[h][e])'
             /\ gather'[h].state = "open" => task'[h][e] # "raised"
  <2>1. CASE h # g
    BY <1>1, <1>3, <2>1 DEF StartGather, TypeOK
  <2>2. CASE h = g
    <3>1. /\ gather'[h].msg = m
          /\ task'[h][e] = IF e \in FetchedTargets(m) THEN "queued" ELSE "none"
          /\ inactive' = inactive
      BY <1>3, <2>2 DEF StartGather, TypeOK
    <3>2. QED
      BY <3>1 DEF StageTellsTrue, FetchedTargets
  <2>3. QED
    BY <2>1, <2>2
<1>4. ASSUME NEW g \in Gathers, Conclude(g)
      PROVE  /\ StageTellsTrue(gather[h].msg, e, task[h][e])'
             /\ gather'[h].state = "open" => task'[h][e] # "raised"
  BY <1>1, <1>4 DEF Conclude, TypeOK
<1>5. ASSUME NEW w \in Workers, Restart(w)
      PROVE  /\ StageTellsTrue(gather[h].msg, e, task[h][e])'
             /\ gather'[h].state = "open" => task'[h][e] # "raised"
  BY <1>1, <1>5 DEF Restart
<1>6. CASE UNCHANGED runVars
  BY <1>1, <1>6 DEF runVars
<1>7. QED
  BY <1>2, <1>3, <1>4, <1>5, <1>6
     DEF Next, Poll, Receive, Process, Discard, FailToParse, FetchFails,
         NobodyToTell, VisibilityTimeout, MarkerExpires, vars, runVars

LEMMA MarkersStep ==
    ASSUME KeysTellOccasions, IInv, [Next]_vars
    PROVE  MarkersTellTrue'
<1> SUFFICES ASSUME NEW rel \in Releases, NEW n \in Msgs, NEW e \in Devices,
                    <<KeyOn(rel, n), e>> \in markers'
             PROVE  Handled(Occasion[n], e)'
  BY DEF MarkersTellTrue
<1> USE DEF IInv
<1>1. Occasion[n] \in Occasions
  BY ConstantsAssumption
<1>2. CASE <<KeyOn(rel, n), e>> \in markers
  BY <1>1, <1>2, HistoryGrows DEF MarkersTellTrue
<1>3. ASSUME NEW g \in Gathers, NEW d \in Devices, MarkSent(g, d),
             <<KeyOn(rel, n), e>> \notin markers
      PROVE  Handled(Occasion[n], e)'
  <2>1. gather[g] # NoGather
    BY <1>3, CoroutineMoves DEF Coroutine
  <2>2. gather[g].msg \in Msgs /\ release[gather[g].worker] \in Releases
    BY <2>1 DEF TypeOK, Running
  <2>3. KeyOn(rel, n) = KeyOn(release[gather[g].worker], gather[g].msg) /\ e = d
    BY <1>3 DEF MarkSent
  <2>4. Occasion[gather[g].msg] = Occasion[n]
    BY <2>2, <2>3, OwnKeyConsulted DEF KeysTellOccasions
  <2>5. Handled(Occasion[n], d)
    BY <1>3, <2>1, <2>4 DEF MarkSent, TasksTellTrue, StageTellsTrue
  <2>6. QED
    BY <1>1, <2>3, <2>5, HistoryGrows
<1>4. CASE markers' \subseteq markers
  BY <1>2, <1>4
<1>5. QED
  BY <1>2, <1>3, <1>4
     DEF Next, Poll, Receive, Process, Discard, FailToParse, FetchFails,
         NobodyToTell, StartGather, Coroutine, StartSend, CheckFails, FcmAccepts,
         FcmRefuses, FcmFails, Deactivate, Conclude, VisibilityTimeout, Restart,
         MarkerExpires, vars

\* The heart of the matter: when a message is deleted, the gather that did it
\* has settled every device fetched, and the others were deactivated.
LEMMA SettledStep ==
    ASSUME IInv, [Next]_vars
    PROVE  SettledBeforeDelete'
<1> SUFFICES ASSUME NEW m \in Msgs, queue'[m] = "deleted", m \notin dropped',
                    NEW d \in Targets[m]
             PROVE  Settled(m, d)'
  BY DEF SettledBeforeDelete
<1> USE DEF IInv
<1>1. d \in Devices
  BY ConstantsAssumption
<1>2. SUFFICES Settled(m, d)
  BY <1>1, HistoryGrows
<1>3. CASE queue[m] = "deleted" /\ m \notin dropped
  BY <1>3 DEF SettledBeforeDelete
<1>4. ASSUME NEW g \in Gathers, Conclude(g), queue[m] # "deleted"
      PROVE  Settled(m, d)
  <2>1. gather[g] # NoGather /\ gather[g].msg \in Msgs
    BY <1>4 DEF Conclude, NoGather, TypeOK, Running
  <2>2. m = gather[g].msg /\ task[g][d] # "transient_failed"
    BY <1>1, <1>4, <2>1, DeleteEffect DEF Conclude, TypeOK
  <2>3. task[g][d] \in {"none", "done"}
    BY <1>1, <1>4, <2>1, <2>2 DEF Conclude, TasksTellTrue, Finished
  <2>4. QED
    BY <1>1, <2>1, <2>2, <2>3 DEF TasksTellTrue, StageTellsTrue, Settled
<1>5. ASSUME NEW w \in Workers, NEW n \in Msgs, NobodyToTell(w, n),
             queue[m] # "deleted"
      PROVE  Settled(m, d)
  <2>1. m = n
    BY <1>5, DeleteEffect DEF NobodyToTell, TypeOK
  <2>2. d \in inactive
    BY <1>5, <2>1 DEF NobodyToTell, FetchedTargets
  <2>3. QED
    BY <2>2 DEF Settled
<1>6. ASSUME NEW w \in Workers, NEW n \in Msgs, Discard(w, n)
      PROVE  queue[m] = "deleted" /\ m \notin dropped
  BY <1>6, DeleteEffect DEF Discard, Drop, TypeOK
<1>7. CASE dropped' = dropped /\ (queue'[m] = "deleted" => queue[m] = "deleted")
  BY <1>3, <1>7
<1>8. ASSUME NEW w \in Workers, Poll(w)
      PROVE  dropped' = dropped /\ (queue'[m] = "deleted" => queue[m] = "deleted")
  BY <1>8 DEF Poll, Receive, histVars
<1>9. ASSUME NEW n \in Msgs, VisibilityTimeout(n)
      PROVE  dropped' = dropped /\ (queue'[m] = "deleted" => queue[m] = "deleted")
  BY <1>9 DEF VisibilityTimeout, TypeOK, histVars
<1>10. ASSUME NEW g \in Gathers, Conclude(g)
       PROVE  dropped' = dropped
  BY <1>10 DEF Conclude, histVars
<1>11. ASSUME NEW w \in Workers, NEW n \in Msgs, NobodyToTell(w, n)
       PROVE  dropped' = dropped
  BY <1>11 DEF NobodyToTell, histVars
<1>12. ASSUME NEW g \in Gathers, NEW e \in Devices, Coroutine(g, e)
       PROVE  dropped' = dropped /\ queue' = queue
  BY <1>12, CoroutineMoves
<1>13. QED
  BY <1>3, <1>4, <1>5, <1>6, <1>7, <1>8, <1>9, <1>10, <1>11, <1>12
     DEF Next, Process, FailToParse, FetchFails, StartGather, Restart,
         MarkerExpires, vars, sqsVars, histVars

LEMMA DroppedStep ==
    ASSUME TypeOK, FreeGathersIdle, DroppedAreGone, [Next]_vars
    PROVE  DroppedAreGone'
<1>1. CASE dropped' = dropped /\ \A m \in Msgs :
              queue[m] = "deleted" => queue'[m] = "deleted"
  BY <1>1 DEF DroppedAreGone, TypeOK
<1>2. ASSUME NEW w \in Workers, NEW m \in Msgs, Discard(w, m)
      PROVE  DroppedAreGone'
  BY <1>2, DeleteEffect DEF Discard, Drop, DroppedAreGone, TypeOK
<1>3. ASSUME NEW g \in Gathers, Conclude(g)
      PROVE  DroppedAreGone'
  BY <1>1, <1>3, DeleteEffect DEF Conclude, NoGather, TypeOK, Running, histVars
<1>4. ASSUME NEW w \in Workers, NEW m \in Msgs, NobodyToTell(w, m)
      PROVE  DroppedAreGone'
  BY <1>1, <1>4, DeleteEffect DEF NobodyToTell, TypeOK, histVars
<1>5. ASSUME NEW w \in Workers, Poll(w)
      PROVE  DroppedAreGone'
  BY <1>1, <1>5 DEF Poll, Receive, TypeOK, histVars
<1>6. ASSUME NEW m \in Msgs, VisibilityTimeout(m)
      PROVE  DroppedAreGone'
  BY <1>1, <1>6 DEF VisibilityTimeout, TypeOK, histVars
<1>7. ASSUME NEW g \in Gathers, NEW d \in Devices, Coroutine(g, d)
      PROVE  DroppedAreGone'
  BY <1>1, <1>7, CoroutineMoves
<1>8. QED
  BY <1>1, <1>2, <1>3, <1>4, <1>5, <1>6, <1>7
     DEF Next, Process, FailToParse, FetchFails, StartGather, Restart,
         MarkerExpires, vars, sqsVars, histVars

LEMMA IInvInit == Init => IInv
<1> SUFFICES ASSUME Init PROVE IInv
  OBVIOUS
<1>1. FreeGathersIdle /\ TasksTellTrue
  BY DEF Init, FreeGathersIdle, TasksTellTrue
<1>2. MarkersTellTrue /\ SettledBeforeDelete /\ DroppedAreGone
  BY DEF Init, MarkersTellTrue, SettledBeforeDelete, DroppedAreGone
<1>3. QED
  BY <1>1, <1>2, InitType DEF IInv

LEMMA IInvStep ==
    ASSUME KeysTellOccasions, IInv, [Next]_vars
    PROVE  IInv'
<1>1. TypeOK'
  BY PollType, ProcessType, CoroutineType, ConcludeType, EnvironmentType, StutterType
     DEF IInv, Next
<1>2. FreeGathersIdle'
  BY FreeGathersStep DEF IInv
<1>3. QED
  BY <1>1, <1>2, TasksStep, MarkersStep, SettledStep, DroppedStep DEF IInv

\* If keys tell notifications apart, IInv holds throughout.
THEOREM Invariance ==
    ASSUME KeysTellOccasions
    PROVE  Spec => []IInv
<1>1. Init => IInv
  BY IInvInit
<1>2. IInv /\ [Next]_vars => IInv'
  BY IInvStep
<1>3. QED
  BY <1>1, <1>2, PTL DEF Spec

\* No recipient is lost with a deleted message: whatever is redelivered,
\* crashes, expires or fails, a message is deleted only when every device of
\* its audience is settled or there was nothing to deliver.
THEOREM NoRecipientLost ==
    ASSUME KeysTellOccasions
    PROVE  Spec => []SettledBeforeDelete
<1>1. IInv => SettledBeforeDelete
  BY DEF IInv
<1>2. QED
  BY <1>1, Invariance, PTL

\* A marker a worker acts on speaks of the notification in hand: nobody is
\* skipped for a push they never got.
THEOREM NobodySkippedWrongly ==
    ASSUME KeysTellOccasions
    PROVE  Spec => []MarkersSpeakTrue
<1>1. IInv => MarkersSpeakTrue
  BY TruthfulMarkers DEF IInv
<1>2. QED
  BY <1>1, Invariance, PTL

-----------------------------------------------------------------------------
(* The keys of the current release                                          *)

\* Bodies the parser lets through.
BodiesParsed ==
    \A m \in Msgs :
        /\ Body[m].type \in {"EVENT_CREATED", "EVENT_REMINDER", "EVENT_ANNOUNCEMENT"}
        /\ IsReminder(m) => Body[m].reminder \in {"T_MINUS_10", "T_ZERO"}

\* Two bodies that agree on these fields ask for the same notification.
SameRequest(m, n) ==
    /\ Body[m].type = Body[n].type
    /\ Body[m].event = Body[n].event
    /\ IsReminder(m) => /\ Body[m].reminder = Body[n].reminder
                        /\ Body[m].fireAt = Body[n].fireAt
    /\ Body[m].type = "EVENT_ANNOUNCEMENT" =>
           Body[m].announcement = Body[n].announcement

\* With every worker on the current release and the bridge off, equal keys
\* mean equal requests: no event type, reminder type, day or announcement can
\* shadow another.
THEOREM CurrentKeysTellOccasions ==
    ASSUME OldWorkers = {}, ~LegacyKeyFallback, BodiesParsed,
           \A m, n \in Msgs : SameRequest(m, n) => Occasion[m] = Occasion[n]
    PROVE  KeysTellOccasions
<1> SUFFICES ASSUME NEW m \in Msgs, NEW n \in Msgs, Key(n) = Key(m)
             PROVE  SameRequest(m, n)
  BY DEF KeysTellOccasions, Releases, KeyOn, ConsultedKeys
<1>1. Body[m].type = Body[n].type /\ Body[m].event = Body[n].event
  BY DEF Key, LegacyKey, BodiesParsed, IsReminder
<1>2. CASE IsReminder(m)
  <2>1. /\ Body[m].reminder = Body[n].reminder
        /\ Body[m].fireAt = Body[n].fireAt
    BY <1>1, <1>2 DEF Key, LegacyKey, IsReminder
  <2>2. QED
    BY <1>1, <1>2, <2>1 DEF SameRequest, IsReminder
<1>3. CASE Body[m].type = "EVENT_ANNOUNCEMENT"
  <2>1. Body[m].announcement = Body[n].announcement
    BY <1>1, <1>3 DEF Key, LegacyKey, IsReminder
  <2>2. QED
    BY <1>1, <1>3, <2>1 DEF SameRequest, IsReminder
<1>4. QED
  BY <1>1, <1>2, <1>3 DEF SameRequest

-----------------------------------------------------------------------------
(* Counting pushes                                                          *)

\* No two messages ask for the same notification.
OneMessageEach == \A m, n \in Msgs : Occasion[m] = Occasion[n] => m = n

\* A marker one worker writes is found by all: the fleet runs one release, or a
\* single worker is replaced by the release that also reads the old keys.
ReleasesShareMarkers ==
    \/ OldWorkers = {}
    \/ LegacyKeyFallback /\ \A v, w \in Workers : v = w

\* What may still become a push of m to d: the message on the queue, workers
\* that have yet to look at it, and coroutines that wait or have asked FCM.
Visible(m) == IF queue[m] = "visible" THEN 1 ELSE 0
Holders(m) == {w \in Workers : m \in batch[w]}
At(m, d, stage) ==
    {g \in Gathers : gather[g] # NoGather /\ gather[g].msg = m /\ task[g][d] = stage}
Chances(m, d) ==
    Visible(m) + Cardinality(Holders(m))
        + Cardinality(At(m, d, "queued")) + Cardinality(At(m, d, "sending"))

Pushed(m, d) == pushes[Occasion[m]][d]

\* Every worker finds a marker of m for d.
Told(m, d) == \A w \in Workers : AlreadySent(w, m, d)

\* Slips pay for all pushes but one, those to come included: two while a marker
\* stands between a chance and a push, none while nobody remembers a push.
CountedFor(m, d) ==
    /\ IsFiniteSet(Holders(m))
    /\ IsFiniteSet(At(m, d, "queued"))
    /\ IsFiniteSet(At(m, d, "sending"))
    /\ Pushed(m, d) + Cardinality(At(m, d, "sending")) <= 1 + slips
    /\ Pushed(m, d) + Chances(m, d) <= 2 + slips
    /\ Told(m, d) \/ Pushed(m, d) + Chances(m, d) <= 1 + slips
    /\ Told(m, d) \/ At(m, d, "accepted") # {} \/ Pushed(m, d) <= slips

CountInv == (\A m \in Msgs, d \in Devices : CountedFor(m, d)) /\ RepeatsNeedSlips

LEMMA CountTypes ==
    ASSUME TypeOK, NEW m \in Msgs, NEW d \in Devices, CountedFor(m, d)
    PROVE  /\ Cardinality(Holders(m)) \in Nat
           /\ Cardinality(At(m, d, "queued")) \in Nat
           /\ Cardinality(At(m, d, "sending")) \in Nat
           /\ Visible(m) \in {0, 1}
           /\ Pushed(m, d) \in Nat
           /\ slips \in Nat
<1>1. Pushed(m, d) \in Nat /\ slips \in Nat
  BY ConstantsAssumption DEF TypeOK, Pushed
<1>2. QED
  BY <1>1, FS_CardinalityType DEF CountedFor, Visible

\* A step that pushes nothing, adds no chance and loses no memory of a push,
\* or pays for what it forgets.
LEMMA NoNewChance ==
    ASSUME TypeOK, NEW m \in Msgs, NEW d \in Devices, CountedFor(m, d),
           IsFiniteSet(Holders(m)'), IsFiniteSet(At(m, d, "queued")'),
           At(m, d, "sending")' \subseteq At(m, d, "sending"),
           Pushed(m, d)' = Pushed(m, d), Chances(m, d)' <= Chances(m, d),
           slips' \in Nat, slips' >= slips, Told(m, d) => Told(m, d)',
           At(m, d, "accepted")' # At(m, d, "accepted") => slips' > slips
    PROVE  CountedFor(m, d)'
<1>1. /\ Cardinality(At(m, d, "sending")) \in Nat /\ Pushed(m, d) \in Nat
      /\ Cardinality(Holders(m)) \in Nat /\ Cardinality(At(m, d, "queued")) \in Nat
      /\ Visible(m) \in {0, 1} /\ slips \in Nat
  BY CountTypes
<1>2. /\ IsFiniteSet(At(m, d, "sending")')
      /\ Cardinality(At(m, d, "sending")') <= Cardinality(At(m, d, "sending"))
      /\ Cardinality(At(m, d, "sending")') \in Nat
  BY FS_Subset, FS_CardinalityType DEF CountedFor
<1>3. /\ Cardinality(Holders(m)') \in Nat /\ Cardinality(At(m, d, "queued")') \in Nat
      /\ Visible(m)' \in {0, 1}
  BY FS_CardinalityType DEF Visible
<1>4. Chances(m, d) \in Nat /\ Chances(m, d)' \in Nat
  BY <1>1, <1>2, <1>3 DEF Chances
<1>5. /\ Pushed(m, d)' + Cardinality(At(m, d, "sending")') <= 1 + slips'
      /\ Pushed(m, d)' + Chances(m, d)' <= 2 + slips'
  BY <1>1, <1>2, <1>4 DEF CountedFor
<1>6. Told(m, d)' \/ Pushed(m, d)' + Chances(m, d)' <= 1 + slips'
  BY <1>1, <1>4 DEF CountedFor
<1>7. Told(m, d)' \/ At(m, d, "accepted")' # {} \/ Pushed(m, d)' <= slips'
  BY <1>1, <1>4 DEF CountedFor
<1>8. QED
  BY <1>2, <1>5, <1>6, <1>7 DEF CountedFor

\* Memory of a push survives a new marker and a change of release.
LEMMA ToldStands ==
    ASSUME TypeOK, ReleasesShareMarkers, markers \subseteq markers',
           \A w \in Workers : release'[w] \in {release[w], "new"},
           NEW m \in Msgs, NEW d \in Devices, Told(m, d)
    PROVE  Told(m, d)'
<1> SUFFICES ASSUME NEW w \in Workers PROVE AlreadySent(w, m, d)'
  BY DEF Told
<1>1. PICK k \in ConsultedKeys(release[w], m) : <<k, d>> \in markers
  BY DEF Told, AlreadySent
<1>2. k \in ConsultedKeys(release'[w], m)
  <2>1. CASE release'[w] = release[w]
    BY <1>1, <2>1
  <2>2. CASE OldWorkers = {} /\ release'[w] = "new"
    BY <1>1, <2>2 DEF TypeOK, Releases
  <2>3. CASE LegacyKeyFallback /\ release'[w] = "new"
    BY <1>1, <2>3 DEF ConsultedKeys, KeyOn, Key, TypeOK, Releases
  <2>4. QED
    BY <2>1, <2>2, <2>3 DEF ReleasesShareMarkers
<1>3. QED
  BY <1>1, <1>2 DEF AlreadySent

\* The marker a worker writes tells the fleet.
LEMMA MarkTells ==
    ASSUME TypeOK, ReleasesShareMarkers, NEW w \in Workers, NEW m \in Msgs,
           NEW d \in Devices, <<KeyOn(release[w], m), d>> \in markers', release' = release
    PROVE  Told(m, d)'
<1> SUFFICES ASSUME NEW v \in Workers PROVE AlreadySent(v, m, d)'
  BY DEF Told
<1>1. release[v] = release[w] /\ release[w] \in Releases
  BY DEF TypeOK, ReleasesShareMarkers, Releases
<1>2. KeyOn(release[w], m) \in ConsultedKeys(release'[v], m)
  BY <1>1, OwnKeyConsulted
<1>3. QED
  BY <1>2 DEF AlreadySent

\* A coroutine of a live stage is counted where it stands and nowhere else,
\* whether its gather goes on or ends with it.
LEMMA AdvanceMoves ==
    ASSUME TypeOK, NEW g \in Gathers, NEW d \in Devices, NEW stage \in Stages,
           gather[g] # NoGather, Advance(g, d, stage),
           NEW m \in Msgs, NEW e \in Devices,
           NEW live \in {"queued", "sending", "accepted"}
    PROVE  /\ m = gather[g].msg /\ e = d /\ live = stage
                  => At(m, e, live)' = At(m, e, live) \cup {g}
           /\ m = gather[g].msg /\ e = d /\ live # stage
                  => At(m, e, live)' = At(m, e, live) \ {g}
           /\ ~(m = gather[g].msg /\ e = d) => At(m, e, live)' = At(m, e, live)
<1> DEFINE t == [task[g] EXCEPT ![d] = stage]
           state == IF stage = "raised" THEN "abandoned" ELSE gather[g].state
           moved == [gather[g] EXCEPT !.state = state]
<1>1. gather[g] \in Running /\ task[g] \in [Devices -> Stages]
  BY DEF TypeOK
<1>2. t[d] = stage /\ \A x \in Devices : x # d => t[x] = task[g][x]
  BY <1>1
<1>3. live \notin Finished
  BY DEF Finished
<1>4. CASE /\ gather' = [gather EXCEPT ![g] = NoGather]
           /\ task' = [task EXCEPT ![g] = NoTasks]
           /\ \A x \in Devices : t[x] \in Finished
  <2>1. \A h \in Gathers :
            gather'[h] = IF h = g THEN NoGather ELSE gather[h]
    BY <1>4 DEF TypeOK
  <2>2. \A h \in Gathers : h # g => task'[h] = task[h]
    BY <1>4 DEF TypeOK
  <2>3. At(m, e, live)' = At(m, e, live) \ {g}
    BY <2>1, <2>2 DEF At, NoGather
  <2>4. t[d] # live /\ t[e] # live
    BY <1>3, <1>4
  <2>5. stage # live
    BY <1>2, <2>4
  <2>6. e # d => task[g][e] # live
    BY <1>2, <2>4
  <2>7. g \in At(m, e, live) => m = gather[g].msg /\ e = d
    BY <2>6 DEF At
  <2>8. QED
    BY <2>3, <2>5, <2>7
<1>5. CASE gather' = [gather EXCEPT ![g] = moved] /\ task' = [task EXCEPT ![g] = t]
  <2>1. moved # NoGather /\ moved.msg = gather[g].msg
    BY <1>1 DEF Running, NoGather
  <2>2. /\ gather'[g] = moved /\ task'[g] = t
        /\ \A h \in Gathers : h # g => gather'[h] = gather[h] /\ task'[h] = task[h]
    BY <1>5 DEF TypeOK
  <2>3. \A h \in Gathers : h # g => (h \in At(m, e, live)' <=> h \in At(m, e, live))
    BY <2>2 DEF At, NoGather
  <2>4. g \in At(m, e, live)' <=> m = gather[g].msg /\ t[e] = live
    BY <2>1, <2>2 DEF At, NoGather
  <2>5. g \in At(m, e, live) <=> m = gather[g].msg /\ task[g][e] = live
    BY DEF At
  <2>6. At(m, e, live)' \subseteq Gathers /\ At(m, e, live) \subseteq Gathers
    BY DEF At
  <2> HIDE DEF t, moved
  <2>7. CASE m = gather[g].msg /\ e = d
    BY <1>2, <2>3, <2>4, <2>6, <2>7
  <2>8. CASE ~(m = gather[g].msg /\ e = d)
    BY <1>2, <2>3, <2>4, <2>5, <2>6, <2>8
  <2>9. QED
    BY <2>7, <2>8
<1>6. [gather EXCEPT ![g].state = state] = [gather EXCEPT ![g] = moved]
  OBVIOUS
<1>7. QED
  BY <1>4, <1>5, <1>6 DEF Advance

\* A push that arrives is one of the message in hand, for that device.
LEMMA PushCount ==
    ASSUME OneMessageEach, TypeOK, NEW g \in Gathers, NEW d \in Devices,
           gather[g] # NoGather, PushArrives(g, d), NEW m \in Msgs, NEW e \in Devices
    PROVE  Pushed(m, e)' = IF m = gather[g].msg /\ e = d THEN Pushed(m, e) + 1
                                                         ELSE Pushed(m, e)
<1>1. gather[g].msg \in Msgs /\ Subject(g) = Occasion[gather[g].msg]
  BY DEF TypeOK, Running, Subject
<1>2. Subject(g) = Occasion[m] => m = gather[g].msg
  BY <1>1 DEF OneMessageEach
<1>3. Subject(g) \in Occasions /\ Occasion[m] \in Occasions
  BY <1>1, ConstantsAssumption
<1>4. pushes[Subject(g)] \in [Devices -> Nat]
  BY <1>3 DEF TypeOK
<1>5. pushes' = [pushes EXCEPT ![Subject(g)] = [pushes[Subject(g)] EXCEPT ![d] = @ + 1]]
  BY DEF PushArrives
<1>6. QED
  BY <1>1, <1>2, <1>3, <1>4, <1>5 DEF TypeOK, Pushed

LEMMA ReceiveCounts ==
    ASSUME TypeOK, NEW w \in Workers, Poll(w), NEW m \in Msgs, NEW d \in Devices,
           CountedFor(m, d), Told(m, d) => Told(m, d)'
    PROVE  CountedFor(m, d)'
<1>1. PICK S \in SUBSET Msgs : Receive(w, S)
  BY DEF Poll
<1>2. UNCHANGED <<gather, task, pushes, slips>>
  BY <1>1 DEF Receive, runVars, histVars, faultVars
<1>3. /\ \A stage : At(m, d, stage)' = At(m, d, stage)
      /\ Pushed(m, d)' = Pushed(m, d)
  BY <1>2 DEF At, Pushed
<1>4. \A v \in Workers : batch'[v] = IF v = w THEN S ELSE batch[v]
  BY <1>1 DEF Receive, TypeOK
<1>5. w \notin Holders(m) /\ IsFiniteSet(Holders(m))
  BY <1>1 DEF Receive, Holders, CountedFor
<1>6. IsFiniteSet(Holders(m)') /\ Chances(m, d)' = Chances(m, d)
  <2>1. CASE m \in S
    <3>1. Holders(m)' = Holders(m) \cup {w}
      BY <1>4, <2>1 DEF Holders
    <3>2. Visible(m) = 1 /\ Visible(m)' = 0
      BY <1>1, <2>1 DEF Receive, Visible
    <3>3. /\ IsFiniteSet(Holders(m)')
          /\ Cardinality(Holders(m)') = Cardinality(Holders(m)) + 1
      BY <1>5, <3>1, FS_AddElement
    <3>4. QED
      BY <1>3, <3>2, <3>3, CountTypes DEF Chances
  <2>2. CASE m \notin S
    <3>1. Holders(m)' = Holders(m)
      BY <1>4, <1>5, <2>2 DEF Holders
    <3>2. Visible(m)' = Visible(m)
      BY <1>1, <2>2 DEF Receive, Visible
    <3>3. QED
      BY <1>3, <1>5, <3>1, <3>2 DEF Chances
  <2>3. QED
    BY <2>1, <2>2
<1>7. Chances(m, d)' <= Chances(m, d) /\ slips' \in Nat /\ slips' >= slips
  BY <1>2, <1>6, CountTypes DEF Chances
<1>8. QED
  BY <1>3, <1>6, <1>7, NoNewChance DEF CountedFor

\* A worker that looks at a message gives its chance to a gather, or gives it up.
LEMMA ProcessCounts ==
    ASSUME TypeOK, NEW w \in Workers, NEW n \in Msgs, Process(w, n),
           NEW m \in Msgs, NEW d \in Devices, CountedFor(m, d), Told(m, d) => Told(m, d)'
    PROVE  CountedFor(m, d)'
<1>1. Take(w, n) /\ pushes' = pushes /\ slips' = slips
  BY DEF Process, Discard, FailToParse, FetchFails, NobodyToTell, StartGather, Drop,
         DeleteMessage, Healthy, Glitch, histVars, faultVars
<1>2. /\ Pushed(m, d)' = Pushed(m, d)
      /\ slips' \in Nat /\ slips' >= slips
  BY <1>1 DEF Pushed, TypeOK
<1>3. Visible(m)' <= Visible(m)
  <2>1. queue' = queue \/ queue' = [queue EXCEPT ![n] = "deleted"]
    BY DEF Process, Discard, FailToParse, FetchFails, NobodyToTell, StartGather, Drop,
           DeleteMessage
  <2>2. QED
    BY <2>1 DEF Visible, TypeOK
<1>4. Holders(m)' = IF m = n THEN Holders(m) \ {w} ELSE Holders(m)
  BY <1>1 DEF Take, Holders, TypeOK
<1>5. m = n => w \in Holders(m)
  BY <1>1 DEF Take, Holders
<1>6. /\ IsFiniteSet(Holders(m)')
      /\ Cardinality(Holders(m)') = IF m = n THEN Cardinality(Holders(m)) - 1
                                             ELSE Cardinality(Holders(m))
  BY <1>4, <1>5, FS_RemoveElement DEF CountedFor
<1>7. CASE runVars' = runVars
  <2>1. \A stage : At(m, d, stage)' = At(m, d, stage)
    BY <1>7 DEF At, runVars
  <2>2. Chances(m, d)' <= Chances(m, d)
    <3>1. Visible(m)' \in {0, 1}
      BY DEF Visible
    <3>2. QED
      BY <1>3, <1>6, <2>1, <3>1, CountTypes DEF Chances
  <2>3. QED
    BY <1>2, <1>6, <2>1, <2>2, NoNewChance DEF CountedFor
<1>8. ASSUME NEW g \in Gathers, StartGather(w, n, g)
      PROVE  CountedFor(m, d)'
  <2>1. /\ gather[g] = NoGather
        /\ gather'[g] # NoGather /\ gather'[g].msg = n
        /\ task'[g][d] \in {"queued", "none"}
        /\ \A h \in Gathers : h # g => gather'[h] = gather[h] /\ task'[h] = task[h]
    BY <1>8 DEF StartGather, TypeOK, NoGather
  <2>2. \A stage : g \notin At(m, d, stage)
    BY <2>1 DEF At
  <2>3. /\ At(m, d, "sending")' = At(m, d, "sending")
        /\ At(m, d, "accepted")' = At(m, d, "accepted")
        /\ \/ At(m, d, "queued")' = At(m, d, "queued")
           \/ At(m, d, "queued")' = At(m, d, "queued") \cup {g} /\ m = n
    BY <2>1, <2>2 DEF At, NoGather
  <2>4. /\ IsFiniteSet(At(m, d, "queued")')
        /\ Cardinality(At(m, d, "queued")') <= Cardinality(At(m, d, "queued")) + 1
        /\ m # n => Cardinality(At(m, d, "queued")') = Cardinality(At(m, d, "queued"))
        /\ Cardinality(At(m, d, "queued")') \in Nat
    <3> DEFINE Q == At(m, d, "queued")
    <3>1. IsFiniteSet(Q) /\ Cardinality(Q) \in Nat /\ g \notin Q
      BY <2>2, CountTypes DEF CountedFor
    <3>2. Q' = Q \/ (Q' = Q \cup {g} /\ m = n)
      BY <2>3
    <3> HIDE DEF Q
    <3>3. CASE Q' = Q
      BY <3>1, <3>3 DEF Q
    <3>4. CASE Q' = Q \cup {g} /\ m = n
      <4>1. IsFiniteSet(Q \cup {g}) /\ Cardinality(Q \cup {g}) = Cardinality(Q) + 1
        BY <3>1, FS_AddElement
      <4>2. IsFiniteSet(Q') /\ Cardinality(Q') = Cardinality(Q) + 1
        BY <3>4, <4>1, Zenon
      <4>3. QED
        BY <3>1, <3>4, <4>2 DEF Q
    <3>5. QED
      BY <3>2, <3>3, <3>4, Zenon
  <2>5. Chances(m, d)' <= Chances(m, d)
    <3>1. Visible(m)' \in {0, 1}
      BY DEF Visible
    <3>2. QED
      BY <1>3, <1>6, <2>3, <2>4, <3>1, CountTypes DEF Chances
  <2>6. QED
    BY <1>2, <1>6, <2>3, <2>4, <2>5, NoNewChance DEF CountedFor
<1>9. QED
  BY <1>7, <1>8 DEF Process, Discard, FailToParse, FetchFails, NobodyToTell

LEMMA ConcludeCounts ==
    ASSUME TypeOK, NEW g \in Gathers, Conclude(g), NEW m \in Msgs, NEW d \in Devices,
           CountedFor(m, d), Told(m, d) => Told(m, d)'
    PROVE  CountedFor(m, d)'
<1>1. gather[g] # NoGather /\ gather[g].msg \in Msgs
  BY DEF Conclude, NoGather, TypeOK, Running
<1>2. /\ queue' = queue \/ queue' = [queue EXCEPT ![gather[g].msg] = "deleted"]
      /\ UNCHANGED <<batch, pushes, slips>>
  BY DEF Conclude, DeleteMessage, Healthy, Glitch, histVars, faultVars
<1>3. Visible(m)' \in {0, 1} /\ Visible(m)' <= Visible(m)
  BY <1>1, <1>2 DEF Visible, TypeOK
<1>4. /\ Holders(m)' = Holders(m) /\ Pushed(m, d)' = Pushed(m, d)
      /\ slips' \in Nat /\ slips' >= slips
  BY <1>2 DEF Holders, Pushed, TypeOK
<1>5. ASSUME NEW live \in {"queued", "sending", "accepted"}
      PROVE  At(m, d, live)' = At(m, d, live)
  <2>1. task[g][d] # live
    BY DEF Conclude, Finished
  <2>2. \A h \in Gathers : /\ gather'[h] = IF h = g THEN NoGather ELSE gather[h]
                           /\ h # g => task'[h] = task[h]
    BY DEF Conclude, TypeOK
  <2>3. QED
    BY <2>1, <2>2 DEF At, NoGather
<1>6. Chances(m, d)' <= Chances(m, d)
  BY <1>3, <1>4, <1>5, CountTypes DEF Chances
<1>7. QED
  BY <1>4, <1>5, <1>6, NoNewChance DEF CountedFor

\* A redelivery adds a chance: for free only if nobody has one and no answer of
\* FCM is pending.
LEMMA TimeoutCounts ==
    ASSUME TypeOK, NEW n \in Msgs, VisibilityTimeout(n), NEW m \in Msgs, NEW d \in Devices,
           CountedFor(m, d), Told(m, d) => Told(m, d)'
    PROVE  CountedFor(m, d)'
<1>1. UNCHANGED <<batch, gather, task, pushes>>
  BY DEF VisibilityTimeout, runVars, histVars
<1>2. /\ Holders(m)' = Holders(m) /\ Pushed(m, d)' = Pushed(m, d)
      /\ \A stage : At(m, d, stage)' = At(m, d, stage)
  BY <1>1 DEF Holders, Pushed, At
<1>3. CASE m # n
  <2>1. Visible(m)' = Visible(m)
    BY <1>3 DEF VisibilityTimeout, Visible, TypeOK
  <2>2. slips' \in Nat /\ slips' >= slips
    BY DEF VisibilityTimeout, Slip, Healthy, faultVars, TypeOK
  <2>3. Chances(m, d)' <= Chances(m, d)
    BY <1>2, <2>1, CountTypes DEF Chances
  <2>4. QED
    BY <1>2, <2>2, <2>3, NoNewChance DEF CountedFor
<1>4. CASE m = n
  <2>1. Visible(m) = 0 /\ Visible(m)' = 1
    BY <1>4 DEF VisibilityTimeout, Visible, TypeOK
  <2>2. Chances(m, d)' = Chances(m, d) + 1 /\ Chances(m, d) \in Nat
    BY <1>2, <2>1, CountTypes DEF Chances
  <2>3. CASE InHand(m)
    <3>1. slips' = slips + 1
      BY <1>4, <2>3 DEF VisibilityTimeout, Slip
    <3>2. QED
      BY <1>2, <2>2, <3>1, CountTypes DEF CountedFor
  <2>4. CASE ~InHand(m)
    <3>1. slips' = slips
      BY <1>4, <2>4 DEF VisibilityTimeout, Healthy, faultVars
    <3>2. Holders(m) = {} /\ \A stage : At(m, d, stage) = {}
      BY <2>4 DEF InHand, Holders, At
    <3>3. Chances(m, d) = 0
      BY <2>1, <3>2, FS_EmptySet DEF Chances
    <3>4. Pushed(m, d) <= 1 + slips /\ (Told(m, d) \/ Pushed(m, d) <= slips)
      BY <3>2, FS_EmptySet, CountTypes DEF CountedFor
    <3>5. QED
      BY <1>2, <2>2, <3>1, <3>3, <3>4, CountTypes DEF CountedFor
  <2>5. QED
    BY <2>3, <2>4
<1>5. QED
  BY <1>3, <1>4

\* A restart that loses an answer of FCM is a slip.
LEMMA RestartCounts ==
    ASSUME TypeOK, NEW w \in Workers, Restart(w), NEW m \in Msgs, NEW d \in Devices,
           CountedFor(m, d), Told(m, d) => Told(m, d)'
    PROVE  CountedFor(m, d)'
<1> DEFINE mine == {g \in Gathers : gather[g] # NoGather /\ gather[g].worker = w}
<1>1. /\ queue' = queue /\ pushes' = pushes
      /\ batch' = [batch EXCEPT ![w] = {}]
      /\ \A g \in Gathers : gather'[g] = IF g \in mine THEN NoGather ELSE gather[g]
      /\ \A g \in Gathers : task'[g] = IF g \in mine THEN NoTasks ELSE task[g]
      /\ IF \E g \in mine, e \in Devices : task[g][e] = "accepted" THEN Slip ELSE Glitch
  BY DEF Restart, histVars
<1> HIDE DEF mine
<1>2. Visible(m)' = Visible(m) /\ Pushed(m, d)' = Pushed(m, d)
  BY <1>1 DEF Visible, Pushed
<1>3. slips' \in Nat /\ slips' >= slips
  BY <1>1 DEF Slip, Glitch, TypeOK
<1>4. Holders(m)' \subseteq Holders(m)
  BY <1>1 DEF Holders, TypeOK
<1>5. \A stage : At(m, d, stage)' = At(m, d, stage) \ mine
  BY <1>1 DEF At, NoGather
<1>6. At(m, d, "accepted")' # At(m, d, "accepted") => slips' > slips
  <2>1. SUFFICES ASSUME NEW g \in mine, g \in At(m, d, "accepted")
                 PROVE  slips' > slips
    BY <1>5
  <2>2. slips' = slips + 1
    BY <1>1, <2>1 DEF At, Slip
  <2>3. QED
    BY <2>2 DEF TypeOK
<1>7. /\ IsFiniteSet(Holders(m)') /\ Cardinality(Holders(m)') <= Cardinality(Holders(m))
      /\ Cardinality(Holders(m)') \in Nat
  BY <1>4, FS_Subset, FS_CardinalityType DEF CountedFor
<1>8. /\ IsFiniteSet(At(m, d, "queued")')
      /\ Cardinality(At(m, d, "queued")') <= Cardinality(At(m, d, "queued"))
      /\ Cardinality(At(m, d, "queued")') \in Nat
  BY <1>5, FS_Subset, FS_CardinalityType DEF CountedFor
<1>9. /\ At(m, d, "sending")' \subseteq At(m, d, "sending")
      /\ Cardinality(At(m, d, "sending")') <= Cardinality(At(m, d, "sending"))
      /\ Cardinality(At(m, d, "sending")') \in Nat
  BY <1>5, FS_Subset, FS_CardinalityType DEF CountedFor
<1>10. Chances(m, d)' <= Chances(m, d)
  BY <1>2, <1>7, <1>8, <1>9, CountTypes DEF Chances
<1>11. QED
  BY <1>2, <1>3, <1>6, <1>7, <1>8, <1>9, <1>10, NoNewChance

LEMMA ExpiryCounts ==
    ASSUME TypeOK, NEW mk \in Keys \X Devices, MarkerExpires(mk),
           NEW m \in Msgs, NEW d \in Devices, CountedFor(m, d)
    PROVE  CountedFor(m, d)'
<1>1. UNCHANGED <<queue, batch, gather, task, pushes>> /\ slips' = slips + 1
  BY DEF MarkerExpires, Slip, sqsVars, runVars, histVars
<1>2. /\ Visible(m)' = Visible(m) /\ Holders(m)' = Holders(m)
      /\ Pushed(m, d)' = Pushed(m, d)
      /\ \A stage : At(m, d, stage)' = At(m, d, stage)
  BY <1>1 DEF Visible, Holders, Pushed, At
<1>3. Chances(m, d)' = Chances(m, d) /\ Chances(m, d) \in Nat
  BY <1>2, CountTypes DEF Chances
<1>4. QED
  BY <1>1, <1>2, <1>3, CountTypes DEF CountedFor

\* What every step of a coroutine leaves alone.
LEMMA CoroutineFrame ==
    ASSUME TypeOK, FreeGathersIdle, ReleasesShareMarkers, NEW g \in Gathers,
           NEW e \in Devices, Coroutine(g, e), NEW m \in Msgs, NEW d \in Devices
    PROVE  /\ gather[g] # NoGather
           /\ gather[g].msg \in Msgs
           /\ Holders(m)' = Holders(m)
           /\ Visible(m)' = Visible(m)
           /\ Told(m, d) => Told(m, d)'
           /\ slips' \in Nat /\ slips' >= slips
<1>1. gather[g] # NoGather
  BY CoroutineMoves
<1>2. UNCHANGED <<queue, batch, release>> /\ markers \subseteq markers'
  BY DEF Coroutine, StartSend, CheckFails, FcmAccepts, FcmRefuses, FcmFails, Deactivate,
         MarkSent, sqsVars
<1>3. slips' \in Nat /\ slips' >= slips
  BY DEF Coroutine, StartSend, CheckFails, FcmAccepts, FcmRefuses, FcmFails, Deactivate,
         MarkSent, faultVars, Healthy, Glitch, Slip, TypeOK
<1>4. Holders(m)' = Holders(m) /\ Visible(m)' = Visible(m)
  BY <1>2 DEF Holders, Visible
<1>5. QED
  BY <1>1, <1>2, <1>3, <1>4, ToldStands DEF TypeOK, Running

\* A step of the coroutine for <<m, d>> itself.
LEMMA OwnCoroutineCounts ==
    ASSUME OneMessageEach, ReleasesShareMarkers, TypeOK, FreeGathersIdle,
           NEW g \in Gathers, NEW d \in Devices, Coroutine(g, d),
           NEW m \in Msgs, m = gather[g].msg, CountedFor(m, d)
    PROVE  CountedFor(m, d)'
<1> DEFINE Q == At(m, d, "queued")
           S == At(m, d, "sending")
           A == At(m, d, "accepted")
<1>1. /\ gather[g] # NoGather
      /\ Holders(m)' = Holders(m) /\ Visible(m)' = Visible(m)
      /\ Told(m, d) => Told(m, d)'
      /\ slips' \in Nat /\ slips' >= slips
  BY CoroutineFrame
<1>2. /\ IsFiniteSet(Q) /\ IsFiniteSet(S) /\ IsFiniteSet(Holders(m))
      /\ Cardinality(Q) \in Nat /\ Cardinality(S) \in Nat
      /\ Cardinality(Holders(m)) \in Nat
      /\ Visible(m) \in {0, 1} /\ Pushed(m, d) \in Nat /\ slips \in Nat
  BY CountTypes DEF CountedFor
<1>3. /\ g \in Q <=> task[g][d] = "queued"
      /\ g \in S <=> task[g][d] = "sending"
      /\ g \in A <=> task[g][d] = "accepted"
  BY <1>1 DEF At
<1>4. ASSUME NEW stage \in Stages, Advance(g, d, stage)
      PROVE  /\ Q' = IF stage = "queued" THEN Q \cup {g} ELSE Q \ {g}
             /\ S' = IF stage = "sending" THEN S \cup {g} ELSE S \ {g}
             /\ A' = IF stage = "accepted" THEN A \cup {g} ELSE A \ {g}
  <2>1. \A live \in {"queued", "sending", "accepted"} :
            /\ live = stage => At(m, d, live)' = At(m, d, live) \cup {g}
            /\ live # stage => At(m, d, live)' = At(m, d, live) \ {g}
    BY <1>1, <1>4, AdvanceMoves
  <2>2. QED
    BY <2>1
<1>5. /\ IsFiniteSet(Q \ {g}) /\ Cardinality(Q \ {g}) \in Nat
      /\ Cardinality(Q \ {g}) = IF g \in Q THEN Cardinality(Q) - 1 ELSE Cardinality(Q)
      /\ IsFiniteSet(S \ {g}) /\ Cardinality(S \ {g}) \in Nat
      /\ Cardinality(S \ {g}) = IF g \in S THEN Cardinality(S) - 1 ELSE Cardinality(S)
      /\ IsFiniteSet(S \cup {g}) /\ Cardinality(S \cup {g}) \in Nat
      /\ Cardinality(S \cup {g}) = IF g \in S THEN Cardinality(S) ELSE Cardinality(S) + 1
  BY <1>2, FS_AddElement, FS_RemoveElement, FS_CardinalityType
<1>6. ASSUME NEW stage \in Stages \ {"queued", "sending", "accepted"},
             Advance(g, d, stage), pushes' = pushes, task[g][d] = "accepted" => slips' > slips
      PROVE  CountedFor(m, d)'
  <2>1. Q' = Q \ {g} /\ S' = S \ {g} /\ A' = A \ {g}
    BY <1>4, <1>6
  <2>2. Pushed(m, d)' = Pushed(m, d)
    BY <1>6 DEF Pushed
  <2>3. Chances(m, d)' <= Chances(m, d)
    <3>1. /\ Cardinality(Q') \in Nat /\ Cardinality(Q') <= Cardinality(Q)
          /\ Cardinality(S') \in Nat /\ Cardinality(S') <= Cardinality(S)
      <4>1. /\ Cardinality(Q') = Cardinality(Q \ {g})
            /\ Cardinality(S') = Cardinality(S \ {g})
        BY <2>1, Zenon
      <4>2. QED
        BY <1>2, <1>5, <4>1
    <3>2. QED
      BY <1>1, <1>2, <3>1 DEF Chances
  <2>4. A' # A => slips' > slips
    BY <1>3, <1>6, <2>1
  <2>5. IsFiniteSet(Holders(m)') /\ IsFiniteSet(Q') /\ S' \subseteq S
    BY <1>1, <1>2, <1>5, <2>1
  <2>6. QED
    BY <1>1, <2>2, <2>3, <2>4, <2>5, NoNewChance
<1>7. CASE StartSend(g, d)
  <2>1. CASE Advance(g, d, "done")
    BY <1>3, <1>6, <1>7, <2>1, StageNames DEF StartSend, EnterSemaphore, histVars
  <2>2. CASE Advance(g, d, "sending") /\ ~AlreadySent(gather[g].worker, gather[g].msg, d)
    <3>1. ~Told(m, d)
      BY <1>1, <2>2 DEF Told, TypeOK, Running
    <3>2. /\ Q' = Q \ {g} /\ S' = S \cup {g} /\ A' = A \ {g}
          /\ g \in Q /\ g \notin S /\ g \notin A
      BY <1>3, <1>4, <1>7, <2>2, StageNames DEF StartSend, EnterSemaphore
    <3>3. Pushed(m, d)' = Pushed(m, d) /\ slips' = slips
      BY <1>7 DEF StartSend, Pushed, histVars, faultVars
    <3>4. Pushed(m, d) + Chances(m, d) <= 1 + slips
      BY <3>1 DEF CountedFor
    <3>5. /\ Cardinality(Q') = Cardinality(Q) - 1
          /\ Cardinality(S') = Cardinality(S) + 1
          /\ IsFiniteSet(Q') /\ IsFiniteSet(S')
      <4>1. /\ Cardinality(Q \ {g}) = Cardinality(Q) - 1
            /\ Cardinality(S \cup {g}) = Cardinality(S) + 1
        BY <1>5, <3>2
      <4>2. QED
        BY <1>5, <3>2, <4>1
    <3>6. A' = A
      BY <3>2
    <3>7. Chances(m, d)' = Chances(m, d)
      BY <1>1, <1>2, <3>5 DEF Chances
    <3>8. Chances(m, d) >= 1 + Cardinality(S)
      BY <1>2, <1>5, <3>2 DEF Chances
    <3>9. Pushed(m, d) <= slips \/ A # {}
      BY <3>1 DEF CountedFor
    <3> HIDE DEF Q, S, A
    <3>10. Chances(m, d) \in Nat
      BY <1>2 DEF Chances, Q, S
    <3>11. QED
      BY <1>1, <1>2, <3>3, <3>4, <3>5, <3>7, <3>8, <3>9, <3>10, <3>6
         DEF CountedFor, Q, S, A
  <2>3. QED
    BY <1>7, <2>1, <2>2 DEF StartSend
<1>8. CASE CheckFails(g, d)
  BY <1>3, <1>6, <1>8, StageNames DEF CheckFails, EnterSemaphore, histVars
<1>9. CASE FcmAccepts(g, d)
  <2>1. /\ Q' = Q \ {g} /\ S' = S \ {g} /\ A' = A \cup {g}
        /\ g \notin Q /\ g \in S
    BY <1>3, <1>4, <1>9, StageNames DEF FcmAccepts
  <2>2. Pushed(m, d)' = Pushed(m, d) + 1 /\ slips' = slips
    BY <1>1, <1>9, PushCount DEF FcmAccepts, faultVars
  <2>3. /\ Cardinality(Q') = Cardinality(Q)
        /\ Cardinality(S') = Cardinality(S) - 1
        /\ IsFiniteSet(Q') /\ IsFiniteSet(S') /\ A' # {}
    BY <1>5, <2>1
  <2>4. Chances(m, d)' = Chances(m, d) - 1 /\ Chances(m, d) \in Nat
    BY <1>1, <1>2, <2>3 DEF Chances
  <2>5. QED
    BY <1>1, <1>2, <2>2, <2>3, <2>4 DEF CountedFor
<1>10. CASE FcmRefuses(g, d)
  BY <1>3, <1>6, <1>10, StageNames DEF FcmRefuses
<1>11. CASE FcmFails(g, d)
  <2>1. CASE Glitch /\ UNCHANGED pushes
    BY <1>3, <1>6, <1>11, <2>1, StageNames DEF FcmFails
  <2>2. CASE Slip /\ PushArrives(g, d)
    <3>1. /\ Q' = Q \ {g} /\ S' = S \ {g} /\ A' = A \ {g}
          /\ g \notin Q /\ g \in S /\ g \notin A
      BY <1>3, <1>4, <1>11, StageNames DEF FcmFails
    <3>2. Pushed(m, d)' = Pushed(m, d) + 1 /\ slips' = slips + 1
      BY <1>1, <2>2, PushCount DEF Slip
    <3>3. /\ Cardinality(Q') = Cardinality(Q)
          /\ Cardinality(S') = Cardinality(S) - 1
          /\ IsFiniteSet(Q') /\ IsFiniteSet(S') /\ A' = A
      BY <1>5, <3>1
    <3>4. Chances(m, d)' = Chances(m, d) - 1 /\ Chances(m, d) \in Nat
      BY <1>1, <1>2, <3>3 DEF Chances
    <3>5. QED
      BY <1>1, <1>2, <3>2, <3>3, <3>4 DEF CountedFor
  <2>3. QED
    BY <1>11, <2>1, <2>2 DEF FcmFails
<1>12. CASE Deactivate(g, d)
  BY <1>3, <1>6, <1>12, StageNames DEF Deactivate, histVars
<1>13. CASE MarkSent(g, d)
  <2>1. Advance(g, d, "done") /\ pushes' = pushes /\ release' = release
    BY <1>13 DEF MarkSent, histVars
  <2>2. CASE <<KeyOn(release[gather[g].worker], m), d>> \in markers'
    <3>1. Told(m, d)'
      BY <1>1, <2>1, <2>2, MarkTells DEF TypeOK, Running
    <3>2. Q' = Q \ {g} /\ S' = S \ {g}
      BY <1>4, <2>1, StageNames
    <3>3. Pushed(m, d)' = Pushed(m, d)
      BY <2>1 DEF Pushed
    <3>4. /\ IsFiniteSet(Holders(m)') /\ IsFiniteSet(Q') /\ IsFiniteSet(S')
          /\ Cardinality(Q') <= Cardinality(Q) /\ Cardinality(Q') \in Nat
          /\ Cardinality(S') <= Cardinality(S) /\ Cardinality(S') \in Nat
      <4>1. /\ Cardinality(Q') = Cardinality(Q \ {g}) /\ IsFiniteSet(Q')
            /\ Cardinality(S') = Cardinality(S \ {g}) /\ IsFiniteSet(S')
        BY <1>5, <3>2, Zenon
      <4>2. QED
        BY <1>1, <1>2, <1>5, <4>1
    <3>5. /\ Chances(m, d)' <= Chances(m, d)
          /\ Chances(m, d) \in Nat /\ Chances(m, d)' \in Nat
      BY <1>1, <1>2, <3>4 DEF Chances
    <3>6. QED
      BY <1>1, <1>2, <3>1, <3>3, <3>4, <3>5 DEF CountedFor
  <2>3. CASE IF task[g][d] = "accepted" THEN Slip ELSE Glitch
    <3>1. task[g][d] = "accepted" => slips' > slips
      BY <1>2, <2>3 DEF Slip
    <3>2. QED
      BY <1>6, <2>1, <3>1, StageNames
  <2>4. QED
    BY <1>13, <2>2, <2>3 DEF MarkSent
<1>14. QED
  BY <1>7, <1>8, <1>9, <1>10, <1>11, <1>12, <1>13 DEF Coroutine

\* A step of any other coroutine.
LEMMA OtherCoroutineCounts ==
    ASSUME OneMessageEach, ReleasesShareMarkers, TypeOK, FreeGathersIdle,
           NEW g \in Gathers, NEW e \in Devices, Coroutine(g, e),
           NEW m \in Msgs, NEW d \in Devices, CountedFor(m, d),
           ~(m = gather[g].msg /\ d = e)
    PROVE  CountedFor(m, d)'
<1>1. /\ gather[g] # NoGather
      /\ Holders(m)' = Holders(m) /\ Visible(m)' = Visible(m)
      /\ Told(m, d) => Told(m, d)'
      /\ slips' \in Nat /\ slips' >= slips
  BY CoroutineFrame
<1>2. PICK stage \in Stages : Advance(g, e, stage)
  BY StageNames
     DEF Coroutine, StartSend, CheckFails, FcmAccepts, FcmRefuses, FcmFails, Deactivate,
         MarkSent
<1>3. \A live \in {"queued", "sending", "accepted"} : At(m, d, live)' = At(m, d, live)
  BY <1>1, <1>2, AdvanceMoves
<1>4. Pushed(m, d)' = Pushed(m, d)
  <2>1. CASE PushArrives(g, e)
    BY <1>1, <2>1, PushCount
  <2>2. CASE pushes' = pushes
    BY <2>2 DEF Pushed
  <2>3. QED
    BY <2>1, <2>2
       DEF Coroutine, StartSend, CheckFails, FcmAccepts, FcmRefuses, FcmFails, Deactivate,
           MarkSent, histVars
<1>5. Chances(m, d)' <= Chances(m, d)
  BY <1>1, <1>3, CountTypes DEF Chances
<1>6. QED
  BY <1>1, <1>3, <1>4, <1>5, NoNewChance DEF CountedFor

\* Nobody pushes a notification no message asks for.
LEMMA UnaskedStep ==
    ASSUME TypeOK, FreeGathersIdle, [Next]_vars, NEW o \in Occasions,
           \A m \in Msgs : Occasion[m] # o
    PROVE  pushes'[o] = pushes[o] /\ slips' \in Nat /\ slips' >= slips
<1>1. slips' \in Nat /\ slips' >= slips
  BY DEF Next, Poll, Receive, Process, Discard, FailToParse, FetchFails, NobodyToTell,
         StartGather, Drop, DeleteMessage, Coroutine, StartSend, CheckFails, FcmAccepts,
         FcmRefuses, FcmFails, Deactivate, MarkSent, Conclude, VisibilityTimeout, Restart,
         MarkerExpires, vars, faultVars, Healthy, Glitch, Slip, TypeOK
<1>2. ASSUME NEW g \in Gathers, NEW d \in Devices, Coroutine(g, d)
      PROVE  pushes'[o] = pushes[o]
  <2>1. Subject(g) # o
    BY <1>2, CoroutineMoves DEF TypeOK, Running, Subject
  <2>2. CASE PushArrives(g, d)
    BY <2>1, <2>2 DEF PushArrives, TypeOK
  <2>3. QED
    BY <1>2, <2>2
       DEF Coroutine, StartSend, CheckFails, FcmAccepts, FcmRefuses, FcmFails, Deactivate,
           MarkSent, histVars
<1>3. QED
  BY <1>1, <1>2
     DEF Next, Poll, Receive, Process, Discard, FailToParse, FetchFails, NobodyToTell,
         StartGather, Conclude, VisibilityTimeout, Restart, MarkerExpires, vars, histVars

LEMMA InitCounts == Init => CountInv
<1> SUFFICES ASSUME Init PROVE CountInv
  OBVIOUS
<1>1. RepeatsNeedSlips
  BY DEF Init, RepeatsNeedSlips
<1>2. ASSUME NEW m \in Msgs, NEW d \in Devices
      PROVE  CountedFor(m, d)
  <2>1. Holders(m) = {} /\ \A stage : At(m, d, stage) = {}
    BY DEF Init, Holders, At
  <2>2. Visible(m) = 1 /\ Pushed(m, d) = 0 /\ slips = 0
    BY ConstantsAssumption DEF Init, Visible, Pushed
  <2>3. Chances(m, d) = 1
    BY <2>1, <2>2, FS_EmptySet DEF Chances
  <2>4. QED
    BY <2>1, <2>2, <2>3, FS_EmptySet DEF CountedFor
<1>3. QED
  BY <1>1, <1>2 DEF CountInv

LEMMA CountStep ==
    ASSUME OneMessageEach, ReleasesShareMarkers, TypeOK, FreeGathersIdle, TypeOK',
           CountInv, [Next]_vars
    PROVE  CountInv'
<1>1. ASSUME NEW m \in Msgs, NEW d \in Devices
      PROVE  CountedFor(m, d)'
  <2>1. CountedFor(m, d)
    BY DEF CountInv
  <2>2. ASSUME NEW g \in Gathers, NEW e \in Devices, Coroutine(g, e)
        PROVE  CountedFor(m, d)'
    BY <2>1, <2>2, OwnCoroutineCounts, OtherCoroutineCounts
  <2>3. CASE UNCHANGED vars
    BY <2>1, <2>3
       DEF vars, CountedFor, Chances, Visible, Holders, At, Pushed, Told, AlreadySent
  <2>4. ASSUME markers' = markers, \A w \in Workers : release'[w] \in {release[w], "new"}
        PROVE  Told(m, d) => Told(m, d)'
    BY <2>4, ToldStands
  <2>5. ASSUME NEW w \in Workers, Poll(w)
        PROVE  CountedFor(m, d)'
    BY <2>1, <2>4, <2>5, ReceiveCounts DEF Poll, Receive
  <2>6. ASSUME NEW w \in Workers, NEW n \in Msgs, Process(w, n)
        PROVE  CountedFor(m, d)'
    <3>1. markers' = markers /\ release' = release
      BY <2>6 DEF Process, Discard, FailToParse, FetchFails, NobodyToTell, StartGather
    <3>2. QED
      BY <2>1, <2>4, <2>6, <3>1, ProcessCounts
  <2>7. ASSUME NEW g \in Gathers, Conclude(g)
        PROVE  CountedFor(m, d)'
    BY <2>1, <2>4, <2>7, ConcludeCounts DEF Conclude
  <2>8. ASSUME NEW n \in Msgs, VisibilityTimeout(n)
        PROVE  CountedFor(m, d)'
    BY <2>1, <2>4, <2>8, TimeoutCounts DEF VisibilityTimeout
  <2>9. ASSUME NEW w \in Workers, Restart(w)
        PROVE  CountedFor(m, d)'
    <3>1. markers' = markers /\ \A v \in Workers : release'[v] \in {release[v], "new"}
      BY <2>9 DEF Restart, TypeOK
    <3>2. QED
      BY <2>1, <2>4, <2>9, <3>1, RestartCounts
  <2>10. ASSUME NEW mk \in Keys \X Devices, MarkerExpires(mk)
         PROVE  CountedFor(m, d)'
    BY <2>1, <2>10, ExpiryCounts
  <2>11. QED
    BY <2>2, <2>3, <2>5, <2>6, <2>7, <2>8, <2>9, <2>10 DEF Next
<1>2. ASSUME NEW o \in Occasions, NEW d \in Devices
      PROVE  pushes'[o][d] <= 1 + slips'
  <2>1. CASE \E m \in Msgs : Occasion[m] = o
    <3>1. PICK m \in Msgs : Occasion[m] = o
      BY <2>1
    <3>2. CountedFor(m, d)' /\ pushes'[o][d] = Pushed(m, d)'
      BY <1>1, <3>1 DEF Pushed
    <3>3. Cardinality(At(m, d, "sending")') \in Nat
      BY <3>2, FS_CardinalityType DEF CountedFor
    <3>4. pushes'[o][d] \in Nat /\ slips' \in Nat
      BY DEF TypeOK
    <3>5. QED
      BY <3>2, <3>3, <3>4 DEF CountedFor
  <2>2. CASE \A m \in Msgs : Occasion[m] # o
    <3>1. pushes[o][d] \in Nat /\ slips \in Nat /\ pushes[o][d] <= 1 + slips
      BY DEF TypeOK, CountInv, RepeatsNeedSlips
    <3>2. QED
      BY <2>2, <3>1, UnaskedStep
  <2>3. QED
    BY <2>1, <2>2
<1>3. QED
  BY <1>1, <1>2 DEF CountInv, RepeatsNeedSlips

\* A device is pushed a notification again only if a slip pays for it: a lost
\* marker, a lost answer, an overrun visibility timeout or a restart between FCM
\* and Redis.  Redeliveries, retries, abandoned gathers and failed deletes do not.
THEOREM RepeatsAreAccountedFor ==
    ASSUME OneMessageEach, ReleasesShareMarkers
    PROVE  Spec => []RepeatsNeedSlips
<1> DEFINE Counted == TypeOK /\ FreeGathersIdle /\ CountInv
<1>1. Init => Counted
  BY IInvInit, InitCounts DEF IInv
<1>2. Counted /\ [Next]_vars => Counted'
  <2>1. ASSUME Counted, [Next]_vars
        PROVE  TypeOK'
    BY <2>1, PollType, ProcessType, CoroutineType, ConcludeType, EnvironmentType,
       StutterType DEF Next
  <2>2. QED
    BY <2>1, FreeGathersStep, CountStep
<1>3. Counted => RepeatsNeedSlips
  BY DEF CountInv
<1>4. QED
  BY <1>1, <1>2, <1>3, PTL DEF Spec

-----------------------------------------------------------------------------
(* Refinement                                                               *)

LEMMA ContractInit == Init => Contract!Init
BY DEF Init, Contract!Init

\* Each step of the consumer is a step of the contract, or invisible to it.
LEMMA ContractStep ==
    ASSUME IInv, [Next]_vars, SettledBeforeDelete'
    PROVE  [Contract!Next]_(Contract!contractVars)
<1> DEFINE open == {m \in Msgs : queue[m] # "deleted"}
           settled == {md \in Msgs \X Devices : Settled(md[1], md[2])}
<1> USE DEF IInv
<1>1. settled \subseteq settled' /\ settled' \in SUBSET (Msgs \X Devices)
  BY HistoryGrows
<1>2. CASE open' = open /\ dropped' = dropped
  BY <1>1, <1>2 DEF Contract!Next, Contract!Settle
<1>3. ASSUME NEW m \in Msgs, DeleteMessage(m), dropped' = dropped,
             UNCHANGED <<inactive, pushes, refused>>
      PROVE  [Contract!Next]_(Contract!contractVars)
  <2>1. CASE open' = open
    BY <1>2, <1>3, <2>1
  <2>2. CASE queue[m] # "deleted" /\ queue'[m] = "deleted" /\ open' = open \ {m}
    <3>1. settled' = settled
      BY <1>3 DEF Settled, Handled
    <3>2. \A d \in Targets[m] : <<m, d>> \in settled'
      BY <1>3, <2>2, ConstantsAssumption DEF DroppedAreGone, SettledBeforeDelete
    <3>3. Contract!Close(m)
      BY <1>3, <2>2, <3>1, <3>2 DEF Contract!Close
    <3>4. QED
      BY <3>3 DEF Contract!Next
  <2>3. QED
    BY <1>3, <2>1, <2>2 DEF DeleteMessage, TypeOK
<1>4. ASSUME NEW m \in Msgs, Drop(m), UNCHANGED <<inactive, pushes, refused>>
      PROVE  [Contract!Next]_(Contract!contractVars)
  <2>1. CASE queue' = queue
    BY <1>2, <1>4, <2>1 DEF Drop
  <2>2. CASE queue[m] # "deleted" /\ queue' = [queue EXCEPT ![m] = "deleted"]
    <3>1. settled' = settled
      BY <1>4 DEF Settled, Handled
    <3>2. queue' # queue /\ open' = open \ {m} /\ m \in open
      BY <2>2 DEF TypeOK
    <3>3. Contract!Withdraw(m)
      BY <1>4, <3>1, <3>2 DEF Contract!Withdraw, Drop
    <3>4. QED
      BY <3>3 DEF Contract!Next
  <2>3. QED
    BY <1>4, <2>1, <2>2 DEF Drop, DeleteMessage, TypeOK
<1>5. ASSUME NEW g \in Gathers, Conclude(g)
      PROVE  [Contract!Next]_(Contract!contractVars)
  <2>1. gather[g].msg \in Msgs
    BY <1>5 DEF Conclude, NoGather, TypeOK, Running
  <2>2. QED
    BY <1>2, <1>3, <1>5, <2>1 DEF Conclude, histVars
<1>6. ASSUME NEW w \in Workers, NEW m \in Msgs, Process(w, m)
      PROVE  [Contract!Next]_(Contract!contractVars)
  BY <1>2, <1>3, <1>4, <1>6
     DEF Process, Discard, FailToParse, FetchFails, NobodyToTell, StartGather, histVars
<1>7. ASSUME NEW w \in Workers, Poll(w)
      PROVE  open' = open /\ dropped' = dropped
  BY <1>7 DEF Poll, Receive, histVars
<1>8. ASSUME NEW m \in Msgs, VisibilityTimeout(m)
      PROVE  open' = open /\ dropped' = dropped
  BY <1>8 DEF VisibilityTimeout, TypeOK, histVars
<1>9. ASSUME NEW g \in Gathers, NEW d \in Devices, Coroutine(g, d)
      PROVE  open' = open /\ dropped' = dropped
  BY <1>9, CoroutineMoves
<1>10. QED
  BY <1>2, <1>5, <1>6, <1>7, <1>8, <1>9
     DEF Next, Restart, MarkerExpires, vars, sqsVars, histVars

\* The consumer implements the delivery contract: every behaviour of the code,
\* seen through which messages are open and which recipients are settled, is
\* one DeliveryContract allows.
THEOREM Refinement ==
    ASSUME KeysTellOccasions
    PROVE  Spec => ImplementsContract
<1>1. Init => Contract!Init
  BY ContractInit
<1>2. IInv /\ IInv' /\ [Next]_vars => [Contract!Next]_(Contract!contractVars)
  BY ContractStep DEF IInv
<1>3. QED
  BY <1>1, <1>2, Invariance, PTL DEF Spec, Contract!Spec, ImplementsContract
=============================================================================
