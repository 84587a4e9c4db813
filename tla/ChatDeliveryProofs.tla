-------------------------- MODULE ChatDeliveryProofs --------------------------
(***************************************************************************)
(* Proofs about ChatDelivery for any fleet, queues, traffic and number of   *)
(* faults: type correctness, that no recipient is lost, that no message      *)
(* repeats a push without a slip, and the refinement of DeliveryContract.   *)
(***************************************************************************)
EXTENDS ChatDelivery, FiniteSetTheorems, TLAPS

-----------------------------------------------------------------------------
(* The inductive invariant                                                  *)

Live(g) == gather[g] # NoGather

\* A gather tells what its message may announce, and a free one has no tasks.
\* What raises abandons.
GatherInv ==
    \A g \in Gathers :
        IF Live(g)
        THEN /\ gather[g].notice \in Announced(gather[g].msg)
             /\ gather[g].state = "open" => \A d \in Devices : task[g][d] # "raised"
        ELSE task[g] = NoTasks

\* A coroutine past FCM's answer has its device handled, and one that is done
\* has it settled.  Who has no coroutine was no target, or is deactivated.
TaskInv ==
    \A g \in Gathers : Live(g) => \A d \in Devices :
        /\ task[g][d] = "none" => d \notin Targets[gather[g].notice] \/ d \in inactive
        /\ task[g][d] \in {"accepted", "rejected", "deactivated"} =>
              Handled(gather[g].notice, d)
        /\ task[g][d] = "done" => Settled(gather[g].notice, d)

MarkersInv ==
    \A n \in Notices, d \in Devices : <<n, d>> \in markers => Handled(n, d)

IInv == TypeOK /\ GatherInv /\ TaskInv /\ MarkersInv /\ SettledBeforeDelete

-----------------------------------------------------------------------------
(* Frames                                                                   *)

LEMMA NoticeTypes ==
    /\ \A m \in Msgs : Notice[m] \in Notices
    /\ TypeOK => \A m \in Msgs : CurrentNotice(m) \in Notices
    /\ \A n \in Notices : Targets[n] \subseteq Devices
<1>1. Notice \in [Msgs -> Notices] /\ Targets \in [Notices -> SUBSET Devices]
      BY ConstantsAssumption
<1>2. \A n \in DOMAIN Verdict : Verdict[n] \in Notices
      BY ConstantsAssumption
<1>3. TypeOK => \A m \in Msgs : CurrentNotice(m) \in Notices
      BY <1>1, <1>2 DEF CurrentNotice, TypeOK
<1>4. QED BY <1>1, <1>3

\* What is announced stays so when more requests are decided.
LEMMA AnnouncedGrows ==
    ASSUME decided \subseteq decided', NEW m \in Msgs
    PROVE  Announced(m) \subseteq Announced(m)'
BY DEF Announced, CurrentNotice

\* A device that was handled, or settled, is so for good.
LEMMA SettledGrows ==
    ASSUME inactive \subseteq inactive', refused \subseteq refused',
           NEW n \in Notices, NEW d \in Devices,
           \A m \in Msgs : pushes[m][n][d] > 0 => pushes'[m][n][d] > 0
    PROVE  /\ Handled(n, d) => Handled(n, d)'
           /\ Settled(n, d) => Settled(n, d)'
BY DEF Handled, Settled

LEMMA FaultType ==
    ASSUME TypeOK, Healthy \/ Glitch \/ Slip
    PROVE  faults' \in Nat /\ slips' \in Nat
BY DEF TypeOK, Healthy, Glitch, Slip, faultVars

LEMMA LiveFacts ==
    ASSUME TypeOK, NEW g \in Gathers, Live(g)
    PROVE  /\ gather[g] \in Running
           /\ gather[g].msg \in Msgs /\ gather[g].notice \in Notices
           /\ gather[g].worker \in Workers
           /\ gather[g].state \in {"open", "abandoned"}
BY DEF TypeOK, Live, Running

\* Only a gather has coroutines.
LEMMA BusyIsLive ==
    ASSUME IInv, NEW g \in Gathers, NEW d \in Devices, task[g][d] # "none"
    PROVE  Live(g)
BY DEF IInv, GatherInv, NoTasks

\* Messages move, nobody is told anything: deleted may become only what was
\* dropped or is settled.
LEMMA QueueKeeps ==
    ASSUME IInv, UNCHANGED <<gather, task, markers, inactive, pushes, refused>>,
           decided' \subseteq DOMAIN Verdict, decided \subseteq decided',
           queue' \in [Msgs -> {"absent", "unsent", "visible", "inflight", "deleted"}],
           batch' \in [Workers -> SUBSET Msgs],
           dropped' \subseteq Msgs, dropped \subseteq dropped',
           Healthy \/ Glitch \/ Slip,
           \A m \in Msgs : queue'[m] = "deleted" /\ m \notin dropped' =>
               \/ queue[m] = "deleted"
               \/ \E n \in Announced(m) : \A d \in Targets[n] : Settled(n, d)
    PROVE  IInv'
<1>1. TypeOK /\ GatherInv /\ TaskInv /\ MarkersInv /\ SettledBeforeDelete
      BY DEF IInv
<1>2. TypeOK'
      BY <1>1, FaultType DEF TypeOK
<1>3. \A m \in Msgs : Announced(m) \subseteq Announced(m)'
      BY AnnouncedGrows
<1>4. \A n, d : (Settled(n, d)' <=> Settled(n, d)) /\ (Handled(n, d)' <=> Handled(n, d))
      BY DEF Settled, Handled
<1>5. \A g \in Gathers : Live(g)' <=> Live(g)
      BY DEF Live
<1>6. GatherInv'
  <2>1. \A g \in Gathers : Live(g) => gather[g].notice \in Announced(gather[g].msg)'
        BY <1>1, <1>3, LiveFacts DEF GatherInv
  <2>2. QED BY <1>1, <1>5, <2>1 DEF GatherInv
<1>7. TaskInv' /\ MarkersInv'
      BY <1>1, <1>4, <1>5 DEF TaskInv, MarkersInv
<1>8. SettledBeforeDelete'
  <2>1. ASSUME NEW m \in Msgs, queue'[m] = "deleted", m \notin dropped'
        PROVE  \E n \in Announced(m)' : \A d \in Targets[n] : Settled(n, d)'
    <3>1. PICK n \in Announced(m) : \A d \in Targets[n] : Settled(n, d)
          BY <1>1, <2>1 DEF SettledBeforeDelete
    <3>2. QED BY <1>3, <1>4, <3>1
  <2>2. QED BY <2>1 DEF SettledBeforeDelete
<1>9. QED BY <1>2, <1>6, <1>7, <1>8 DEF IInv

\* A delete of a settled message.
LEMMA DeleteEffect ==
    ASSUME TypeOK, NEW m \in Msgs, DeleteMessage(m)
    PROVE  /\ queue' \in [Msgs -> {"absent", "unsent", "visible", "inflight", "deleted"}]
           /\ \A k \in Msgs : queue'[k] = "deleted" => k = m \/ queue[k] = "deleted"
           /\ Healthy \/ Glitch
           /\ queue' = queue => \A k \in Msgs : queue'[k] = queue[k]
BY DEF TypeOK, DeleteMessage

-----------------------------------------------------------------------------
(* Before the gather                                                        *)

LEMMA TakeEffect ==
    ASSUME TypeOK, NEW w \in Workers, NEW m \in Msgs, Take(w, m)
    PROVE  batch' \in [Workers -> SUBSET Msgs]
BY DEF TypeOK, Take

LEMMA DecideKeeps ==
    ASSUME IInv, NEW n \in Notices, Decide(n)
    PROVE  IInv'
<1>1. TypeOK
      BY DEF IInv
<1>2. /\ UNCHANGED <<gather, task, markers, inactive, pushes, refused, batch, dropped>>
      /\ decided' = decided \cup {n} /\ n \in DOMAIN Verdict
      /\ queue' = [m \in Msgs |->
                      IF queue[m] = "unsent" /\ Notice[m] = Verdict[n]
                      THEN "visible" ELSE queue[m]]
      /\ Healthy
      BY DEF Decide, runVars, histVars, Healthy
<1>3. /\ queue' \in [Msgs -> {"absent", "unsent", "visible", "inflight", "deleted"}]
      /\ \A m \in Msgs : queue'[m] = "deleted" => queue[m] = "deleted"
      BY <1>1, <1>2 DEF TypeOK
<1>4. QED BY <1>1, <1>2, <1>3, QueueKeeps DEF TypeOK

LEMMA ReceiveKeeps ==
    ASSUME IInv, NEW w \in Workers, Poll(w)
    PROVE  IInv'
<1>1. TypeOK
      BY DEF IInv
<1>2. PICK c \in Channels : \E S \in SUBSET Visible(c) : Receive(w, c, S)
      BY DEF Poll
<1>3. PICK S \in SUBSET Visible(c) : Receive(w, c, S)
      BY <1>2
<1>4. /\ UNCHANGED <<decided, gather, task, markers, inactive, pushes, refused, dropped>>
      /\ Healthy
      /\ queue' = [m \in Msgs |-> IF m \in S THEN "inflight" ELSE queue[m]]
      /\ batch' = [batch EXCEPT ![w] = @ \cup S]
      BY <1>3 DEF Receive, runVars, histVars, Healthy
<1>5. S \subseteq Msgs
      BY DEF Visible
<1>6. /\ queue' \in [Msgs -> {"absent", "unsent", "visible", "inflight", "deleted"}]
      /\ batch' \in [Workers -> SUBSET Msgs]
      /\ \A m \in Msgs : queue'[m] = "deleted" => queue[m] = "deleted"
      BY <1>1, <1>4, <1>5 DEF TypeOK
<1>7. QED BY <1>1, <1>4, <1>6, QueueKeeps DEF TypeOK

LEMMA VisibilityTimeoutKeeps ==
    ASSUME IInv, NEW m \in Msgs, VisibilityTimeout(m)
    PROVE  IInv'
<1>1. TypeOK
      BY DEF IInv
<1>2. /\ UNCHANGED <<decided, batch, gather, task, markers, inactive, pushes, refused,
                     dropped>>
      /\ Healthy \/ Slip
      /\ queue' = [queue EXCEPT ![m] = "visible"]
      BY DEF VisibilityTimeout, runVars, histVars
<1>3. /\ queue' \in [Msgs -> {"absent", "unsent", "visible", "inflight", "deleted"}]
      /\ \A k \in Msgs : queue'[k] = "deleted" => queue[k] = "deleted"
      BY <1>1, <1>2 DEF TypeOK
<1>4. QED BY <1>1, <1>2, <1>3, QueueKeeps DEF TypeOK

LEMMA DiscardKeeps ==
    ASSUME IInv, NEW w \in Workers, NEW m \in Msgs, Discard(w, m)
    PROVE  IInv'
<1>1. TypeOK /\ batch' \in [Workers -> SUBSET Msgs]
      BY TakeEffect DEF IInv, Discard
<1>2. /\ UNCHANGED <<decided, gather, task, markers, inactive, pushes, refused>>
      /\ DeleteMessage(m)
      /\ dropped' = IF queue' # queue THEN dropped \cup {m} ELSE dropped
      BY DEF Discard, runVars
<1>3. /\ queue' \in [Msgs -> {"absent", "unsent", "visible", "inflight", "deleted"}]
      /\ \A k \in Msgs : queue'[k] = "deleted" => k = m \/ queue[k] = "deleted"
      /\ Healthy \/ Glitch
      BY <1>1, <1>2, DeleteEffect
<1>4. dropped \subseteq dropped' /\ dropped' \subseteq Msgs
      BY <1>1, <1>2 DEF TypeOK
<1>5. \A k \in Msgs : queue'[k] = "deleted" /\ k \notin dropped' => queue[k] = "deleted"
  <2>1. CASE queue' = queue
        BY <2>1
  <2>2. CASE queue' # queue
        BY <1>2, <1>3, <2>2
  <2>3. QED BY <2>1, <2>2
<1>6. QED BY <1>1, <1>2, <1>3, <1>4, <1>5, QueueKeeps DEF TypeOK

\* The message stays.
LEMMA LeftKeeps ==
    ASSUME IInv, NEW w \in Workers, NEW m \in Msgs, FailToParse(w, m) \/ FetchFails(w, m)
    PROVE  IInv'
<1>1. TypeOK /\ batch' \in [Workers -> SUBSET Msgs]
      BY TakeEffect DEF IInv, FailToParse, FetchFails
<1>2. /\ UNCHANGED <<decided, queue, gather, task, markers, inactive, pushes, refused,
                     dropped>>
      /\ Healthy \/ Glitch
      BY DEF FailToParse, FetchFails, runVars, histVars, Healthy
<1>3. QED BY <1>1, <1>2, QueueKeeps DEF TypeOK

\* Everybody whom the backend would name is deactivated.
LEMMA NobodyKeeps ==
    ASSUME IInv, NEW w \in Workers, NEW m \in Msgs, NobodyToTell(w, m)
    PROVE  IInv'
<1>1. TypeOK /\ batch' \in [Workers -> SUBSET Msgs]
      BY TakeEffect DEF IInv, NobodyToTell
<1>2. /\ UNCHANGED <<decided, gather, task, markers, inactive, pushes, refused, dropped>>
      /\ DeleteMessage(m) /\ FetchedTargets(m) = {}
      BY DEF NobodyToTell, runVars, histVars
<1>3. /\ queue' \in [Msgs -> {"absent", "unsent", "visible", "inflight", "deleted"}]
      /\ \A k \in Msgs : queue'[k] = "deleted" => k = m \/ queue[k] = "deleted"
      /\ Healthy \/ Glitch
      BY <1>1, <1>2, DeleteEffect
<1>4. \E n \in Announced(m) : \A d \in Targets[n] : Settled(n, d)
  <2>1. CurrentNotice(m) \in Announced(m)
        BY DEF Announced
  <2>2. \A d \in Targets[CurrentNotice(m)] : Settled(CurrentNotice(m), d)
        BY <1>2 DEF FetchedTargets, Settled
  <2>3. QED BY <2>1, <2>2
<1>5. QED BY <1>1, <1>2, <1>3, <1>4, QueueKeeps DEF TypeOK

LEMMA StartKeeps ==
    ASSUME IInv, NEW w \in Workers, NEW m \in Msgs, NEW g \in Gathers,
           StartGather(w, m, g)
    PROVE  IInv'
<1> DEFINE r == [state |-> "open", worker |-> w, msg |-> m, notice |-> CurrentNotice(m)]
           t == [d \in Devices |-> IF d \in FetchedTargets(m) THEN "queued" ELSE "none"]
<1>1. TypeOK /\ GatherInv /\ TaskInv /\ MarkersInv /\ SettledBeforeDelete
      BY DEF IInv
<1>2. /\ UNCHANGED <<decided, queue, markers, inactive, pushes, refused, dropped,
                     faults, slips>>
      /\ gather' = [gather EXCEPT ![g] = r] /\ task' = [task EXCEPT ![g] = t]
      /\ batch' \in [Workers -> SUBSET Msgs]
      BY <1>1, TakeEffect DEF StartGather, histVars, faultVars
<1>3. r \in Running /\ r # NoGather
      BY <1>1, NoticeTypes DEF Running, NoGather
<1>4. t \in [Devices -> Stages]
      BY DEF Stages, Finished
<1>5. /\ r.state = "open" /\ r.msg = m /\ r.notice = CurrentNotice(m)
      /\ \A d \in Devices : t[d] # "none" => t[d] = "queued"
      /\ \A d \in Devices :
            t[d] = "none" => d \notin Targets[CurrentNotice(m)] \/ d \in inactive
      BY DEF FetchedTargets
<1> HIDE DEF r, t
<1>6. /\ gather'[g] = r /\ task'[g] = t
      /\ \A h \in Gathers \ {g} : gather'[h] = gather[h] /\ task'[h] = task[h]
      BY <1>1, <1>2 DEF TypeOK
<1>7. TypeOK'
      BY <1>1, <1>2, <1>3, <1>4 DEF TypeOK
<1>8. Live(g)' /\ \A h \in Gathers \ {g} : Live(h)' <=> Live(h)
      BY <1>3, <1>6 DEF Live
<1>9. /\ \A k : Announced(k)' = Announced(k)
      /\ \A n, d : (Settled(n, d)' <=> Settled(n, d)) /\ (Handled(n, d)' <=> Handled(n, d))
      BY <1>2 DEF Announced, CurrentNotice, Settled, Handled
<1>10. GatherInv'
  <2>1. r.notice \in Announced(m)
        BY <1>5 DEF Announced
  <2>2. \A d \in Devices : t[d] # "raised"
        BY <1>5
  <2>3. QED BY <1>1, <1>5, <1>6, <1>8, <1>9, <2>1, <2>2 DEF GatherInv
<1>11. TaskInv'
      BY <1>1, <1>2, <1>5, <1>6, <1>8, <1>9 DEF TaskInv
<1>12. MarkersInv' /\ SettledBeforeDelete'
      BY <1>1, <1>2, <1>9 DEF MarkersInv, SettledBeforeDelete
<1>13. QED BY <1>7, <1>10, <1>11, <1>12 DEF IInv

-----------------------------------------------------------------------------
(* The coroutines                                                           *)

\* The coroutine of d goes on, and if it was the last of an abandoned gather,
\* the gather is gone.
LEMMA AdvanceEffect ==
    ASSUME IInv, NEW g \in Gathers, NEW d \in Devices, Live(g),
           NEW stage \in Stages, Advance(g, d, stage)
    PROVE  /\ gather' \in [Gathers -> {NoGather} \cup Running]
           /\ task' \in [Gathers -> [Devices -> Stages]]
           /\ \A h \in Gathers \ {g} : gather'[h] = gather[h] /\ task'[h] = task[h]
           /\ Live(g)' => /\ gather'[g].msg = gather[g].msg
                          /\ gather'[g].notice = gather[g].notice
                          /\ gather'[g].state = "open" =>
                                gather[g].state = "open" /\ stage # "raised"
                          /\ task'[g][d] = stage
                          /\ \A e \in Devices \ {d} : task'[g][e] = task[g][e]
           /\ ~Live(g)' => task'[g] = NoTasks
<1> DEFINE t     == [task[g] EXCEPT ![d] = stage]
           state == IF stage = "raised" THEN "abandoned" ELSE gather[g].state
           r     == [gather[g] EXCEPT !.state = state]
<1>1. TypeOK /\ gather[g] \in Running
      BY LiveFacts DEF IInv
<1>2. CASE gather' = [gather EXCEPT ![g] = NoGather] /\ task' = [task EXCEPT ![g] = NoTasks]
  <2>1. NoTasks \in [Devices -> Stages]
        BY DEF NoTasks, Stages, Finished
  <2>2. QED BY <1>1, <1>2, <2>1 DEF TypeOK, Live
<1>3. CASE gather' = [gather EXCEPT ![g].state = state] /\ task' = [task EXCEPT ![g] = t]
  <2>1. /\ r \in Running /\ r # NoGather
        /\ r.msg = gather[g].msg /\ r.notice = gather[g].notice
        /\ r.state = "open" => gather[g].state = "open" /\ stage # "raised"
        BY <1>1 DEF Running, NoGather
  <2>2. /\ t \in [Devices -> Stages] /\ t[d] = stage
        /\ \A e \in Devices \ {d} : t[e] = task[g][e]
        BY <1>1 DEF TypeOK
  <2>3. gather' = [gather EXCEPT ![g] = r]
        BY <1>1, <1>3 DEF TypeOK
  <2> HIDE DEF r, t
  <2>4. QED BY <1>1, <1>3, <2>1, <2>2, <2>3 DEF TypeOK, Live
<1>4. QED BY <1>2, <1>3 DEF Advance

LEMMA CoroutineIsLive ==
    ASSUME IInv, NEW g \in Gathers, NEW d \in Devices, Coroutine(g, d)
    PROVE  Live(g)
<1>1. CASE EnterSemaphore(g, d)
      BY <1>1 DEF EnterSemaphore, Live
<1>2. CASE task[g][d] \in Holding
      BY <1>2, BusyIsLive DEF Holding
<1>3. QED BY <1>1, <1>2 DEF Coroutine, StartSend, CheckFails, FcmAccepts, FcmRefuses,
             FcmFails, Deactivate, MarkSent, MarkFails, Holding

\* One more push of m tells n to d.
LEMMA OnePushMore ==
    ASSUME pushes \in [Msgs -> [Notices -> [Devices -> Nat]]],
           NEW m \in Msgs, NEW n \in Notices, NEW d \in Devices,
           pushes' = [pushes EXCEPT ![m][n][d] = @ + 1]
    PROVE  /\ pushes' \in [Msgs -> [Notices -> [Devices -> Nat]]]
           /\ \A j \in Msgs, k \in Notices, e \in Devices :
                 pushes'[j][k][e] = IF j = m /\ k = n /\ e = d THEN pushes[j][k][e] + 1
                                                              ELSE pushes[j][k][e]
           /\ pushes'[m][n][d] > 0
           /\ \A j \in Msgs, k \in Notices, e \in Devices :
                 pushes[j][k][e] > 0 => pushes'[j][k][e] > 0
<1> DEFINE q == [pushes[m][n] EXCEPT ![d] = @ + 1]
           p == [pushes[m] EXCEPT ![n] = q]
<1>1. /\ pushes[m] \in [Notices -> [Devices -> Nat]] /\ pushes[m][n] \in [Devices -> Nat]
      /\ \A j \in Msgs, k \in Notices, e \in Devices : pushes[j][k][e] \in Nat
      OBVIOUS
<1>2. /\ q \in [Devices -> Nat]
      /\ \A e \in Devices : q[e] = IF e = d THEN pushes[m][n][e] + 1 ELSE pushes[m][n][e]
      BY <1>1
<1>3. pushes' = [pushes EXCEPT ![m] = p]
      OBVIOUS
<1> HIDE DEF q
<1>4. /\ p \in [Notices -> [Devices -> Nat]]
      /\ \A k \in Notices : p[k] = IF k = n THEN q ELSE pushes[m][k]
      BY <1>1, <1>2
<1> HIDE DEF p
<1>5. /\ pushes' \in [Msgs -> [Notices -> [Devices -> Nat]]]
      /\ \A j \in Msgs : pushes'[j] = IF j = m THEN p ELSE pushes[j]
      BY <1>3, <1>4
<1>6. \A j \in Msgs, k \in Notices, e \in Devices :
         pushes'[j][k][e] = IF j = m /\ k = n /\ e = d THEN pushes[j][k][e] + 1
                                                      ELSE pushes[j][k][e]
      BY <1>2, <1>4, <1>5
<1>7. QED BY <1>1, <1>5, <1>6

\* A coroutine's step keeps what is settled, and has d handled or settled where
\* its new stage says so.
LEMMA CoroutineStep ==
    ASSUME IInv, NEW g \in Gathers, NEW d \in Devices, NEW n \in Notices,
           NEW stage \in Stages \ {"none"}, Live(g), gather[g].notice = n,
           Advance(g, d, stage),
           UNCHANGED <<decided, queue, batch, dropped>>,
           Healthy \/ Glitch \/ Slip,
           inactive \subseteq inactive', inactive' \subseteq Devices,
           refused \subseteq refused', refused' \subseteq Notices \X Devices,
           pushes' \in [Msgs -> [Notices -> [Devices -> Nat]]],
           \A m \in Msgs, k \in Notices, e \in Devices :
               pushes[m][k][e] > 0 => pushes'[m][k][e] > 0,
           markers' \subseteq Notices \X Devices,
           \A k \in Notices, e \in Devices :
               <<k, e>> \in markers' => <<k, e>> \in markers \/ Handled(k, e)',
           stage \in {"accepted", "rejected", "deactivated"} => Handled(n, d)',
           stage = "done" => Settled(n, d)'
    PROVE  IInv'
<1>1. TypeOK /\ GatherInv /\ TaskInv /\ MarkersInv /\ SettledBeforeDelete
      BY DEF IInv
<1>2. /\ gather' \in [Gathers -> {NoGather} \cup Running]
      /\ task' \in [Gathers -> [Devices -> Stages]]
      /\ \A h \in Gathers \ {g} : gather'[h] = gather[h] /\ task'[h] = task[h]
      /\ Live(g)' => /\ gather'[g].msg = gather[g].msg
                     /\ gather'[g].notice = n
                     /\ gather'[g].state = "open" =>
                           gather[g].state = "open" /\ stage # "raised"
                     /\ task'[g][d] = stage
                     /\ \A e \in Devices \ {d} : task'[g][e] = task[g][e]
      /\ ~Live(g)' => task'[g] = NoTasks
      BY AdvanceEffect
<1>3. \A k \in Notices, e \in Devices :
         (Handled(k, e) => Handled(k, e)') /\ (Settled(k, e) => Settled(k, e)')
      BY SettledGrows
<1>4. \A h \in Gathers \ {g} : Live(h)' <=> Live(h)
      BY <1>2 DEF Live
<1>5. \A k : Announced(k)' = Announced(k)
      BY DEF Announced, CurrentNotice
<1>6. TypeOK'
      BY <1>1, <1>2, FaultType DEF TypeOK
<1>7. GatherInv'
  <2>1. PICK m \in Msgs : gather[g].msg = m
        BY <1>1, LiveFacts
  <2>2. ASSUME Live(g)'
        PROVE  /\ gather'[g].notice = n /\ gather'[g].msg = m /\ n \in Announced(m)'
               /\ gather'[g].state = "open" => \A e \in Devices : task'[g][e] # "raised"
        BY <1>1, <1>2, <1>5, <2>1, <2>2 DEF GatherInv
  <2>3. QED BY <1>1, <1>2, <1>4, <1>5, <2>2 DEF GatherInv
<1>8. TaskInv'
  <2>1. ASSUME NEW h \in Gathers, Live(h)', NEW e \in Devices
        PROVE  /\ task'[h][e] = "none" =>
                     e \notin Targets[gather'[h].notice] \/ e \in inactive'
               /\ task'[h][e] \in {"accepted", "rejected", "deactivated"} =>
                     Handled(gather[h].notice, e)'
               /\ task'[h][e] = "done" => Settled(gather[h].notice, e)'
    <3>1. CASE h = g
      <4>1. CASE e = d
            BY <1>2, <2>1, <3>1, <4>1 DEF Handled, Settled
      <4>2. CASE e # d
        <5>1. task'[g][e] = task[g][e] /\ gather'[g].notice = n
              BY <1>2, <2>1, <3>1, <4>2
        <5>2. /\ task[g][e] = "none" => e \notin Targets[n] \/ e \in inactive
              /\ task[g][e] \in {"accepted", "rejected", "deactivated"} => Handled(n, e)
              /\ task[g][e] = "done" => Settled(n, e)
              BY <1>1 DEF TaskInv
        <5>3. QED BY <1>3, <3>1, <5>1, <5>2 DEF Handled, Settled
      <4>3. QED BY <4>1, <4>2
    <3>2. CASE h # g
      <4>1. PICK k \in Notices : gather[h].notice = k
            BY <1>1, <1>4, <2>1, <3>2, LiveFacts
      <4>2. /\ task[h][e] = "none" => e \notin Targets[k] \/ e \in inactive
            /\ task[h][e] \in {"accepted", "rejected", "deactivated"} => Handled(k, e)
            /\ task[h][e] = "done" => Settled(k, e)
            BY <1>1, <1>4, <2>1, <3>2, <4>1 DEF TaskInv
      <4>3. gather'[h].notice = k /\ task'[h][e] = task[h][e]
            BY <1>2, <3>2, <4>1
      <4>4. QED BY <1>3, <4>2, <4>3 DEF Handled, Settled
    <3>3. QED BY <3>1, <3>2
  <2>2. QED BY <2>1 DEF TaskInv
<1>9. MarkersInv'
      BY <1>1, <1>3 DEF MarkersInv
<1>10. SettledBeforeDelete'
  <2>1. ASSUME NEW m \in Msgs, queue[m] = "deleted", m \notin dropped
        PROVE  \E k \in Announced(m) : \A e \in Targets[k] : Settled(k, e)'
    <3>1. PICK k \in Announced(m) : \A e \in Targets[k] : Settled(k, e)
          BY <1>1, <2>1 DEF SettledBeforeDelete
    <3>2. k \in Notices /\ Targets[k] \subseteq Devices
          BY <1>1, NoticeTypes DEF Announced
    <3>3. QED BY <1>3, <3>1, <3>2
  <2>2. QED BY <1>5, <2>1 DEF SettledBeforeDelete
<1>11. QED BY <1>6, <1>7, <1>8, <1>9, <1>10 DEF IInv

\* One device's step, at a notice that does not change with it.
LEMMA CoroutineKeeps ==
    ASSUME IInv, NEW g \in Gathers, NEW d \in Devices, Coroutine(g, d)
    PROVE  IInv'
<1>1. TypeOK /\ TaskInv /\ MarkersInv
      BY DEF IInv
<1>2. Live(g)
      BY CoroutineIsLive
<1>3. PICK m \in Msgs, n \in Notices : gather[g].msg = m /\ gather[g].notice = n
      BY <1>1, <1>2, LiveFacts
<1>4. /\ pushes \in [Msgs -> [Notices -> [Devices -> Nat]]]
      /\ refused \subseteq Notices \X Devices
      /\ inactive \subseteq Devices /\ markers \subseteq Notices \X Devices
      BY <1>1 DEF TypeOK
<1>5. {"sending", "accepted", "rejected", "deactivated", "done", "transient_failed",
       "raised"} \subseteq Stages \ {"none"}
      BY DEF Stages, Holding, Finished
<1>6. CASE StartSend(g, d)
  <2>1. PICK stage \in {"sending", "done"} :
           /\ Advance(g, d, stage)
           /\ stage = "done" => d \notin Configured \/ <<n, d>> \in markers
        BY <1>3, <1>6 DEF StartSend, AlreadySent, Subject
  <2>2. /\ UNCHANGED <<decided, queue, batch, dropped, markers, inactive, pushes, refused>>
        /\ Healthy
        BY <1>6 DEF StartSend, sqsVars, histVars, Healthy
  <2>3. stage = "done" => Settled(n, d)'
        BY <1>1, <2>1, <2>2 DEF MarkersInv, Settled, Handled
  <2>4. QED BY <1>2, <1>3, <1>4, <1>5, <2>1, <2>2, <2>3, CoroutineStep
<1>7. CASE CheckFails(g, d)
  <2>1. /\ UNCHANGED <<decided, queue, batch, dropped, markers, inactive, pushes, refused>>
        /\ Advance(g, d, "raised") /\ Glitch
        BY <1>7 DEF CheckFails, sqsVars, histVars
  <2>2. QED BY <1>2, <1>3, <1>4, <1>5, <2>1, CoroutineStep
<1>8. CASE FcmAccepts(g, d)
  <2>1. /\ UNCHANGED <<decided, queue, batch, dropped, markers, inactive, refused>>
        /\ Advance(g, d, "accepted") /\ Healthy
        /\ pushes' = [pushes EXCEPT ![m][n][d] = @ + 1]
        BY <1>3, <1>8 DEF FcmAccepts, PushArrives, Subject, sqsVars, Healthy
  <2>2. /\ pushes' \in [Msgs -> [Notices -> [Devices -> Nat]]] /\ pushes'[m][n][d] > 0
        /\ \A j \in Msgs, k \in Notices, e \in Devices :
              pushes[j][k][e] > 0 => pushes'[j][k][e] > 0
        BY <1>4, <2>1, OnePushMore
  <2>3. Handled(n, d)'
        BY <2>2 DEF Handled
  <2>4. QED BY <1>2, <1>3, <1>4, <1>5, <2>1, <2>2, <2>3, CoroutineStep
<1>9. CASE FcmRefuses(g, d)
  <2>1. /\ UNCHANGED <<decided, queue, batch, dropped, markers, inactive, pushes>>
        /\ Advance(g, d, "rejected") /\ Healthy
        /\ refused' = refused \cup {<<n, d>>}
        BY <1>3, <1>9 DEF FcmRefuses, Subject, sqsVars, Healthy
  <2>2. Handled(n, d)'
        BY <2>1 DEF Handled
  <2>3. QED BY <1>2, <1>3, <1>4, <1>5, <2>1, <2>2, CoroutineStep
<1>10. CASE FcmFails(g, d)
  <2>1. /\ UNCHANGED <<decided, queue, batch, dropped, markers, inactive, refused>>
        /\ Advance(g, d, "transient_failed") /\ (Glitch \/ Slip)
        /\ pushes' = pushes \/ pushes' = [pushes EXCEPT ![m][n][d] = @ + 1]
        BY <1>3, <1>10 DEF FcmFails, PushArrives, Subject, sqsVars
  <2>2. /\ pushes' \in [Msgs -> [Notices -> [Devices -> Nat]]]
        /\ \A j \in Msgs, k \in Notices, e \in Devices :
              pushes[j][k][e] > 0 => pushes'[j][k][e] > 0
    <3>1. CASE pushes' = pushes
          BY <1>4, <3>1
    <3>2. CASE pushes' = [pushes EXCEPT ![m][n][d] = @ + 1]
          BY <1>4, <3>2, OnePushMore
    <3>3. QED BY <2>1, <3>1, <3>2
  <2>3. QED BY <1>2, <1>3, <1>4, <1>5, <2>1, <2>2, CoroutineStep
<1>11. CASE Deactivate(g, d)
  <2>1. /\ UNCHANGED <<decided, queue, batch, dropped, markers, pushes, refused>>
        /\ Advance(g, d, "deactivated") /\ (Healthy \/ Glitch)
        /\ inactive' = inactive \cup {d} \/ inactive' = inactive
        /\ task[g][d] = "rejected"
        BY <1>11 DEF Deactivate, sqsVars, histVars
  <2>2. Handled(n, d)'
        BY <1>1, <1>2, <1>3, <2>1 DEF TaskInv, Handled
  <2>3. QED BY <1>2, <1>3, <1>4, <1>5, <2>1, <2>2, CoroutineStep
<1>12. CASE MarkSent(g, d)
  <2>1. /\ UNCHANGED <<decided, queue, batch, dropped, inactive, pushes, refused>>
        /\ Advance(g, d, "done") /\ Healthy
        /\ markers' = markers \cup {<<n, d>>}
        /\ task[g][d] \in {"accepted", "deactivated"}
        BY <1>3, <1>12 DEF MarkSent, Subject, sqsVars, histVars, Healthy
  <2>2. Handled(n, d)' /\ Settled(n, d)'
        BY <1>1, <1>2, <1>3, <2>1 DEF TaskInv, Handled, Settled
  <2>3. \A k \in Notices, e \in Devices :
           <<k, e>> \in markers' => <<k, e>> \in markers \/ Handled(k, e)'
        BY <2>1, <2>2
  <2>4. markers' \subseteq Notices \X Devices
        BY <1>4, <2>1
  <2>5. QED BY <1>2, <1>3, <1>4, <1>5, <2>1, <2>2, <2>3, <2>4, CoroutineStep
<1>13. CASE MarkFails(g, d)
  <2>1. /\ UNCHANGED <<decided, queue, batch, dropped, markers, inactive, pushes, refused>>
        /\ Advance(g, d, "transient_failed") \/ Advance(g, d, "raised")
        /\ Glitch \/ Slip
        BY <1>13 DEF MarkFails, sqsVars, histVars
  <2>2. QED BY <1>2, <1>3, <1>4, <1>5, <2>1, CoroutineStep
<1>14. QED BY <1>6, <1>7, <1>8, <1>9, <1>10, <1>11, <1>12, <1>13 DEF Coroutine

-----------------------------------------------------------------------------
(* The end of a gather                                                      *)

\* Gathers end, and nobody gets unsettled.
LEMMA EndKeeps ==
    ASSUME IInv,
           UNCHANGED <<decided, markers, inactive, pushes, refused, dropped>>,
           gather' \in [Gathers -> {NoGather} \cup Running],
           task' \in [Gathers -> [Devices -> Stages]],
           \A g \in Gathers : \/ gather'[g] = gather[g] /\ task'[g] = task[g]
                              \/ gather'[g] = NoGather /\ task'[g] = NoTasks,
           queue' \in [Msgs -> {"absent", "unsent", "visible", "inflight", "deleted"}],
           batch' \in [Workers -> SUBSET Msgs],
           Healthy \/ Glitch \/ Slip,
           \A m \in Msgs : queue'[m] = "deleted" /\ m \notin dropped =>
               \/ queue[m] = "deleted"
               \/ \E n \in Announced(m) : \A d \in Targets[n] : Settled(n, d)
    PROVE  IInv'
<1>1. TypeOK /\ GatherInv /\ TaskInv /\ MarkersInv /\ SettledBeforeDelete
      BY DEF IInv
<1>2. TypeOK'
      BY <1>1, FaultType DEF TypeOK
<1>3. /\ \A m : Announced(m)' = Announced(m)
      /\ \A n, d : (Settled(n, d)' <=> Settled(n, d)) /\ (Handled(n, d)' <=> Handled(n, d))
      BY DEF Announced, CurrentNotice, Settled, Handled
<1>4. \A g \in Gathers : Live(g)' => Live(g) /\ gather'[g] = gather[g] /\ task'[g] = task[g]
      BY DEF Live
<1>5. GatherInv' /\ TaskInv'
      BY <1>1, <1>3, <1>4 DEF GatherInv, TaskInv, Live
<1>6. MarkersInv' /\ SettledBeforeDelete'
      BY <1>1, <1>3 DEF MarkersInv, SettledBeforeDelete
<1>7. QED BY <1>2, <1>5, <1>6 DEF IInv

LEMMA ConcludeKeeps ==
    ASSUME IInv, NEW g \in Gathers, Conclude(g)
    PROVE  IInv'
<1>1. TypeOK /\ GatherInv /\ TaskInv
      BY DEF IInv
<1>2. Live(g) /\ gather[g].state = "open"
      BY DEF Conclude, Live, NoGather
<1>3. PICK m \in Msgs, n \in Notices : gather[g].msg = m /\ gather[g].notice = n
      BY <1>1, <1>2, LiveFacts
<1>4. NoTasks \in [Devices -> Stages]
      BY DEF NoTasks, Stages, Finished
<1>5. /\ UNCHANGED <<decided, batch, markers, inactive, pushes, refused, dropped>>
      /\ gather' \in [Gathers -> {NoGather} \cup Running]
      /\ task' \in [Gathers -> [Devices -> Stages]]
      /\ \A h \in Gathers : \/ gather'[h] = gather[h] /\ task'[h] = task[h]
                            \/ gather'[h] = NoGather /\ task'[h] = NoTasks
      BY <1>1, <1>4 DEF Conclude, TypeOK, histVars
<1>6. CASE \E d \in Devices : task[g][d] = "transient_failed"
  <2>1. UNCHANGED queue /\ Healthy
        BY <1>6 DEF Conclude, Healthy
  <2>2. QED BY <1>1, <1>5, <2>1, EndKeeps DEF TypeOK
<1>7. CASE \A d \in Devices : task[g][d] # "transient_failed"
  <2>1. DeleteMessage(m)
        BY <1>3, <1>7 DEF Conclude
  <2>2. \A d \in Targets[n] : Settled(n, d)
    <3>1. ASSUME NEW d \in Devices, d \in Targets[n]
          PROVE  Settled(n, d)
      <4>1. task[g][d] \in {"none", "done"}
            BY <1>1, <1>2, <1>7 DEF Conclude, Finished, GatherInv
      <4>2. QED BY <1>1, <1>2, <1>3, <3>1, <4>1 DEF TaskInv, Settled
    <3>2. QED BY <3>1, NoticeTypes
  <2>3. n \in Announced(m)
        BY <1>1, <1>2, <1>3 DEF GatherInv
  <2>4. /\ queue' \in [Msgs -> {"absent", "unsent", "visible", "inflight", "deleted"}]
        /\ \A k \in Msgs : queue'[k] = "deleted" => k = m \/ queue[k] = "deleted"
        /\ Healthy \/ Glitch
        BY <1>1, <2>1, DeleteEffect
  <2>5. \A k \in Msgs : queue'[k] = "deleted" =>
            \/ queue[k] = "deleted"
            \/ \E l \in Announced(k) : \A d \in Targets[l] : Settled(l, d)
        BY <2>2, <2>3, <2>4
  <2>6. QED BY <1>1, <1>5, <2>4, <2>5, EndKeeps DEF TypeOK
<1>8. QED BY <1>6, <1>7

LEMMA RestartKeeps ==
    ASSUME IInv, NEW w \in Workers, Restart(w)
    PROVE  IInv'
<1> DEFINE mine == {g \in Gathers : gather[g] # NoGather /\ gather[g].worker = w}
<1>1. TypeOK
      BY DEF IInv
<1>2. NoTasks \in [Devices -> Stages]
      BY DEF NoTasks, Stages, Finished
<1>3. /\ UNCHANGED <<decided, queue, markers, inactive, pushes, refused, dropped>>
      /\ gather' = [g \in Gathers |-> IF g \in mine THEN NoGather ELSE gather[g]]
      /\ task' = [g \in Gathers |-> IF g \in mine THEN NoTasks ELSE task[g]]
      /\ batch' = [batch EXCEPT ![w] = {}]
      /\ Healthy \/ Glitch \/ Slip
      BY DEF Restart, histVars
<1> HIDE DEF mine
<1>4. /\ gather' \in [Gathers -> {NoGather} \cup Running]
      /\ task' \in [Gathers -> [Devices -> Stages]]
      /\ batch' \in [Workers -> SUBSET Msgs]
      /\ \A g \in Gathers : \/ gather'[g] = gather[g] /\ task'[g] = task[g]
                            \/ gather'[g] = NoGather /\ task'[g] = NoTasks
      BY <1>1, <1>2, <1>3 DEF TypeOK
<1>5. QED BY <1>1, <1>3, <1>4, EndKeeps DEF TypeOK

LEMMA MarkerExpiresKeeps ==
    ASSUME IInv, NEW mk \in Notices \X Devices, MarkerExpires(mk)
    PROVE  IInv'
<1>1. TypeOK /\ GatherInv /\ TaskInv /\ MarkersInv /\ SettledBeforeDelete
      BY DEF IInv
<1>2. /\ UNCHANGED <<decided, queue, batch, gather, task, inactive, pushes, refused,
                     dropped>>
      /\ markers' \subseteq markers /\ Slip
      BY DEF MarkerExpires, sqsVars, runVars, histVars
<1>3. TypeOK'
      BY <1>1, <1>2, FaultType DEF TypeOK
<1>4. /\ \A m : Announced(m)' = Announced(m)
      /\ \A n, d : (Settled(n, d)' <=> Settled(n, d)) /\ (Handled(n, d)' <=> Handled(n, d))
      /\ \A g : Live(g)' <=> Live(g)
      BY <1>2 DEF Announced, CurrentNotice, Settled, Handled, Live
<1>5. GatherInv' /\ TaskInv'
      BY <1>1, <1>2, <1>4 DEF GatherInv, TaskInv
<1>6. MarkersInv' /\ SettledBeforeDelete'
      BY <1>1, <1>2, <1>4 DEF MarkersInv, SettledBeforeDelete
<1>7. QED BY <1>3, <1>5, <1>6 DEF IInv

-----------------------------------------------------------------------------
(* The specification                                                        *)

LEMMA InitHolds == ASSUME Init PROVE IInv
<1>1. PICK T \in Traffics :
         queue = [m \in Msgs |->
                    CASE m \notin T -> "absent"
                      [] m \in T /\ \E n \in DOMAIN Verdict : Verdict[n] = Notice[m]
                            -> "unsent"
                      [] OTHER -> "visible"]
      BY DEF Init
<1>2. \A m \in Msgs : queue[m] \in {"absent", "unsent", "visible"}
      BY <1>1
<1>3. queue \in [Msgs -> {"absent", "unsent", "visible", "inflight", "deleted"}]
      BY <1>1
<1>4. NoTasks \in [Devices -> Stages] /\ {} \subseteq DOMAIN Verdict
      BY DEF NoTasks, Stages, Finished
<1>5. TypeOK
      BY <1>3, <1>4 DEF Init, TypeOK
<1>6. GatherInv /\ TaskInv /\ MarkersInv
      BY DEF Init, GatherInv, TaskInv, MarkersInv, Live
<1>7. SettledBeforeDelete
      BY <1>2 DEF SettledBeforeDelete
<1>8. QED BY <1>5, <1>6, <1>7 DEF IInv

LEMMA StepKeeps == ASSUME IInv, [Next]_vars PROVE IInv'
<1>1. ASSUME NEW w \in Workers, NEW m \in Msgs, Process(w, m)
      PROVE  IInv'
      BY <1>1, DiscardKeeps, LeftKeeps, NobodyKeeps, StartKeeps DEF Process
<1>2. CASE UNCHANGED vars
  <2>1. TypeOK /\ UNCHANGED <<decided, queue, batch, gather, task, markers, inactive,
                              pushes, refused, dropped>> /\ Healthy
        BY <1>2 DEF IInv, vars, faultVars, Healthy
  <2>2. QED BY <2>1, QueueKeeps DEF TypeOK
<1>3. QED BY <1>1, <1>2, DecideKeeps, ReceiveKeeps, RestartKeeps, CoroutineKeeps,
             ConcludeKeeps, VisibilityTimeoutKeeps, MarkerExpiresKeeps DEF Next

\* The invariant that does induct: IInv, of which the others are parts.
THEOREM InvariantHolds == Spec => []IInv
BY InitHolds, StepKeeps, PTL DEF Spec

\* The state of these consumers is well-typed: gathers are of received messages
\* and notices there are, coroutines in a stage of _send_to_device.
THEOREM TypeCorrect == Spec => []TypeOK
<1>1. IInv => TypeOK
      BY DEF IInv
<1>2. QED BY <1>1, InvariantHolds, PTL

\* A message leaves its queue only when one audience it may announce is settled
\* or nothing was to be delivered (process_chat_notification_message and its siblings),
\* whatever the copies, decisions, crashes and failures.
THEOREM NoRecipientLost == Spec => []SettledBeforeDelete
<1>1. IInv => SettledBeforeDelete
      BY DEF IInv
<1>2. QED BY <1>1, InvariantHolds, PTL

-----------------------------------------------------------------------------
(* Counting pushes                                                          *)

\* What may still become a push of n to d by m: the message to come from its
\* queue, workers that hold it for a slot, and coroutines that wait or have asked
\* FCM.
Coming(m) == IF queue[m] \in {"unsent", "visible"} THEN 1 ELSE 0
Holders(m) == {w \in Workers : m \in batch[w]}
At(m, n, d, stage) ==
    {g \in Gathers : Live(g) /\ gather[g].msg = m /\ gather[g].notice = n
                             /\ task[g][d] = stage}
Chances(m, n, d) ==
    Coming(m) + Cardinality(Holders(m))
        + Cardinality(At(m, n, d, "queued")) + Cardinality(At(m, n, d, "sending"))

Told(n, d) == <<n, d>> \in markers

\* Slips pay for all pushes of a message but one, those to come included: two
\* while a marker stands between a chance and a push, none while nobody remembers
\* a push.
CountedFor(m, n, d) ==
    /\ IsFiniteSet(Holders(m))
    /\ IsFiniteSet(At(m, n, d, "queued"))
    /\ IsFiniteSet(At(m, n, d, "sending"))
    /\ pushes[m][n][d] + Cardinality(At(m, n, d, "sending")) <= 1 + slips
    /\ pushes[m][n][d] + Chances(m, n, d) <= 2 + slips
    /\ Told(n, d) \/ pushes[m][n][d] + Chances(m, n, d) <= 1 + slips
    /\ Told(n, d) \/ At(m, n, d, "accepted") # {} \/ pushes[m][n][d] <= slips

CountInv == \A m \in Msgs, n \in Notices, d \in Devices : CountedFor(m, n, d)

LEMMA CountTypes ==
    ASSUME TypeOK, NEW m \in Msgs, NEW n \in Notices, NEW d \in Devices,
           CountedFor(m, n, d)
    PROVE  /\ Cardinality(Holders(m)) \in Nat
           /\ Cardinality(At(m, n, d, "queued")) \in Nat
           /\ Cardinality(At(m, n, d, "sending")) \in Nat
           /\ Coming(m) \in {0, 1}
           /\ pushes[m][n][d] \in Nat /\ slips \in Nat
           /\ Chances(m, n, d) \in Nat
<1>1. pushes[m][n][d] \in Nat /\ slips \in Nat
      BY DEF TypeOK
<1>2. /\ Cardinality(Holders(m)) \in Nat
      /\ Cardinality(At(m, n, d, "queued")) \in Nat
      /\ Cardinality(At(m, n, d, "sending")) \in Nat
      BY FS_CardinalityType DEF CountedFor
<1>3. Coming(m) \in {0, 1}
      BY DEF Coming
<1>4. QED BY <1>1, <1>2, <1>3 DEF Chances

\* A step that pushes nothing, adds no chance and loses no memory of a push,
\* or pays for what it forgets.
LEMMA NoNewChance ==
    ASSUME TypeOK, NEW m \in Msgs, NEW n \in Notices, NEW d \in Devices,
           CountedFor(m, n, d),
           IsFiniteSet(Holders(m)'), IsFiniteSet(At(m, n, d, "queued")'),
           At(m, n, d, "sending")' \subseteq At(m, n, d, "sending"),
           pushes'[m][n][d] = pushes[m][n][d], Chances(m, n, d)' <= Chances(m, n, d),
           slips' \in Nat, slips' >= slips, Told(n, d) => Told(n, d)',
           At(m, n, d, "accepted")' # At(m, n, d, "accepted") => slips' > slips
    PROVE  CountedFor(m, n, d)'
<1>1. /\ Cardinality(At(m, n, d, "sending")) \in Nat /\ pushes[m][n][d] \in Nat
      /\ slips \in Nat /\ Chances(m, n, d) \in Nat
      BY CountTypes
<1>2. /\ IsFiniteSet(At(m, n, d, "sending")')
      /\ Cardinality(At(m, n, d, "sending")') <= Cardinality(At(m, n, d, "sending"))
      /\ Cardinality(At(m, n, d, "sending")') \in Nat
      BY FS_Subset, FS_CardinalityType DEF CountedFor
<1>3. /\ Cardinality(Holders(m)') \in Nat /\ Cardinality(At(m, n, d, "queued")') \in Nat
      /\ Coming(m)' \in {0, 1}
      BY FS_CardinalityType DEF Coming
<1>4. Chances(m, n, d)' \in Nat
      BY <1>2, <1>3 DEF Chances
<1>5. /\ pushes'[m][n][d] + Cardinality(At(m, n, d, "sending")') <= 1 + slips'
      /\ pushes'[m][n][d] + Chances(m, n, d)' <= 2 + slips'
      BY <1>1, <1>2, <1>4 DEF CountedFor
<1>6. Told(n, d)' \/ pushes'[m][n][d] + Chances(m, n, d)' <= 1 + slips'
      BY <1>1, <1>4 DEF CountedFor
<1>7. Told(n, d)' \/ At(m, n, d, "accepted")' # {} \/ pushes'[m][n][d] <= slips'
      BY <1>1, <1>4 DEF CountedFor
<1>8. QED BY <1>2, <1>5, <1>6, <1>7 DEF CountedFor

\* A coroutine of a live stage is counted where it stands and nowhere else,
\* whether its gather goes on or ends with it.
LEMMA AdvanceMoves ==
    ASSUME IInv, NEW g \in Gathers, NEW d \in Devices, NEW stage \in Stages,
           Live(g), Advance(g, d, stage),
           NEW m \in Msgs, NEW n \in Notices, NEW e \in Devices,
           NEW live \in {"queued", "sending", "accepted"}
    PROVE  LET own == m = gather[g].msg /\ n = gather[g].notice /\ e = d
           IN  /\ own /\ live = stage
                      => At(m, n, e, live)' = At(m, n, e, live) \cup {g}
               /\ own /\ live # stage
                      => At(m, n, e, live)' = At(m, n, e, live) \ {g}
               /\ ~own => At(m, n, e, live)' = At(m, n, e, live)
<1> DEFINE own == m = gather[g].msg /\ n = gather[g].notice /\ e = d
           t == [task[g] EXCEPT ![d] = stage]
<1>1. /\ \A h \in Gathers \ {g} : gather'[h] = gather[h] /\ task'[h] = task[h]
      /\ Live(g)' => /\ gather'[g].msg = gather[g].msg
                     /\ gather'[g].notice = gather[g].notice
                     /\ task'[g][d] = stage
                     /\ \A x \in Devices \ {d} : task'[g][x] = task[g][x]
      BY AdvanceEffect
<1>2. \A h \in Gathers : h # g => (h \in At(m, n, e, live)' <=> h \in At(m, n, e, live))
      BY <1>1 DEF At, Live
<1>3. At(m, n, e, live)' \subseteq Gathers /\ At(m, n, e, live) \subseteq Gathers
      BY DEF At
<1>4. g \in At(m, n, e, live) <=>
          m = gather[g].msg /\ n = gather[g].notice /\ task[g][e] = live
      BY DEF At
<1>5. CASE Live(g)'
  <2>1. g \in At(m, n, e, live)' <=>
            m = gather[g].msg /\ n = gather[g].notice /\ task'[g][e] = live
        BY <1>1, <1>5 DEF At
  <2>2. CASE own
        BY <1>1, <1>2, <1>3, <1>5, <2>1, <2>2
  <2>3. CASE ~own
        BY <1>1, <1>2, <1>3, <1>4, <1>5, <2>1, <2>3
  <2>4. QED BY <2>2, <2>3
<1>6. CASE ~Live(g)'
  <2>1. \A x \in Devices : t[x] \in Finished
    <3>1. [gather[g] EXCEPT !.state = IF stage = "raised" THEN "abandoned" ELSE @] # NoGather
          BY LiveFacts DEF IInv, Running, NoGather
    <3>2. QED BY <1>6, <3>1 DEF Advance, Live, IInv, TypeOK
  <2>2. live \notin Finished
        BY DEF Finished
  <2>3. task[g] \in [Devices -> Stages]
        BY DEF IInv, TypeOK
  <2>4. stage # live /\ (e # d => task[g][e] # live)
        BY <2>1, <2>2, <2>3
  <2>5. g \notin At(m, n, e, live)'
        BY <1>6 DEF At
  <2>6. QED BY <1>2, <1>3, <1>4, <2>4, <2>5
<1>7. QED BY <1>5, <1>6

\* A message that is taken from the queue is no longer to come.
LEMMA ReceiveCounts ==
    ASSUME TypeOK, NEW w \in Workers, Poll(w),
           NEW m \in Msgs, NEW n \in Notices, NEW d \in Devices, CountedFor(m, n, d)
    PROVE  CountedFor(m, n, d)'
<1>1. PICK c \in Channels, S \in SUBSET Msgs : S \subseteq Visible(c) /\ Receive(w, c, S)
      BY DEF Poll, Visible
<1>2. UNCHANGED <<gather, task, markers, pushes, slips>>
      BY <1>1 DEF Receive, runVars, histVars, faultVars
<1>3. /\ \A stage : At(m, n, d, stage)' = At(m, n, d, stage)
      /\ Told(n, d)' <=> Told(n, d)
      BY <1>2 DEF At, Live, Told
<1>4. \A v \in Workers : batch'[v] = IF v = w THEN batch[w] \cup S ELSE batch[v]
      BY <1>1 DEF Receive, TypeOK
<1>5. IsFiniteSet(Holders(m)') /\ Chances(m, n, d)' = Chances(m, n, d)
  <2>1. CASE m \in S
    <3>1. Coming(m) = 1 /\ Coming(m)' = 0
          BY <1>1, <2>1 DEF Receive, Visible, Coming
    <3>2. w \notin Holders(m)
          BY <1>1, <2>1 DEF Receive, Waiting, Visible, Holders
    <3>3. Holders(m)' = Holders(m) \cup {w}
          BY <1>4, <2>1 DEF Holders
    <3>4. /\ IsFiniteSet(Holders(m)')
          /\ Cardinality(Holders(m)') = Cardinality(Holders(m)) + 1
          BY <3>2, <3>3, FS_AddElement DEF CountedFor
    <3>5. QED BY <1>3, <3>1, <3>4, CountTypes DEF Chances
  <2>2. CASE m \notin S
    <3>1. Coming(m)' = Coming(m)
          BY <1>1, <2>2 DEF Receive, Coming
    <3>2. Holders(m)' = Holders(m)
          BY <1>4, <2>2 DEF Holders
    <3>3. QED BY <1>3, <3>1, <3>2 DEF Chances, CountedFor
  <2>3. QED BY <2>1, <2>2
<1>6. /\ Chances(m, n, d)' <= Chances(m, n, d)
      /\ slips' \in Nat /\ slips' >= slips
      BY <1>2, <1>5, CountTypes
<1>7. QED BY <1>2, <1>3, <1>5, <1>6, NoNewChance DEF CountedFor

\* A handler that starts gives the chance of its message to a gather, or gives it
\* up.
LEMMA ProcessCounts ==
    ASSUME TypeOK, NEW w \in Workers, NEW k \in Msgs, Process(w, k),
           NEW m \in Msgs, NEW n \in Notices, NEW d \in Devices, CountedFor(m, n, d)
    PROVE  CountedFor(m, n, d)'
<1>1. Take(w, k) /\ UNCHANGED <<markers, pushes, slips>>
      BY DEF Process, Discard, FailToParse, FetchFails, NobodyToTell, StartGather,
             DeleteMessage, Healthy, Glitch, histVars, faultVars
<1>2. slips' \in Nat /\ slips' >= slips /\ (Told(n, d)' <=> Told(n, d))
      BY <1>1 DEF TypeOK, Told
<1>3. Coming(m)' \in {0, 1} /\ Coming(m)' <= Coming(m)
  <2>1. queue' = queue \/ queue' = [queue EXCEPT ![k] = "deleted"]
        BY DEF Process, Discard, FailToParse, FetchFails, NobodyToTell, StartGather,
               DeleteMessage
  <2>2. QED BY <2>1 DEF Coming, TypeOK
<1>4. /\ Holders(m)' = IF m = k THEN Holders(m) \ {w} ELSE Holders(m)
      /\ m = k => w \in Holders(m)
      BY <1>1 DEF Take, Holders, TypeOK
<1>5. /\ IsFiniteSet(Holders(m)')
      /\ Cardinality(Holders(m)') = IF m = k THEN Cardinality(Holders(m)) - 1
                                             ELSE Cardinality(Holders(m))
      BY <1>4, FS_RemoveElement DEF CountedFor
<1>6. CASE runVars' = runVars
  <2>1. \A stage : At(m, n, d, stage)' = At(m, n, d, stage)
        BY <1>6 DEF At, Live, runVars
  <2>2. Chances(m, n, d)' <= Chances(m, n, d)
        BY <1>3, <1>5, <2>1, CountTypes DEF Chances
  <2>3. QED BY <1>1, <1>2, <1>5, <2>1, <2>2, NoNewChance DEF CountedFor
<1>7. ASSUME NEW g \in Gathers, StartGather(w, k, g)
      PROVE  CountedFor(m, n, d)'
  <2> DEFINE Q == At(m, n, d, "queued")
  <2>1. /\ ~Live(g) /\ gather'[g].msg = k
        /\ task'[g][d] \in {"queued", "none"}
        /\ \A h \in Gathers : h # g => gather'[h] = gather[h] /\ task'[h] = task[h]
        BY <1>7 DEF StartGather, TypeOK, Live
  <2>2. \A stage : g \notin At(m, n, d, stage)
        BY <2>1 DEF At
  <2>3. /\ At(m, n, d, "sending")' = At(m, n, d, "sending")
        /\ At(m, n, d, "accepted")' = At(m, n, d, "accepted")
        /\ Q' = Q \/ (Q' = Q \cup {g} /\ m = k)
        BY <2>1, <2>2 DEF At, Live
  <2>4. IsFiniteSet(Q) /\ Cardinality(Q) \in Nat /\ g \notin Q
        BY <2>2, CountTypes DEF CountedFor
  <2>5. /\ IsFiniteSet(Q') /\ Cardinality(Q') \in Nat
        /\ Cardinality(Q') <= IF m = k THEN Cardinality(Q) + 1 ELSE Cardinality(Q)
    <3> HIDE DEF Q
    <3>1. CASE Q' = Q
          BY <2>4, <3>1
    <3>2. CASE Q' = Q \cup {g} /\ m = k
      <4>1. IsFiniteSet(Q \cup {g}) /\ Cardinality(Q \cup {g}) = Cardinality(Q) + 1
            BY <2>4, FS_AddElement
      <4>2. IsFiniteSet(Q') /\ Cardinality(Q') = Cardinality(Q) + 1
            BY <3>2, <4>1, Zenon
      <4>3. QED BY <2>4, <3>2, <4>2
    <3>3. QED BY <2>3, <3>1, <3>2, Zenon
  <2>6. Chances(m, n, d)' <= Chances(m, n, d)
        BY <1>3, <1>5, <2>3, <2>5, CountTypes DEF Chances
  <2>7. QED BY <1>1, <1>2, <1>5, <2>3, <2>5, <2>6, NoNewChance
<1>8. QED BY <1>6, <1>7 DEF Process, Discard, FailToParse, FetchFails, NobodyToTell

LEMMA ConcludeCounts ==
    ASSUME TypeOK, NEW g \in Gathers, Conclude(g),
           NEW m \in Msgs, NEW n \in Notices, NEW d \in Devices, CountedFor(m, n, d)
    PROVE  CountedFor(m, n, d)'
<1>1. Live(g) /\ gather[g].msg \in Msgs
      BY LiveFacts DEF Conclude, Live, NoGather
<1>2. /\ queue' = queue \/ queue' = [queue EXCEPT ![gather[g].msg] = "deleted"]
      /\ UNCHANGED <<batch, markers, pushes, slips>>
      BY DEF Conclude, DeleteMessage, Healthy, Glitch, histVars, faultVars
<1>3. Coming(m)' \in {0, 1} /\ Coming(m)' <= Coming(m)
      BY <1>1, <1>2 DEF Coming, TypeOK
<1>4. /\ Holders(m)' = Holders(m) /\ (Told(n, d)' <=> Told(n, d))
      /\ slips' \in Nat /\ slips' >= slips
      BY <1>2 DEF Holders, Told, TypeOK
<1>5. ASSUME NEW live \in {"queued", "sending", "accepted"}
      PROVE  At(m, n, d, live)' = At(m, n, d, live)
  <2>1. task[g][d] # live
        BY DEF Conclude, Finished
  <2>2. \A h \in Gathers : /\ gather'[h] = IF h = g THEN NoGather ELSE gather[h]
                           /\ h # g => task'[h] = task[h]
        BY DEF Conclude, TypeOK
  <2>3. QED BY <2>1, <2>2 DEF At, Live
<1>6. Chances(m, n, d)' <= Chances(m, n, d)
      BY <1>3, <1>4, <1>5, CountTypes DEF Chances
<1>7. QED BY <1>2, <1>4, <1>5, <1>6, NoNewChance DEF CountedFor

\* A decision only lets come what was to come.
LEMMA DecideCounts ==
    ASSUME TypeOK, NEW k \in Notices, Decide(k),
           NEW m \in Msgs, NEW n \in Notices, NEW d \in Devices, CountedFor(m, n, d)
    PROVE  CountedFor(m, n, d)'
<1>1. /\ UNCHANGED <<batch, gather, task, markers, pushes, slips>>
      /\ Coming(m)' = Coming(m)
      BY DEF Decide, Coming, runVars, histVars, faultVars
<1>2. QED BY <1>1 DEF CountedFor, Chances, Holders, At, Live, Told

\* A redelivery adds a chance: for free only if nobody has one and no answer of
\* FCM is pending.
LEMMA TimeoutCounts ==
    ASSUME TypeOK, NEW k \in Msgs, VisibilityTimeout(k),
           NEW m \in Msgs, NEW n \in Notices, NEW d \in Devices, CountedFor(m, n, d)
    PROVE  CountedFor(m, n, d)'
<1>1. UNCHANGED <<batch, gather, task, markers, pushes>>
      BY DEF VisibilityTimeout, runVars, histVars
<1>2. /\ Holders(m)' = Holders(m) /\ (Told(n, d)' <=> Told(n, d))
      /\ \A stage : At(m, n, d, stage)' = At(m, n, d, stage)
      BY <1>1 DEF Holders, Told, At, Live
<1>3. CASE m # k
  <2>1. Coming(m)' = Coming(m)
        BY <1>3 DEF VisibilityTimeout, Coming, TypeOK
  <2>2. slips' \in Nat /\ slips' >= slips
        BY DEF VisibilityTimeout, Slip, Healthy, faultVars, TypeOK
  <2>3. Chances(m, n, d)' <= Chances(m, n, d)
        BY <1>2, <2>1, CountTypes DEF Chances
  <2>4. QED BY <1>1, <1>2, <2>2, <2>3, NoNewChance DEF CountedFor
<1>4. CASE m = k
  <2>1. Coming(m) = 0 /\ Coming(m)' = 1
        BY <1>4 DEF VisibilityTimeout, Coming, TypeOK
  <2>2. Chances(m, n, d)' = Chances(m, n, d) + 1
        BY <1>2, <2>1, CountTypes DEF Chances
  <2>3. CASE InHand(m)
    <3>1. slips' = slips + 1
          BY <1>4, <2>3 DEF VisibilityTimeout, Slip
    <3>2. QED BY <1>1, <1>2, <2>2, <3>1, CountTypes DEF CountedFor
  <2>4. CASE ~InHand(m)
    <3>1. slips' = slips
          BY <1>4, <2>4 DEF VisibilityTimeout, Healthy, faultVars
    <3>2. Holders(m) = {} /\ \A stage : At(m, n, d, stage) = {}
          BY <2>4 DEF InHand, Holders, At, Live
    <3>3. Chances(m, n, d) = 0
          BY <2>1, <3>2, FS_EmptySet DEF Chances
    <3>4. pushes[m][n][d] <= 1 + slips /\ (Told(n, d) \/ pushes[m][n][d] <= slips)
          BY <3>2, FS_EmptySet, CountTypes DEF CountedFor
    <3>5. QED BY <1>1, <1>2, <2>2, <3>1, <3>3, <3>4, CountTypes DEF CountedFor
  <2>5. QED BY <2>3, <2>4
<1>5. QED BY <1>3, <1>4

\* A restart that loses an answer of FCM is a slip.
LEMMA RestartCounts ==
    ASSUME TypeOK, NEW w \in Workers, Restart(w),
           NEW m \in Msgs, NEW n \in Notices, NEW d \in Devices, CountedFor(m, n, d)
    PROVE  CountedFor(m, n, d)'
<1> DEFINE mine == {g \in Gathers : gather[g] # NoGather /\ gather[g].worker = w}
           Q == At(m, n, d, "queued")
           S == At(m, n, d, "sending")
<1>1. /\ UNCHANGED <<queue, markers, pushes>>
      /\ batch' = [batch EXCEPT ![w] = {}]
      /\ \A g \in Gathers : gather'[g] = IF g \in mine THEN NoGather ELSE gather[g]
      /\ \A g \in Gathers : task'[g] = IF g \in mine THEN NoTasks ELSE task[g]
      /\ IF \E g \in mine, e \in Devices : task[g][e] = "accepted" THEN Slip ELSE Glitch
      BY DEF Restart, histVars
<1> HIDE DEF mine
<1>2. Coming(m)' = Coming(m) /\ (Told(n, d)' <=> Told(n, d))
      BY <1>1 DEF Coming, Told
<1>3. slips' \in Nat /\ slips' >= slips
      BY <1>1 DEF Slip, Glitch, TypeOK
<1>4. Holders(m)' \subseteq Holders(m)
      BY <1>1 DEF Holders, TypeOK
<1>5. \A stage : At(m, n, d, stage)' = At(m, n, d, stage) \ mine
      BY <1>1 DEF At, Live
<1>6. At(m, n, d, "accepted")' # At(m, n, d, "accepted") => slips' > slips
  <2>1. SUFFICES ASSUME NEW g \in mine, g \in At(m, n, d, "accepted")
                 PROVE  slips' > slips
        BY <1>5
  <2>2. slips' = slips + 1
        BY <1>1, <2>1 DEF At, Slip
  <2>3. QED BY <2>2 DEF TypeOK
<1>7. /\ IsFiniteSet(Holders(m)') /\ Cardinality(Holders(m)') <= Cardinality(Holders(m))
      /\ Cardinality(Holders(m)') \in Nat
      BY <1>4, FS_Subset, FS_CardinalityType DEF CountedFor
<1>8. /\ IsFiniteSet(Q') /\ Cardinality(Q') <= Cardinality(Q) /\ Cardinality(Q') \in Nat
      /\ S' \subseteq S /\ Cardinality(S') <= Cardinality(S) /\ Cardinality(S') \in Nat
      BY <1>5, FS_Subset, FS_CardinalityType DEF CountedFor
<1>9. Chances(m, n, d)' <= Chances(m, n, d)
      BY <1>2, <1>7, <1>8, CountTypes DEF Chances
<1>10. QED BY <1>1, <1>2, <1>3, <1>6, <1>7, <1>8, <1>9, NoNewChance

LEMMA ExpiryCounts ==
    ASSUME TypeOK, NEW mk \in Notices \X Devices, MarkerExpires(mk),
           NEW m \in Msgs, NEW n \in Notices, NEW d \in Devices, CountedFor(m, n, d)
    PROVE  CountedFor(m, n, d)'
<1>1. UNCHANGED <<queue, batch, gather, task, pushes>> /\ slips' = slips + 1
      BY DEF MarkerExpires, Slip, sqsVars, runVars, histVars
<1>2. /\ Coming(m)' = Coming(m) /\ Holders(m)' = Holders(m)
      /\ \A stage : At(m, n, d, stage)' = At(m, n, d, stage)
      BY <1>1 DEF Coming, Holders, At, Live
<1>3. Chances(m, n, d)' = Chances(m, n, d)
      BY <1>2 DEF Chances
<1>4. QED BY <1>1, <1>2, <1>3, CountTypes DEF CountedFor

\* What every step of a coroutine leaves alone.
LEMMA CoroutineFrame ==
    ASSUME IInv, NEW g \in Gathers, NEW e \in Devices, Coroutine(g, e),
           NEW m \in Msgs, NEW n \in Notices, NEW d \in Devices
    PROVE  /\ Holders(m)' = Holders(m) /\ Coming(m)' = Coming(m)
           /\ Told(n, d) => Told(n, d)'
           /\ slips' \in Nat /\ slips' >= slips
<1>1. UNCHANGED <<queue, batch>> /\ markers \subseteq markers'
      BY DEF Coroutine, StartSend, CheckFails, FcmAccepts, FcmRefuses, FcmFails,
             Deactivate, MarkSent, MarkFails, sqsVars
<1>2. slips' \in Nat /\ slips' >= slips
      BY DEF Coroutine, StartSend, CheckFails, FcmAccepts, FcmRefuses, FcmFails,
             Deactivate, MarkSent, MarkFails, faultVars, Healthy, Glitch, Slip, IInv, TypeOK
<1>3. QED BY <1>1, <1>2 DEF Holders, Coming, Told

\* A push that arrives is one of the message in hand, of its notice, to that device.
LEMMA PushCount ==
    ASSUME TypeOK, NEW g \in Gathers, NEW e \in Devices, Live(g), PushArrives(g, e),
           NEW m \in Msgs, NEW n \in Notices, NEW d \in Devices
    PROVE  pushes'[m][n][d] = IF m = gather[g].msg /\ n = gather[g].notice /\ d = e
                              THEN pushes[m][n][d] + 1 ELSE pushes[m][n][d]
<1>1. PICK j \in Msgs, k \in Notices : gather[g].msg = j /\ gather[g].notice = k
      BY LiveFacts
<1>2. pushes' = [pushes EXCEPT ![j][k][e] = @ + 1]
      BY <1>1 DEF PushArrives, Subject
<1>3. pushes \in [Msgs -> [Notices -> [Devices -> Nat]]]
      BY DEF TypeOK
<1>4. QED BY <1>1, <1>2, <1>3, OnePushMore

LEMMA StageNames ==
    /\ {"sending", "accepted", "rejected", "deactivated"} \subseteq Stages
    /\ {"queued", "none", "done", "transient_failed", "raised"} \subseteq Stages
BY DEF Stages, Holding, Finished

\* A step of a coroutine of m that tells d of n.
LEMMA OwnCoroutineCounts ==
    ASSUME IInv, NEW g \in Gathers, NEW d \in Devices, Coroutine(g, d),
           NEW m \in Msgs, NEW n \in Notices, m = gather[g].msg, n = gather[g].notice,
           CountedFor(m, n, d)
    PROVE  CountedFor(m, n, d)'
<1> DEFINE P == pushes[m][n][d]
           Q == At(m, n, d, "queued")
           S == At(m, n, d, "sending")
           A == At(m, n, d, "accepted")
<1>1. /\ TypeOK /\ Live(g)
      /\ Holders(m)' = Holders(m) /\ Coming(m)' = Coming(m)
      /\ Told(n, d) => Told(n, d)'
      /\ slips' \in Nat /\ slips' >= slips
      BY CoroutineFrame, CoroutineIsLive DEF IInv
<1>2. /\ IsFiniteSet(Q) /\ IsFiniteSet(S) /\ IsFiniteSet(Holders(m))
      /\ Cardinality(Q) \in Nat /\ Cardinality(S) \in Nat
      /\ Cardinality(Holders(m)) \in Nat
      /\ Coming(m) \in {0, 1} /\ P \in Nat /\ slips \in Nat
      BY <1>1, CountTypes DEF CountedFor
<1>3. /\ g \in Q <=> task[g][d] = "queued"
      /\ g \in S <=> task[g][d] = "sending"
      /\ g \in A <=> task[g][d] = "accepted"
      BY <1>1 DEF At
<1>4. ASSUME NEW stage \in Stages, Advance(g, d, stage)
      PROVE  /\ Q' = IF stage = "queued" THEN Q \cup {g} ELSE Q \ {g}
             /\ S' = IF stage = "sending" THEN S \cup {g} ELSE S \ {g}
             /\ A' = IF stage = "accepted" THEN A \cup {g} ELSE A \ {g}
  <2>1. \A live \in {"queued", "sending", "accepted"} :
            /\ live = stage => At(m, n, d, live)' = At(m, n, d, live) \cup {g}
            /\ live # stage => At(m, n, d, live)' = At(m, n, d, live) \ {g}
        BY <1>1, <1>4, AdvanceMoves
  <2>2. QED BY <2>1
<1>5. /\ IsFiniteSet(Q \ {g}) /\ Cardinality(Q \ {g}) \in Nat
      /\ Cardinality(Q \ {g}) = IF g \in Q THEN Cardinality(Q) - 1 ELSE Cardinality(Q)
      /\ IsFiniteSet(S \ {g}) /\ Cardinality(S \ {g}) \in Nat
      /\ Cardinality(S \ {g}) = IF g \in S THEN Cardinality(S) - 1 ELSE Cardinality(S)
      /\ IsFiniteSet(S \cup {g}) /\ Cardinality(S \cup {g}) \in Nat
      /\ Cardinality(S \cup {g}) = IF g \in S THEN Cardinality(S) ELSE Cardinality(S) + 1
      BY <1>2, FS_AddElement, FS_RemoveElement, FS_CardinalityType
<1>6. ASSUME NEW stage \in Stages \ {"queued", "sending", "accepted"},
             Advance(g, d, stage), pushes' = pushes, task[g][d] = "accepted" => slips' > slips
      PROVE  CountedFor(m, n, d)'
  <2>1. Q' = Q \ {g} /\ S' = S \ {g} /\ A' = A \ {g}
        BY <1>4, <1>6
  <2>2. /\ Cardinality(Q') \in Nat /\ Cardinality(Q') <= Cardinality(Q)
        /\ Cardinality(S') \in Nat /\ Cardinality(S') <= Cardinality(S)
    <3>1. /\ Cardinality(Q') = Cardinality(Q \ {g})
          /\ Cardinality(S') = Cardinality(S \ {g})
          BY <2>1, Zenon
    <3>2. QED BY <1>2, <1>5, <3>1
  <2>3. Chances(m, n, d)' <= Chances(m, n, d)
        BY <1>1, <1>2, <2>2 DEF Chances
  <2>4. A' # A => slips' > slips
        BY <1>3, <1>6, <2>1
  <2>5. IsFiniteSet(Holders(m)') /\ IsFiniteSet(Q') /\ S' \subseteq S
        BY <1>1, <1>2, <1>5, <2>1
  <2>6. QED BY <1>1, <1>6, <2>3, <2>4, <2>5, NoNewChance
<1>7. CASE StartSend(g, d)
  <2>1. CASE Advance(g, d, "done")
        BY <1>3, <1>6, <1>7, <2>1, StageNames DEF StartSend, EnterSemaphore, histVars
  <2>2. CASE Advance(g, d, "sending") /\ ~AlreadySent(g, d)
    <3>1. ~Told(n, d)
          BY <2>2 DEF Told, AlreadySent, Subject
    <3>2. /\ Q' = Q \ {g} /\ S' = S \cup {g} /\ A' = A \ {g}
          /\ g \in Q /\ g \notin S /\ g \notin A
          BY <1>3, <1>4, <1>7, <2>2, StageNames DEF StartSend, EnterSemaphore
    <3>3. P' = P /\ slips' = slips
          BY <1>7 DEF StartSend, histVars, faultVars
    <3>4. P + Chances(m, n, d) <= 1 + slips /\ (P <= slips \/ A # {})
          BY <3>1 DEF CountedFor
    <3>5. /\ Cardinality(Q') = Cardinality(Q) - 1
          /\ Cardinality(S') = Cardinality(S) + 1
          /\ IsFiniteSet(Q') /\ IsFiniteSet(S')
      <4>1. /\ Cardinality(Q \ {g}) = Cardinality(Q) - 1
            /\ Cardinality(S \cup {g}) = Cardinality(S) + 1
            BY <1>5, <3>2
      <4>2. QED BY <1>5, <3>2, <4>1
    <3>6. A' = A
          BY <3>2
    <3>7. Chances(m, n, d)' = Chances(m, n, d)
          BY <1>1, <1>2, <3>5 DEF Chances
    <3>8. Chances(m, n, d) >= 1 + Cardinality(S) /\ Chances(m, n, d) \in Nat
          BY <1>2, <1>5, <3>2 DEF Chances
    <3> HIDE DEF P, Q, S, A
    <3>9. QED BY <1>1, <1>2, <3>3, <3>4, <3>5, <3>6, <3>7, <3>8
              DEF CountedFor, P, Q, S, A
  <2>3. QED BY <1>7, <2>1, <2>2 DEF StartSend
<1>8. CASE CheckFails(g, d)
      BY <1>3, <1>6, <1>8, StageNames DEF CheckFails, EnterSemaphore, histVars
<1>9. CASE FcmAccepts(g, d)
  <2>1. /\ Q' = Q \ {g} /\ S' = S \ {g} /\ A' = A \cup {g}
        /\ g \notin Q /\ g \in S
        BY <1>3, <1>4, <1>9, StageNames DEF FcmAccepts
  <2>2. P' = P + 1 /\ slips' = slips
        BY <1>1, <1>9, PushCount DEF FcmAccepts, faultVars
  <2>3. /\ Cardinality(Q') = Cardinality(Q)
        /\ Cardinality(S') = Cardinality(S) - 1
        /\ IsFiniteSet(Q') /\ IsFiniteSet(S') /\ A' # {}
        BY <1>5, <2>1
  <2>4. Chances(m, n, d)' = Chances(m, n, d) - 1 /\ Chances(m, n, d) \in Nat
        BY <1>1, <1>2, <2>3 DEF Chances
  <2>5. QED BY <1>1, <1>2, <2>2, <2>3, <2>4 DEF CountedFor
<1>10. CASE FcmRefuses(g, d)
      BY <1>3, <1>6, <1>10, StageNames DEF FcmRefuses
<1>11. CASE FcmFails(g, d)
  <2>1. CASE Glitch /\ UNCHANGED pushes
        BY <1>3, <1>6, <1>11, <2>1, StageNames DEF FcmFails
  <2>2. CASE Slip /\ PushArrives(g, d)
    <3>1. /\ Q' = Q \ {g} /\ S' = S \ {g} /\ A' = A \ {g}
          /\ g \notin Q /\ g \in S /\ g \notin A
          BY <1>3, <1>4, <1>11, StageNames DEF FcmFails
    <3>2. P' = P + 1 /\ slips' = slips + 1
          BY <1>1, <2>2, PushCount DEF Slip
    <3>3. /\ Cardinality(Q') = Cardinality(Q)
          /\ Cardinality(S') = Cardinality(S) - 1
          /\ IsFiniteSet(Q') /\ IsFiniteSet(S')
          BY <1>5, <3>1
    <3>4. A' = A
          BY <3>1
    <3>5. Chances(m, n, d)' = Chances(m, n, d) - 1 /\ Chances(m, n, d) \in Nat
          BY <1>1, <1>2, <3>3 DEF Chances
    <3>6. QED BY <1>1, <1>2, <3>2, <3>3, <3>4, <3>5 DEF CountedFor
  <2>3. QED BY <1>11, <2>1, <2>2 DEF FcmFails
<1>12. CASE Deactivate(g, d)
      BY <1>3, <1>6, <1>12, StageNames DEF Deactivate, histVars
<1>13. CASE MarkSent(g, d)
  <2>1. Advance(g, d, "done") /\ pushes' = pushes /\ Told(n, d)'
        BY <1>13 DEF MarkSent, Subject, Told, histVars
  <2>2. Q' = Q \ {g} /\ S' = S \ {g}
        BY <1>4, <2>1, StageNames
  <2>3. /\ IsFiniteSet(Q') /\ IsFiniteSet(S')
        /\ Cardinality(Q') <= Cardinality(Q) /\ Cardinality(Q') \in Nat
        /\ Cardinality(S') <= Cardinality(S) /\ Cardinality(S') \in Nat
    <3>1. /\ Cardinality(Q') = Cardinality(Q \ {g}) /\ IsFiniteSet(Q')
          /\ Cardinality(S') = Cardinality(S \ {g}) /\ IsFiniteSet(S')
          BY <1>5, <2>2, Zenon
    <3>2. QED BY <1>2, <1>5, <3>1
  <2>4. /\ Chances(m, n, d)' <= Chances(m, n, d)
        /\ Chances(m, n, d) \in Nat /\ Chances(m, n, d)' \in Nat
        BY <1>1, <1>2, <2>3 DEF Chances
  <2>5. QED BY <1>1, <1>2, <2>1, <2>3, <2>4 DEF CountedFor
<1>14. CASE MarkFails(g, d)
  <2>1. PICK stage \in {"transient_failed", "raised"} :
            /\ Advance(g, d, stage) /\ pushes' = pushes
            /\ task[g][d] = "accepted" => Slip
        BY <1>14 DEF MarkFails, histVars
  <2>2. task[g][d] = "accepted" => slips' > slips
        BY <1>2, <2>1 DEF Slip
  <2>3. QED BY <1>6, <2>1, <2>2, StageNames
<1>15. QED BY <1>7, <1>8, <1>9, <1>10, <1>11, <1>12, <1>13, <1>14 DEF Coroutine

\* A step of any other coroutine.
LEMMA OtherCoroutineCounts ==
    ASSUME IInv, NEW g \in Gathers, NEW e \in Devices, Coroutine(g, e),
           NEW m \in Msgs, NEW n \in Notices, NEW d \in Devices, CountedFor(m, n, d),
           ~(m = gather[g].msg /\ n = gather[g].notice /\ d = e)
    PROVE  CountedFor(m, n, d)'
<1>1. /\ TypeOK /\ Live(g)
      /\ Holders(m)' = Holders(m) /\ Coming(m)' = Coming(m)
      /\ Told(n, d) => Told(n, d)'
      /\ slips' \in Nat /\ slips' >= slips
      BY CoroutineFrame, CoroutineIsLive DEF IInv
<1>2. PICK stage \in Stages : Advance(g, e, stage)
      BY StageNames DEF Coroutine, StartSend, CheckFails, FcmAccepts, FcmRefuses, FcmFails,
                        Deactivate, MarkSent, MarkFails
<1>3. \A live \in {"queued", "sending", "accepted"} :
          At(m, n, d, live)' = At(m, n, d, live)
      BY <1>1, <1>2, AdvanceMoves
<1>4. pushes'[m][n][d] = pushes[m][n][d]
  <2>1. CASE PushArrives(g, e)
        BY <1>1, <2>1, PushCount
  <2>2. CASE pushes' = pushes
        BY <2>2
  <2>3. QED BY <2>1, <2>2
            DEF Coroutine, StartSend, CheckFails, FcmAccepts, FcmRefuses, FcmFails,
                Deactivate, MarkSent, MarkFails, histVars
<1>5. Chances(m, n, d)' <= Chances(m, n, d)
      BY <1>1, <1>3, CountTypes DEF Chances
<1>6. QED BY <1>1, <1>3, <1>4, <1>5, NoNewChance DEF CountedFor

LEMMA InitCounts == Init => CountInv
<1> SUFFICES ASSUME Init, NEW m \in Msgs, NEW n \in Notices, NEW d \in Devices
             PROVE  CountedFor(m, n, d)
    BY DEF CountInv
<1>1. Holders(m) = {} /\ \A stage : At(m, n, d, stage) = {}
      BY DEF Init, Holders, At, Live
<1>2. Coming(m) \in {0, 1} /\ pushes[m][n][d] = 0 /\ slips = 0
      BY DEF Init, Coming
<1>3. Chances(m, n, d) \in {0, 1}
      BY <1>1, <1>2, FS_EmptySet DEF Chances
<1>4. QED BY <1>1, <1>2, <1>3, FS_EmptySet DEF CountedFor

LEMMA CountStep ==
    ASSUME IInv, CountInv, [Next]_vars
    PROVE  CountInv'
<1> SUFFICES ASSUME NEW m \in Msgs, NEW n \in Notices, NEW d \in Devices
             PROVE  CountedFor(m, n, d)'
    BY DEF CountInv
<1>1. TypeOK /\ CountedFor(m, n, d)
      BY DEF IInv, CountInv
<1>2. ASSUME NEW g \in Gathers, NEW e \in Devices, Coroutine(g, e)
      PROVE  CountedFor(m, n, d)'
      BY <1>1, <1>2, OwnCoroutineCounts, OtherCoroutineCounts
<1>3. CASE UNCHANGED vars
      BY <1>1, <1>3 DEF vars, CountedFor, Chances, Coming, Holders, At, Live, Told
<1>4. QED BY <1>1, <1>2, <1>3, DecideCounts, ReceiveCounts, ProcessCounts, ConcludeCounts,
             TimeoutCounts, RestartCounts, ExpiryCounts DEF Next

\* A message tells a device of a notice again only if a slip pays for it: a lost
\* marker or answer, an overrun visibility timeout, a restart between FCM and
\* Redis.  Neither retries nor what other messages and a moderator do is to blame.
THEOREM RepeatsAreAccountedFor == Spec => []RepeatsNeedSlips
<1>1. Init => CountInv
      BY InitCounts
<1>2. IInv /\ CountInv /\ [Next]_vars => CountInv'
      BY CountStep
<1>3. IInv /\ CountInv => RepeatsNeedSlips
  <2>1. SUFFICES ASSUME IInv, CountInv, NEW m \in Msgs, NEW n \in Notices, NEW d \in Devices
                 PROVE  pushes[m][n][d] <= 1 + slips
        BY DEF RepeatsNeedSlips
  <2>2. TypeOK /\ CountedFor(m, n, d)
        BY <2>1 DEF IInv, CountInv
  <2>3. QED BY <2>2, CountTypes DEF CountedFor
<1>4. QED BY <1>1, <1>2, <1>3, InvariantHolds, PTL DEF Spec

-----------------------------------------------------------------------------
(* Refinement                                                               *)

\* What was dropped has left its queue.
DroppedAreGone == \A m \in dropped : queue[m] = "deleted"

\* The histories grow.
LEMMA HistoryGrows ==
    ASSUME IInv, [Next]_vars
    PROVE  /\ decided \subseteq decided' /\ inactive \subseteq inactive'
           /\ refused \subseteq refused'
           /\ \A m \in Msgs, n \in Notices, d \in Devices :
                 pushes[m][n][d] > 0 => pushes'[m][n][d] > 0
<1> DEFINE P == /\ decided \subseteq decided' /\ inactive \subseteq inactive'
                /\ refused \subseteq refused'
                /\ \A m \in Msgs, n \in Notices, d \in Devices :
                      pushes[m][n][d] > 0 => pushes'[m][n][d] > 0
<1>1. TypeOK /\ pushes \in [Msgs -> [Notices -> [Devices -> Nat]]]
      BY DEF IInv, TypeOK
<1>2. ASSUME NEW n \in Notices, Decide(n)
      PROVE  P
      BY <1>2 DEF Decide, histVars
<1>3. ASSUME NEW w \in Workers, Poll(w) \/ Restart(w)
      PROVE  P
      BY <1>3 DEF Poll, Receive, Restart, histVars
<1>4. ASSUME NEW w \in Workers, NEW m \in Msgs, Process(w, m)
      PROVE  P
      BY <1>4 DEF Process, Discard, FailToParse, FetchFails, NobodyToTell, StartGather,
                  histVars
<1>5. ASSUME NEW g \in Gathers, NEW d \in Devices, Coroutine(g, d)
      PROVE  P
  <2>1. CASE FcmAccepts(g, d) \/ FcmFails(g, d)
    <3>1. pushes' = pushes \/ PushArrives(g, d)
          BY <2>1 DEF FcmAccepts, FcmFails
    <3>2. \A m \in Msgs, n \in Notices, e \in Devices :
              pushes[m][n][e] > 0 => pushes'[m][n][e] > 0
      <4>1. gather[g].msg \in Msgs /\ Subject(g) \in Notices
            BY <1>1, <1>5, CoroutineIsLive, LiveFacts DEF Subject
      <4>2. CASE PushArrives(g, d)
            BY <1>1, <4>1, <4>2, OnePushMore DEF PushArrives
      <4>3. QED BY <3>1, <4>2
    <3>3. QED BY <2>1, <3>2 DEF FcmAccepts, FcmFails, sqsVars
  <2>2. CASE ~(FcmAccepts(g, d) \/ FcmFails(g, d))
        BY <1>5, <2>2 DEF Coroutine, StartSend, CheckFails, FcmRefuses, Deactivate, MarkSent,
                          MarkFails, sqsVars, histVars
  <2>3. QED BY <2>1, <2>2
<1>6. ASSUME NEW g \in Gathers, Conclude(g)
      PROVE  P
      BY <1>6 DEF Conclude, histVars
<1>7. ASSUME NEW m \in Msgs, VisibilityTimeout(m)
      PROVE  P
      BY <1>7 DEF VisibilityTimeout, histVars
<1>8. ASSUME NEW mk \in Notices \X Devices, MarkerExpires(mk)
      PROVE  P
      BY <1>8 DEF MarkerExpires, sqsVars, histVars
<1>9. CASE UNCHANGED vars
      BY <1>9 DEF vars
<1>10. QED BY <1>2, <1>3, <1>4, <1>5, <1>6, <1>7, <1>8, <1>9 DEF Next

\* No message leaves its queue, or one does: deleted, or dropped.
LEMMA QueueMoves ==
    ASSUME TypeOK, [Next]_vars
    PROVE  \/ /\ \A m \in Msgs : queue'[m] = "deleted" <=> queue[m] = "deleted"
              /\ dropped' = dropped
           \/ \E m \in Msgs : /\ DeleteMessage(m) /\ dropped' = dropped
                              /\ UNCHANGED <<decided, inactive, pushes, refused>>
           \/ \E w \in Workers, m \in Msgs : Discard(w, m)
<1> DEFINE Still == /\ \A m \in Msgs : queue'[m] = "deleted" <=> queue[m] = "deleted"
                    /\ dropped' = dropped
           Leaves(m) == /\ DeleteMessage(m) /\ dropped' = dropped
                        /\ UNCHANGED <<decided, inactive, pushes, refused>>
<1>1. ASSUME NEW n \in Notices, Decide(n)
      PROVE  Still
      BY <1>1 DEF Decide, histVars
<1>2. ASSUME NEW w \in Workers, Poll(w) \/ Restart(w)
      PROVE  Still
  <2>1. CASE Restart(w)
        BY <2>1 DEF Restart, histVars
  <2>2. CASE Poll(w)
        BY <2>2 DEF Poll, Receive, Visible, histVars
  <2>3. QED BY <1>2, <2>1, <2>2
<1>3. ASSUME NEW w \in Workers, NEW m \in Msgs, Process(w, m), ~Discard(w, m)
      PROVE  Still \/ Leaves(m)
      BY <1>3 DEF Process, FailToParse, FetchFails, NobodyToTell, StartGather, runVars,
                  histVars
<1>4. ASSUME NEW g \in Gathers, NEW d \in Devices, Coroutine(g, d)
      PROVE  Still
      BY <1>4 DEF Coroutine, StartSend, CheckFails, FcmAccepts, FcmRefuses, FcmFails,
                  Deactivate, MarkSent, MarkFails, sqsVars, histVars
<1>5. ASSUME NEW g \in Gathers, Conclude(g)
      PROVE  Still \/ (Leaves(gather[g].msg) /\ gather[g].msg \in Msgs)
  <2>1. Live(g)
        BY <1>5 DEF Conclude, Live, NoGather
  <2>2. QED BY <1>5, <2>1, LiveFacts DEF Conclude, histVars
<1>6. ASSUME NEW m \in Msgs, VisibilityTimeout(m)
      PROVE  Still
      BY <1>6 DEF VisibilityTimeout, TypeOK, histVars
<1>7. ASSUME NEW mk \in Notices \X Devices, MarkerExpires(mk)
      PROVE  Still
      BY <1>7 DEF MarkerExpires, sqsVars, histVars
<1>8. CASE UNCHANGED vars
      BY <1>8 DEF vars
<1>9. QED BY <1>1, <1>2, <1>3, <1>4, <1>5, <1>6, <1>7, <1>8 DEF Next

LEMMA DroppedStays ==
    ASSUME TypeOK, DroppedAreGone, [Next]_vars
    PROVE  DroppedAreGone'
<1>1. dropped \subseteq Msgs
      BY DEF TypeOK
<1>2. ASSUME NEW m \in Msgs, DeleteMessage(m), dropped' = dropped
      PROVE  DroppedAreGone'
      BY <1>1, <1>2 DEF DroppedAreGone, DeleteMessage, TypeOK
<1>3. ASSUME NEW w \in Workers, NEW m \in Msgs, Discard(w, m)
      PROVE  DroppedAreGone'
  <2>1. CASE queue' = queue
        BY <1>3, <2>1 DEF DroppedAreGone, Discard
  <2>2. CASE queue' = [queue EXCEPT ![m] = "deleted"]
        BY <1>1, <1>3, <2>2 DEF DroppedAreGone, Discard, TypeOK
  <2>3. QED BY <1>3, <2>1, <2>2 DEF Discard, DeleteMessage
<1>4. QED BY <1>1, <1>2, <1>3, QueueMoves DEF DroppedAreGone

\* Each step of the consumers is a step of the contract, or invisible to it.
LEMMA ContractStep ==
    ASSUME IInv, DroppedAreGone, SettledBeforeDelete', [Next]_vars
    PROVE  [Contract!Next]_(Contract!contractVars)
<1> DEFINE open == {m \in Msgs : queue[m] # "deleted"}
           Ready(m, d) == \/ Settled(Notice[m], d)
                          \/ /\ Notice[m] \in decided
                             /\ \A e \in Targets[CurrentNotice(m)] :
                                   Settled(CurrentNotice(m), e)
           settled == {md \in Msgs \X Devices :
                         \/ Settled(Notice[md[1]], md[2])
                         \/ /\ Notice[md[1]] \in decided
                            /\ \A e \in Targets[CurrentNotice(md[1])] :
                                  Settled(CurrentNotice(md[1]), e)}
<1>1. /\ settled = {md \in Msgs \X Devices : Ready(md[1], md[2])}
      /\ settled' = {md \in Msgs \X Devices : Ready(md[1], md[2])'}
      OBVIOUS
<1>2. \A m \in Msgs, d \in Devices : Ready(m, d) => Ready(m, d)'
  <2>1. \A n \in Notices, d \in Devices : Settled(n, d) => Settled(n, d)'
        BY HistoryGrows, SettledGrows
  <2>2. \A m \in Msgs : Notice[m] \in decided => CurrentNotice(m)' = CurrentNotice(m)
        BY HistoryGrows DEF CurrentNotice
  <2>3. ASSUME NEW m \in Msgs, NEW d \in Devices, Settled(Notice[m], d)
        PROVE  Settled(Notice[m], d)'
        BY <2>1, <2>3, NoticeTypes
  <2>4. ASSUME NEW m \in Msgs, Notice[m] \in decided,
               \A e \in Targets[CurrentNotice(m)] : Settled(CurrentNotice(m), e)
        PROVE  /\ Notice[m] \in decided'
               /\ \A e \in Targets[CurrentNotice(m)]' : Settled(CurrentNotice(m), e)'
    <3>1. PICK n \in Notices : CurrentNotice(m) = n
          BY NoticeTypes DEF IInv
    <3>2. \A e \in Targets[n] : Settled(n, e)'
          BY <2>1, <2>4, <3>1, NoticeTypes
    <3>3. CurrentNotice(m)' = n
          BY <2>2, <2>4, <3>1
    <3>4. QED BY <2>4, <3>2, <3>3, HistoryGrows DEF Settled, Handled
  <2>5. QED BY <2>3, <2>4
<1>3. settled \subseteq settled' /\ settled' \in SUBSET (Msgs \X Devices)
  <2> HIDE DEF Ready, settled
  <2>1. \A md \in Msgs \X Devices : Ready(md[1], md[2]) => Ready(md[1], md[2])'
        BY <1>2
  <2>2. QED BY <1>1, <2>1
<1>4. CASE open' = open /\ dropped' = dropped
      BY <1>3, <1>4 DEF Contract!Next, Contract!Settle
<1>5. ASSUME NEW m \in Msgs, DeleteMessage(m), dropped' = dropped,
             UNCHANGED <<decided, inactive, pushes, refused>>
      PROVE  [Contract!Next]_(Contract!contractVars)
  <2>1. CASE open' = open
        BY <1>4, <1>5, <2>1
  <2>2. CASE queue[m] # "deleted" /\ queue'[m] = "deleted" /\ open' = open \ {m}
    <3>1. settled' = settled
          BY <1>5 DEF Settled, Handled, CurrentNotice
    <3>2. PICK n \in Announced(m) : \A d \in Targets[n] : Settled(n, d)
      <4>1. m \notin dropped'
            BY <1>5, <2>2 DEF DroppedAreGone
      <4>2. QED BY <1>5, <2>2, <4>1
                DEF SettledBeforeDelete, Settled, Handled, Announced, CurrentNotice
    <3>3. \A d \in Targets[Notice[m]] : Ready(m, d)
          BY <3>2 DEF Announced, CurrentNotice
    <3>4. \A d \in Targets[Notice[m]] : <<m, d>> \in settled
          BY <3>3, NoticeTypes
    <3>5. Contract!Close(m)
          BY <1>5, <2>2, <3>1, <3>4 DEF Contract!Close
    <3>6. QED BY <3>5 DEF Contract!Next
  <2>3. QED BY <1>5, <2>1, <2>2 DEF DeleteMessage, IInv, TypeOK
<1>6. ASSUME NEW w \in Workers, NEW m \in Msgs, Discard(w, m)
      PROVE  [Contract!Next]_(Contract!contractVars)
  <2>1. CASE queue' = queue
        BY <1>4, <1>6, <2>1 DEF Discard
  <2>2. CASE queue[m] # "deleted" /\ queue' = [queue EXCEPT ![m] = "deleted"]
    <3>1. settled' = settled
          BY <1>6 DEF Discard, Settled, Handled, CurrentNotice
    <3>2. queue' # queue /\ open' = open \ {m} /\ m \in open
          BY <2>2 DEF IInv, TypeOK
    <3>3. Contract!Withdraw(m)
          BY <1>6, <3>1, <3>2 DEF Contract!Withdraw, Discard
    <3>4. QED BY <3>3 DEF Contract!Next
  <2>3. CASE queue[m] = "deleted" /\ queue' = [queue EXCEPT ![m] = "deleted"]
        BY <2>1, <2>3 DEF IInv, TypeOK
  <2>4. QED BY <1>6, <2>1, <2>2, <2>3 DEF Discard, DeleteMessage
<1>7. QED BY <1>4, <1>5, <1>6, QueueMoves DEF IInv

\* The chat, prayer, join request and group post consumers implement the
\* delivery contract: seen through which messages are open and whose work is
\* done, they do nothing DeliveryContract does not allow.
THEOREM Refinement == Spec => ImplementsContract
<1>1. Init => Contract!Init
  <2>1. Init => \A m \in Msgs : queue[m] # "deleted"
        BY DEF Init
  <2>2. QED BY <2>1 DEF Init, Contract!Init
<1>2. Init => DroppedAreGone
      BY DEF Init, DroppedAreGone
<1>3. IInv /\ DroppedAreGone /\ [Next]_vars => DroppedAreGone'
      BY DroppedStays DEF IInv
<1>4. IInv /\ IInv' /\ DroppedAreGone /\ [Next]_vars
         => [Contract!Next]_(Contract!contractVars)
      BY ContractStep DEF IInv
<1>5. QED BY <1>1, <1>2, <1>3, <1>4, InvariantHolds, PTL
          DEF Spec, Contract!Spec, ImplementsContract
=============================================================================
